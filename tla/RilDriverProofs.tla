-------------------------- MODULE RilDriverProofs ---------------------------
(***************************************************************************)
(* Proofs about RilDriver, for every set of requests, every number of      *)
(* tries of the handshake and every bound.                                 *)
(***************************************************************************)
EXTENDS RilDriver, AtTokProofs, ListLemmas, TLAPS

USE HandshakeAssumption, EventAssumption, RequestAssumption

-----------------------------------------------------------------------------
(* The operators on lines.                                                 *)

(* Marking what a command given up is still owed changes marks only.        *)
LEMMA StrayLines ==
  ASSUME NEW s \in Seq(Lines)
  PROVE  /\ StrayAll(s) \in Seq(Lines)
         /\ Len(StrayAll(s)) = Len(s)
         /\ \A i \in 1..Len(s) :
              StrayAll(s)[i].t = s[i].t /\ StrayAll(s)[i].mark = Stray(s[i].mark)
<1>1. DOMAIN s = 1..Len(s) /\ Len(s) \in Nat /\ \A i \in 1..Len(s) : s[i] \in Lines
  OBVIOUS
<1>2. \A l \in Lines : /\ [l EXCEPT !.mark = Stray(@)] \in Lines
                       /\ [l EXCEPT !.mark = Stray(@)].t = l.t
                       /\ [l EXCEPT !.mark = Stray(@)].mark = Stray(l.mark)
  BY DEF Lines, Stray, Marks
<1>3. StrayAll(s) = [i \in 1..Len(s) |-> [s[i] EXCEPT !.mark = Stray(@)]]
  BY <1>1 DEF StrayAll
<1>4. StrayAll(s) \in Seq(Lines) /\ Len(StrayAll(s)) = Len(s)
  BY <1>1, <1>2, <1>3
<1> QED
  BY <1>1, <1>2, <1>3, <1>4

(* Giving a command up changes only its mark on what is under way. *)
LEMMA StrayItems ==
  ASSUME NEW s \in Seq(Items)
  PROVE  /\ StrayAll(s) \in Seq(Items)
         /\ Len(StrayAll(s)) = Len(s)
         /\ \A i \in 1..Len(s) :
              /\ StrayAll(s)[i].k = s[i].k /\ StrayAll(s)[i].cmd = s[i].cmd
              /\ StrayAll(s)[i].mark = Stray(s[i].mark)
<1>1. DOMAIN s = 1..Len(s) /\ Len(s) \in Nat /\ \A i \in 1..Len(s) : s[i] \in Items
  OBVIOUS
<1>2. \A l \in Items : /\ [l EXCEPT !.mark = Stray(@)] \in Items
                       /\ [l EXCEPT !.mark = Stray(@)].k = l.k
                       /\ [l EXCEPT !.mark = Stray(@)].cmd = l.cmd
                       /\ [l EXCEPT !.mark = Stray(@)].mark = Stray(l.mark)
  BY DEF Items, Stray, Marks
<1>3. StrayAll(s) = [i \in 1..Len(s) |-> [s[i] EXCEPT !.mark = Stray(@)]]
  BY <1>1 DEF StrayAll
<1>4. StrayAll(s) \in Seq(Items) /\ Len(StrayAll(s)) = Len(s)
  BY <1>1, <1>2, <1>3
<1> QED
  BY <1>1, <1>2, <1>3, <1>4

(* What the daemon writes first for a command: the line of a call, or the result. *)
LEMMA ReplyLine ==
  ASSUME NEW c, NEW ok, NEW m \in Marks
  PROVE  /\ Reply(c, ok, m) \in Lines /\ Reply(c, ok, m).mark = m
         /\ Reply(c, ok, m).t \notin {"RING", "NO_CARRIER"}
         /\ Lists(c) => Reply(c, ok, m).t \in ClccTexts
<1>1. CASE Lists(c)
  <2> DEFINE x == CASE phone = "DIALING" -> "+CLCC:2"
                    [] phone = "INCOMING" -> "+CLCC:4"
                    [] OTHER -> "+CLCC:0"
  <2>1. x \in ClccTexts
    BY DEF ClccTexts
  <2>2. Reply(c, ok, m) = Line(x, m)
    BY <1>1 DEF Reply
  <2> HIDE DEF x
  <2>3. Reply(c, ok, m) = [t |-> x, mark |-> m]
    BY <2>2 DEF Line
  <2>4. x \in LineTexts /\ x \notin {"RING", "NO_CARRIER"}
    BY <2>1 DEF ClccTexts, LineTexts
  <2> QED
    BY <2>1, <2>3, <2>4 DEF Lines
<1>2. CASE ~Lists(c)
  <2> DEFINE x == Result(c, ok)
  <2>1. x \in {"OK", "ERROR"}
    BY DEF Result
  <2>2. Reply(c, ok, m) = Line(x, m)
    BY <1>2 DEF Reply
  <2> HIDE DEF x
  <2>3. Reply(c, ok, m) = [t |-> x, mark |-> m]
    BY <2>2 DEF Line
  <2>4. x \in LineTexts /\ x \notin {"RING", "NO_CARRIER"}
    BY <2>1 DEF LineTexts
  <2> QED
    BY <1>2, <2>3, <2>4 DEF Lines
<1> QED
  BY <1>1, <1>2

(* What the daemon says of a new state of the phone are lines. *)
LEMMA NewsLines ==
  ASSUME DaemonTypeOK, NEW s
  PROVE  News(s) \in Seq(Lines)
<1>1. CASE s = "INCOMING"
  <2>1. Line("RING", "news") \in Lines
    BY DEF Line, Lines, LineTexts, Marks
  <2> QED
    BY <1>1, <2>1 DEF News
<1>2. CASE s = "IDLE" /\ s_wait_response = "no"
  <2> DEFINE l == Line("NO_CARRIER", "news")
  <2>1. l \in Lines
    BY DEF Line, Lines, LineTexts, Marks
  <2>2. News(s) = <<l>>
    BY <1>2, Zenon DEF News
  <2> HIDE DEF l
  <2> QED
    BY <2>1, <2>2
<1>3. CASE s \in {"IDLE", "DIALING"} /\ s_wait_response # "no"
  <2>1. Line("OK", s_wait_response) \in Lines
    BY <1>3 DEF Line, Lines, LineTexts, DaemonTypeOK
  <2> QED
    BY <1>3, <2>1 DEF News
<1>4. CASE ~(s = "INCOMING") /\ ~(s = "IDLE" /\ s_wait_response = "no")
           /\ ~(s \in {"IDLE", "DIALING"} /\ s_wait_response # "no")
  <2>1. News(s) = <<>>
    BY <1>4, Zenon DEF News
  <2> QED
    BY <2>1
<1> QED
  BY <1>1, <1>2, <1>3, <1>4
-----------------------------------------------------------------------------
(* The inductive invariant.                                                *)

\* The lines the driver has yet to process, in their order.
LinesIn == s_ATBuffer \o up

\* The request thread has sent a command, or its text, and not taken its end.
Asking == rq \in {"cr", "wait", "woken"}

\* The ends of the link and the states of the channel on either side of it.
Connected ==
  /\ link = "up" => s_fd = "open" /\ s_readerClosed = 0 /\ s_closed = 0 /\ rd = "read"
  /\ link = "eof" => rd # "none"
  /\ link \in {"down", "gone"} => rd = "none"
  /\ rd # "read" => s_ATBuffer = <<>> /\ (rd = "closed" => link = "eof" /\ s_readerClosed = 1)
  /\ link # "up" => link = "gone" \/ (down = <<>> /\ posted = "no")
  /\ link \in {"down", "gone"} => up = <<>>

\* Each reader that has yet to report a closed channel stands for an end of the
\* daemon.
Closing == late + (IF link = "eof" THEN 1 ELSE 0) <= faults

\* The request thread has a command only while it sends one, and at_handshake's
\* loop has tries left while it tries.
Trying ==
  /\ rq \in {"idle", "radio", "poll"} => cmd = "none"
  /\ rq = "sleep" => cmd = "ATE0"
  /\ cmd = "ATE0" /\ rq # "sleep" => tries < HANDSHAKE_RETRY_COUNT

\* The radio of a channel that is open, or on its way there.
Radio ==
  /\ ClosedRadio
  /\ link = "up" => /\ late > 0 => overtaken
                    /\ inits = 0 => sState # "UNAVAILABLE" \/ overtaken
  /\ rq = "radio" \/ cmd \in {"ATE0", "ATC"} => sState \in {"OFF", "UNAVAILABLE"}

\* What the items and lines of a stream say: commands whose answer the driver waits
\* for or has given up, answers of either kind, and news.
OwnTextIn(d) == \E i \in 1..Len(d) : d[i].k = "text" /\ d[i].mark = "own"
StrayTextIn(d) == \E i \in 1..Len(d) : d[i].k = "text" /\ d[i].mark = "stray"
OwnIn(L) == \E i \in 1..Len(L) : L[i].mark = "own"
StrayIn(L) == \E i \in 1..Len(L) : L[i].mark = "stray"
NewsIn(L) == \E i \in 1..Len(L) : L[i].mark = "news"
FinalIn(L) == \E i \in 1..Len(L) : L[i].mark = "own" /\ L[i].t \notin ClccTexts

\* A "\r" is not followed by another.
CRsApart(d) == \A i \in 1..(Len(d) - 1) : d[i].k = "cr" => d[i + 1].k = "text"
Alternating ==
  /\ CRsApart(down)
  /\ rq = "cr" /\ down # <<>> => down[Len(down)].k = "text"

\* News is RING or NO CARRIER, and nothing else is.
NewsMarked(L) ==
  \A i \in 1..Len(L) : L[i].mark = "news" <=> L[i].t \in {"RING", "NO_CARRIER"}
Marked ==
  /\ posted # "news" /\ s_wait_response # "news"
  /\ \A i \in 1..Len(down) : down[i].mark # "news"
  /\ NewsMarked(LinesIn)

\* Where the answer to the driver's command can be: still a command, a line, with
\* the state machine, or taken.
OwnText == OwnTextIn(down)
OwnLine == OwnIn(LinesIn)
Owed == posted = "own" \/ s_wait_response = "own"

\* The answer is left to the phone's next state, and not just its result unwritten.
LeftToPhone == s_wait_response = "own" \/ (posted = "own" /\ ~replying)

\* The final response is the last line of an answer.
FinalLast(L) ==
  \A i, j \in 1..Len(L) :
    i < j /\ L[i].mark = "own" /\ L[j].mark = "own" => L[i].t \in ClccTexts

\* There is one such answer at most, while a command is under way.
OneAnswer ==
  /\ ~Asking => ~OwnText /\ ~OwnLine /\ ~Owed
  /\ rq \notin {"wait", "woken"} => sp_response = NoResponse
  /\ OwnText => ~Owed /\ ~OwnLine /\ link = "up"
  /\ posted = "own" => s_wait_response # "own"
  /\ Owed => ~FinalIn(LinesIn) /\ link = "up"
  /\ LeftToPhone => cmd \in {"ATD", "CHLD"}
  /\ sp_response.by = "own" => ~OwnText /\ ~Owed /\ ~OwnLine
  /\ FinalLast(LinesIn)
  /\ \A i \in 1..Len(down) : down[i].k = "text" /\ down[i].mark = "own" => down[i].cmd = cmd

\* Nothing is owed to a command given up, unless the channel is spoiled.
NoStray ==
  ~spoiled =>
    /\ sp_response.by # "stray"
    /\ link = "up" =>
         posted # "stray" /\ s_wait_response # "stray" /\ ~StrayTextIn(down)
    /\ link = "up" \/ sp_response # NoResponse => ~StrayIn(LinesIn)

\* A command under way after which the framework looks at the calls again.
Calling ==
  rq \in {"lock", "text", "cr", "wait", "woken"} /\ cmd \notin {"ATE0", "ATC", "CLCC"}

\* The driver and the phone are ready, and nothing was lost on the way.
InService ==
  link = "up" /\ sState = "SIM_READY" /\ phone # "INIT" /\ ~dropped /\ ~spoiled

\* What is to tell the framework of a ring or an end it does not know of.
ToldOf ==
  InService =>
    \/ told
    \/ NewsIn(LinesIn)
    \/ inits > 0
    \/ sp_response.by = "news" \/ sp_response.final = "NO_CARRIER"
    \/ Calling

\* A response with a final line is somebody's.
Unfilled == sp_response.by = "none" => sp_response.final \in {"none", "null"}

DriverInv ==
  /\ TypeOK /\ Connected /\ Closing /\ Trying /\ Radio
  /\ Alternating /\ Marked /\ OneAnswer /\ NoStray
  /\ ToldOf /\ Unfilled
-----------------------------------------------------------------------------
(* The first part: types, connection, handshake and radio.                 *)

Base == TypeOK /\ Connected /\ Closing /\ Trying /\ Radio

\* The types of the driver's own variables.
DriverTypeOK ==
  /\ sState \in RadioStates
  /\ s_closed \in {0, 1}
  /\ mn \in {"connect", "sleep", "wait"}
  /\ inits \in Nat
  /\ repoll \in BOOLEAN
  /\ requests \in 0..MaxRequests
  /\ overtaken \in BOOLEAN

(* The type invariant is that of the four parts. *)
LEMMA TypeParts ==
  TypeOK <=> /\ WireTypeOK /\ ChannelTypeOK /\ DaemonTypeOK /\ DriverTypeOK
             /\ late \in 0..MaxFaults
BY DEF TypeOK, DriverTypeOK

(* Closed readers are no more than the faults there may be.                 *)
LEMMA LateBound ==
  ASSUME NEW a \in Nat, NEW f \in 0..MaxFaults, NEW e,
         a + (IF e = "eof" THEN 1 ELSE 0) <= f
  PROVE  a \in 0..MaxFaults
OBVIOUS

(* The state setRadioState leaves.                                          *)
LEMMA RadioType ==
  ASSUME DriverTypeOK, NEW s \in RadioStates, SetRadioState(s)
  PROVE  /\ sState' \in RadioStates /\ mn' \in {"connect", "sleep", "wait"}
         /\ s_closed = 1 => sState' = "UNAVAILABLE"
         /\ s_closed = 0 => sState' = s
BY DEF DriverTypeOK, SetRadioState, RadioFor, RadioStates

(* readline.                                                                *)
LEMMA ReadLinePrefix ==
  ASSUME TypeOK, ReadLine
  PROVE  /\ s_ATBuffer' \in Seq(Lines)
         /\ Len(s_ATBuffer') <= Len(up)
         /\ \A i \in 1..Len(s_ATBuffer') : s_ATBuffer'[i] = up[i]
         /\ dropped' \in BOOLEAN
         /\ ~dropped' => ~dropped /\ Len(s_ATBuffer') = Len(up)
<1> DEFINE n == IF \E i \in DOMAIN up : EndsInNul(up[i])
                THEN CHOOSE i \in DOMAIN up :
                       EndsInNul(up[i]) /\ \A j \in 1..(i - 1) : ~EndsInNul(up[j])
                ELSE Len(up)
<1>1. up \in Seq(Lines) /\ Len(up) \in Nat /\ DOMAIN up = 1..Len(up) /\ dropped \in BOOLEAN
  BY DEF TypeOK, WireTypeOK, ChannelTypeOK
<1>2. s_ATBuffer' = SubSeq(up, 1, n) /\ dropped' = (dropped \/ n < Len(up))
  BY DEF ReadLine
<1>3. n \in 0..Len(up)
  <2>1. CASE \E i \in DOMAIN up : EndsInNul(up[i])
    <3> DEFINE T == {i \in DOMAIN up : EndsInNul(up[i])}
    <3>1. T \in SUBSET Nat /\ T # {}
      BY <1>1, <2>1
    <3>2. PICK m \in T : \A y \in T : m <= y
      BY <3>1, LeastNat
    <3>3. \A j \in 1..(m - 1) : ~EndsInNul(up[j])
      BY <1>1, <3>2
    <3>4. n \in DOMAIN up
      BY <2>1, <3>2, <3>3
    <3> QED
      BY <1>1, <3>4
  <2>2. CASE ~ \E i \in DOMAIN up : EndsInNul(up[i])
    BY <1>1, <2>2
  <2> QED
    BY <2>1, <2>2
<1> HIDE DEF n
<1>4. /\ SubSeq(up, 1, n) \in Seq(Lines)
      /\ Len(SubSeq(up, 1, n)) = n
      /\ \A i \in 1..n : SubSeq(up, 1, n)[i] = up[i]
  BY <1>1, <1>3
<1>5. ~dropped' => ~dropped /\ n = Len(up)
  <2>0. n \in Nat /\ Len(up) \in Nat /\ n <= Len(up)
    BY <1>1, <1>3
  <2>1. n < Len(up) \/ n = Len(up)
    BY <2>0
  <2> QED
    BY <1>2, <2>1, Zenon
<1>6. dropped' \in BOOLEAN
  BY <1>2
<1>7. s_ATBuffer' = SubSeq(up, 1, n)
  BY <1>2
<1>8. Len(s_ATBuffer') = n /\ s_ATBuffer' \in Seq(Lines) /\ \A i \in 1..n : s_ATBuffer'[i] = up[i]
  BY <1>4, <1>7
<1>9. n <= Len(up)
  BY <1>1, <1>3
<1> QED
  BY <1>5, <1>6, <1>8, <1>9, Zenon

(* processLine.                                                             *)
LEMMA ProcessLineType ==
  ASSUME TypeOK, ProcessLine
  PROVE  /\ ChannelTypeOK'
         /\ rq' = rq \/ (rq = "wait" /\ rq' = "woken")
         /\ Head(s_ATBuffer) \in Lines
<1> DEFINE l == Head(s_ATBuffer)
           R == [final : LineTexts \cup {"null", "none"},
                 by : Marks \cup {"none"}, calls : Seq(LineTexts)]
<1>1. l \in Lines /\ l.t \in LineTexts /\ l.mark \in Marks /\ s_ATBuffer' \in Seq(Lines)
  <2>1. s_ATBuffer \in Seq(Lines) /\ s_ATBuffer # <<>> /\ s_ATBuffer' = Tail(s_ATBuffer)
    BY DEF TypeOK, ChannelTypeOK, ProcessLine
  <2>2. l \in Lines /\ s_ATBuffer' \in Seq(Lines)
    BY <2>1
  <2> QED
    BY <2>2 DEF Lines
<1>2. sp_response \in R
  BY DEF TypeOK, ChannelTypeOK
<1>3. AddIntermediate(l) \in R
  <2>1. sp_response.calls \in Seq(LineTexts)
    BY <1>2
  <2>2. Append(sp_response.calls, l.t) \in Seq(LineTexts)
    BY <1>1, <2>1
  <2> HIDE DEF l
  <2> QED
    BY <1>2, <2>2 DEF AddIntermediate
<1>4. [sp_response EXCEPT !.final = l.t, !.by = IF @ = "none" THEN l.mark ELSE @] \in R
  BY <1>1, <1>2
<1>5. \/ sp_response' = sp_response
      \/ sp_response' = [sp_response EXCEPT !.final = l.t, !.by = IF @ = "none" THEN l.mark ELSE @]
      \/ sp_response' = AddIntermediate(l)
  BY Zenon DEF ProcessLine
<1>6. sp_response' \in R
  BY <1>2, <1>3, <1>4, <1>5
<1>7. rq' = rq \/ (rq = "wait" /\ rq' = "woken")
  BY DEF ProcessLine, Signal
<1>8. UNCHANGED <<cmd, tries, s_fd, s_readerClosed, rd, faults, dropped, spoiled>>
  BY DEF ProcessLine
<1> QED
  BY <1>1, <1>6, <1>7, <1>8 DEF TypeOK, ChannelTypeOK

(* The first layer, part by part. *)
LEMMA BaseParts ==
  ASSUME WireTypeOK', ChannelTypeOK', DaemonTypeOK', DriverTypeOK', late' \in Nat,
         Connected', Closing', Trying', Radio'
  PROVE  Base'
<1>1. late' \in 0..MaxFaults
  <2>1. faults' \in 0..MaxFaults
    BY DEF ChannelTypeOK
  <2>2. late' + (IF link' = "eof" THEN 1 ELSE 0) <= faults'
    BY DEF Closing
  <2> QED
    BY <2>1, <2>2, LateBound
<1> QED
  BY <1>1 DEF Base, TypeOK, DriverTypeOK

(* What Base says of the variables, for use with no definition expanded.    *)
LEMMA BaseTypes ==
  ASSUME Base
  PROVE  /\ TypeOK /\ WireTypeOK /\ ChannelTypeOK /\ DaemonTypeOK /\ DriverTypeOK
         /\ late \in Nat /\ Connected /\ Closing /\ Trying /\ Radio
BY TypeParts DEF Base

(* What leaves the daemon's variables alone keeps their types. *)
LEMMA SameDaemonType ==
  ASSUME DaemonTypeOK, UNCHANGED daemon
  PROVE  DaemonTypeOK'
BY DEF DaemonTypeOK, daemon, socket, machine

(* The same for the driver's. *)
LEMMA SameDriverType ==
  ASSUME DriverTypeOK, UNCHANGED driver
  PROVE  DriverTypeOK' /\ late' = late
BY DEF DriverTypeOK, driver

(* The same for the AT channel's. *)
LEMMA SameChannelType ==
  ASSUME ChannelTypeOK, UNCHANGED channel
  PROVE  ChannelTypeOK'
BY DEF ChannelTypeOK, channel

(* The same for the socket's. *)
LEMMA SameWireType ==
  ASSUME WireTypeOK, UNCHANGED wire
  PROVE  WireTypeOK'
BY DEF WireTypeOK, wire

-----------------------------------------------------------------------------
(* The reader thread and mainLoop.                                         *)

(* readline: a read() of what the daemon has sent keeps the first layer (types,
   connection, handshake, radio). *)
LEMMA ReaderReadsBase ==
  ASSUME Base, ReaderReads
  PROVE  Base'
<1>0. TypeOK /\ WireTypeOK /\ ChannelTypeOK /\ DaemonTypeOK /\ DriverTypeOK
      /\ late \in Nat /\ Connected /\ Closing /\ Trying /\ Radio
  BY BaseTypes
<1>1. ReadLine /\ UNCHANGED daemon /\ UNCHANGED driver
  BY DEF ReaderReads
<1>2. DaemonTypeOK' /\ DriverTypeOK' /\ late' = late
  BY <1>0, <1>1, SameDaemonType, SameDriverType
<1>3. s_ATBuffer' \in Seq(Lines) /\ dropped' \in BOOLEAN
  BY <1>0, <1>1, ReadLinePrefix
<1>4. /\ up' = <<>> /\ rd = "read"
      /\ UNCHANGED <<link, down, rq, cmd, tries, s_fd, s_readerClosed, sp_response, rd, faults,
                     spoiled>>
  BY <1>1 DEF ReadLine
<1>5. UNCHANGED <<posted, replying, s_closed, sState, late, inits, overtaken>>
  BY <1>1 DEF daemon, socket, driver
<1>6. WireTypeOK' /\ ChannelTypeOK'
  BY <1>0, <1>3, <1>4 DEF WireTypeOK, ChannelTypeOK
<1>7. Connected'
  BY <1>0, <1>4, <1>5 DEF Connected
<1>8. Closing' /\ Trying'
  BY <1>0, <1>4, <1>5 DEF Closing, Trying
<1>9. Radio'
  BY <1>0, <1>4, <1>5 DEF Radio, ClosedRadio
<1> QED
  BY <1>0, <1>2, <1>6, <1>7, <1>8, <1>9, BaseParts

(* processLine on one line keeps the first layer (types, connection, handshake, radio). *)
LEMMA ReaderLineBase ==
  ASSUME Base, ReaderLine
  PROVE  Base'
<1>0. TypeOK /\ WireTypeOK /\ ChannelTypeOK /\ DaemonTypeOK /\ DriverTypeOK
      /\ late \in Nat /\ Connected /\ Closing /\ Trying /\ Radio
  BY BaseTypes
<1>1. ProcessLine /\ UNCHANGED <<socket, machine>> /\ UNCHANGED driver
  BY DEF ReaderLine
<1>2. DriverTypeOK' /\ late' = late
  BY <1>0, <1>1, SameDriverType
<1>3. told' \in BOOLEAN
  BY <1>0 DEF ReaderLine, OnUnsolicited, DaemonTypeOK
<1>4. DaemonTypeOK'
  BY <1>0, <1>1, <1>3 DEF DaemonTypeOK, socket, machine
<1>5. ChannelTypeOK' /\ (rq' = rq \/ (rq = "wait" /\ rq' = "woken"))
  BY <1>0, <1>1, ProcessLineType
<1>6. /\ UNCHANGED wire /\ rd = "read"
      /\ UNCHANGED <<cmd, tries, s_fd, s_readerClosed, rd, faults, spoiled>>
  BY <1>1 DEF ProcessLine
<1>7. UNCHANGED <<posted, replying, s_closed, sState, late, inits, overtaken>>
  BY <1>1 DEF socket, driver
<1>8. WireTypeOK'
  BY <1>0, <1>6, SameWireType
<1>9. Connected'
  BY <1>0, <1>6, <1>7 DEF Connected, wire
<1>10. Closing' /\ Trying'
  BY <1>0, <1>5, <1>6, <1>7 DEF Closing, Trying, wire
<1>11. Radio'
  BY <1>0, <1>5, <1>6, <1>7 DEF Radio, ClosedRadio, wire
<1> QED
  BY <1>0, <1>2, <1>4, <1>5, <1>8, <1>9, <1>10, <1>11, BaseParts

(* The end of readerLoop keeps the first layer (types, connection, handshake, radio). *)
LEMMA ReaderEndBase ==
  ASSUME Base, ReaderEnd
  PROVE  Base'
<1>0. WireTypeOK /\ ChannelTypeOK /\ DaemonTypeOK /\ DriverTypeOK
      /\ late \in Nat /\ Connected /\ Closing /\ Trying /\ Radio
  BY BaseTypes
<1>1. OnReaderClosed /\ UNCHANGED daemon /\ UNCHANGED driver /\ UNCHANGED wire
  BY DEF ReaderEnd, OnReaderClosed
<1>2. DaemonTypeOK' /\ DriverTypeOK' /\ late' = late /\ WireTypeOK'
  BY <1>0, <1>1, SameDaemonType, SameDriverType, SameWireType
<1>3. /\ s_ATBuffer = <<>> /\ link = "eof" /\ s_readerClosed' = 1 /\ rd' = "closed"
      /\ rq' = (IF rq = "wait" THEN "woken" ELSE rq)
      /\ UNCHANGED <<link, down, up, cmd, tries, s_fd, sp_response, s_ATBuffer, faults, dropped,
                     spoiled>>
  BY <1>1 DEF OnReaderClosed, Signal, wire
<1>5. UNCHANGED <<posted, replying, s_closed, sState, late, inits, overtaken>>
  BY <1>1 DEF daemon, socket, driver
<1>6. ChannelTypeOK'
  BY <1>0, <1>3 DEF ChannelTypeOK
<1>7. Connected'
  BY <1>0, <1>3, <1>5 DEF Connected
<1>8. Closing' /\ Trying'
  BY <1>0, <1>3, <1>5 DEF Closing, Trying
<1>9. Radio'
  BY <1>0, <1>3, <1>5 DEF Radio, ClosedRadio
<1> QED
  BY <1>0, <1>2, <1>6, <1>7, <1>8, <1>9, BaseParts

(* onATReaderClosed, with at_close, keeps the first layer (types, connection, handshake,
   radio). *)
LEMMA OnATReaderClosedBase ==
  ASSUME Base, OnATReaderClosed
  PROVE  Base'
<1>0. WireTypeOK /\ ChannelTypeOK /\ DaemonTypeOK /\ DriverTypeOK
      /\ late \in Nat /\ Connected /\ Closing /\ Trying /\ Radio
  BY BaseTypes
<1>1. /\ rd = "closed" /\ s_fd' = "none" /\ s_readerClosed' = 1 /\ rd' = "none"
      /\ link' = "down" /\ down' = <<>> /\ up' = <<>>
      /\ rq' = (IF rq = "wait" THEN "woken" ELSE rq)
      /\ UNCHANGED <<cmd, tries, sp_response, s_ATBuffer, faults, dropped, spoiled>>
      /\ s_closed' = 1 /\ late' = late + 1
      /\ UNCHANGED <<sState, mn, inits, repoll, requests, overtaken, daemon>>
  BY DEF OnATReaderClosed, AtClose, Signal
<1>2. UNCHANGED posted
  BY <1>1 DEF daemon, socket
<1>3. DaemonTypeOK'
  BY <1>0, <1>1, SameDaemonType
<1>4. WireTypeOK' /\ ChannelTypeOK'
  BY <1>0, <1>1 DEF WireTypeOK, ChannelTypeOK
<1>5. DriverTypeOK' /\ late' \in Nat
  BY <1>0, <1>1 DEF DriverTypeOK
<1>6. link = "eof" /\ s_ATBuffer = <<>>
  BY <1>0, <1>1 DEF Connected
<1>7. Connected'
  BY <1>0, <1>1, <1>2, <1>6 DEF Connected
<1>8. Closing'
  BY <1>0, <1>1, <1>6 DEF Closing
<1>10. Trying'
  BY <1>0, <1>1 DEF Trying
<1>9. Radio'
  BY <1>0, <1>1 DEF Radio, ClosedRadio
<1> QED
  BY <1>3, <1>4, <1>5, <1>7, <1>8, <1>9, <1>10, BaseParts

(* The setRadioState of the reader that ends keeps the first layer (types, connection,
   handshake, radio). *)
LEMMA ReaderRadioBase ==
  ASSUME Base, ReaderRadio
  PROVE  Base'
<1>0. WireTypeOK /\ ChannelTypeOK /\ DaemonTypeOK /\ DriverTypeOK
      /\ late \in Nat /\ Connected /\ Closing /\ Trying /\ Radio
  BY BaseTypes
<1>1. /\ late > 0 /\ late' = late - 1 /\ SetRadioState("UNAVAILABLE")
      /\ UNCHANGED wire /\ UNCHANGED channel /\ UNCHANGED daemon
      /\ UNCHANGED <<s_closed, inits, repoll, requests, overtaken>>
  BY DEF ReaderRadio
<1>2. WireTypeOK' /\ ChannelTypeOK' /\ DaemonTypeOK'
  BY <1>0, <1>1, SameDaemonType, SameWireType, SameChannelType
<1>3. sState' = "UNAVAILABLE" /\ mn' \in {"connect", "sleep", "wait"}
  BY <1>0, <1>1 DEF SetRadioState, RadioFor, DriverTypeOK
<1>4. DriverTypeOK' /\ late' \in Nat
  BY <1>0, <1>1, <1>3 DEF DriverTypeOK, RadioStates
<1>5. UNCHANGED <<link, down, up, rq, cmd, tries, s_fd, s_readerClosed, rd, s_ATBuffer, faults, posted, replying>>
  BY <1>1 DEF wire, channel, daemon, socket
<1>6. Connected'
  BY <1>0, <1>1, <1>5 DEF Connected
<1>7. Closing' /\ Trying'
  BY <1>0, <1>1, <1>5 DEF Closing, Trying, ChannelTypeOK
<1>8. link = "up" => overtaken
  BY <1>0, <1>1 DEF Radio
<1>9. Radio'
  BY <1>1, <1>3, <1>5, <1>8 DEF Radio, ClosedRadio
<1> QED
  BY <1>2, <1>4, <1>6, <1>7, <1>9, BaseParts

(* A connection made by mainLoop, with at_open, keeps the first layer (types,
   connection, handshake, radio). *)
LEMMA MainConnectBase ==
  ASSUME Base, MainConnect
  PROVE  Base'
<1>0. WireTypeOK /\ ChannelTypeOK /\ DaemonTypeOK /\ DriverTypeOK
      /\ late \in Nat /\ Connected /\ Closing /\ Trying /\ Radio
  BY BaseTypes
<1>1. /\ link = "down" /\ link' = "up" /\ down' = <<>> /\ up' = <<>>
      /\ s_fd' = "open" /\ s_readerClosed' = 0 /\ sp_response' = NoResponse /\ rd' = "read"
      /\ dropped' = FALSE /\ spoiled' = (s_wait_response # "no")
      /\ UNCHANGED <<rq, cmd, tries, s_ATBuffer, faults>>
      /\ s_closed' = 0 /\ inits' = inits + 1 /\ mn' = "sleep" /\ overtaken' = (late > 0)
      /\ UNCHANGED <<sState, late, repoll, requests, told>>
      /\ listening' = FALSE
      /\ UNCHANGED <<posted, replying, s_wait_response, phone, smq, hook, events>>
  BY DEF MainConnect, AtOpen, Accept, machine
<1>2. DaemonTypeOK'
  BY <1>0, <1>1 DEF DaemonTypeOK
<1>3. WireTypeOK'
  BY <1>0, <1>1 DEF WireTypeOK
<1>4. ChannelTypeOK'
  <2>1. NoResponse \in [final : LineTexts \cup {"null", "none"},
                        by : Marks \cup {"none"}, calls : Seq(LineTexts)]
    BY DEF NoResponse
  <2> QED
    BY <1>0, <1>1, <2>1 DEF ChannelTypeOK
<1>5. DriverTypeOK' /\ late' \in Nat
  BY <1>0, <1>1 DEF DriverTypeOK
<1>7. Connected'
  BY <1>0, <1>1 DEF Connected
<1>8. Closing'
  BY <1>0, <1>1 DEF Closing
<1>9. Trying'
  BY <1>0, <1>1 DEF Trying
<1>10. Radio'
  <2>1. overtaken' = (late > 0) /\ late' = late
    BY <1>1
  <2>2. late' > 0 => overtaken'
    BY <2>1, Zenon
  <2>3. inits' # 0
    BY <1>0, <1>1 DEF DriverTypeOK
  <2>4. s_closed' # 1 /\ UNCHANGED <<rq, cmd, sState>>
    BY <1>1
  <2> QED
    BY <1>0, <2>2, <2>3, <2>4 DEF Radio, ClosedRadio
<1> QED
  BY <1>2, <1>3, <1>4, <1>5, <1>7, <1>8, <1>9, <1>10, BaseParts

(* The pause of mainLoop keeps the first layer (types, connection, handshake, radio). *)
LEMMA MainSleepsBase ==
  ASSUME Base, MainSleeps
  PROVE  Base'
<1>0. WireTypeOK /\ ChannelTypeOK /\ DaemonTypeOK /\ DriverTypeOK
      /\ late \in Nat /\ Connected /\ Closing /\ Trying /\ Radio
  BY BaseTypes
<1>1. /\ UNCHANGED wire /\ UNCHANGED channel /\ UNCHANGED daemon
      /\ UNCHANGED <<sState, s_closed, late, inits, repoll, requests, overtaken>>
      /\ mn' \in {"connect", "wait"}
  BY DEF MainSleeps
<1>2. WireTypeOK' /\ ChannelTypeOK' /\ DaemonTypeOK'
  BY <1>0, <1>1, SameDaemonType, SameWireType, SameChannelType
<1>3. DriverTypeOK' /\ late' \in Nat
  BY <1>0, <1>1 DEF DriverTypeOK
<1>4. UNCHANGED <<link, down, up, rq, cmd, tries, s_fd, s_readerClosed, rd, s_ATBuffer, faults, posted, replying>>
  BY <1>1 DEF wire, channel, daemon, socket
<1>5. Connected' /\ Closing' /\ Trying'
  BY <1>0, <1>1, <1>4 DEF Connected, Closing, Trying
<1>6. Radio'
  BY <1>0, <1>1, <1>4 DEF Radio, ClosedRadio
<1> QED
  BY <1>2, <1>3, <1>5, <1>6, BaseParts
-----------------------------------------------------------------------------
(* The request thread.                                                     *)

(* The end of a command, whoever waits for it.                              *)
LEMMA CompletesType ==
  ASSUME TypeOK, Trying, NEW failed \in BOOLEAN, Completes(failed),
         rq \in {"lock", "text", "cr", "wait", "woken"}
  PROVE  /\ rq' \in {"lock", "text", "sleep", "idle", "radio"}
         /\ cmd' \in Commands \cup {"none"}
         /\ tries' \in 0..HANDSHAKE_RETRY_COUNT
         /\ told' \in BOOLEAN /\ repoll' \in BOOLEAN
         /\ Trying'
         /\ cmd' \in {"ATE0", "ATC"} => cmd = "ATE0"
         /\ rq' = "radio" => cmd = "ATC"
<1>0. /\ cmd \in Commands \cup {"none"} /\ tries \in Nat /\ HANDSHAKE_RETRY_COUNT \in Nat
      /\ told \in BOOLEAN /\ repoll \in BOOLEAN
  BY DEF TypeOK, ChannelTypeOK, DaemonTypeOK
<1>1. CASE cmd = "ATE0"
  <2>1. HandshakeTry(failed) /\ UNCHANGED <<told, repoll>>
    BY <1>1 DEF Completes
  <2>2. tries < HANDSHAKE_RETRY_COUNT /\ tries' = tries + 1
    BY <1>1, <2>1 DEF Trying, HandshakeTry
  <2>3. CASE ~failed
    <3>1. rq' = "sleep" /\ cmd' = cmd
      BY <2>1, <2>3 DEF HandshakeTry
    <3> QED
      BY <1>0, <1>1, <2>1, <2>2, <3>1 DEF Trying
  <2>4. CASE failed /\ tries + 1 < HANDSHAKE_RETRY_COUNT
    <3>1. rq' = "text"
      BY <2>1, <2>4 DEF HandshakeTry
    <3>2. cmd' = cmd
      BY <1>0, <2>1, <2>4 DEF HandshakeTry
    <3> QED
      BY <1>0, <1>1, <2>1, <2>2, <2>4, <3>1, <3>2 DEF Trying
  <2>5. CASE failed /\ ~(tries + 1 < HANDSHAKE_RETRY_COUNT)
    <3>1. rq' = "lock"
      BY <2>1, <2>5 DEF HandshakeTry
    <3>2. cmd' = "ATC"
      BY <1>0, <2>1, <2>5 DEF HandshakeTry
    <3> QED
      BY <1>0, <1>1, <2>1, <2>2, <3>1, <3>2 DEF Trying, Commands
  <2> QED
    BY <2>3, <2>4, <2>5
<1>2. CASE cmd # "ATE0"
  <2>1. /\ rq' = (IF cmd = "ATC" THEN "radio" ELSE "idle") /\ cmd' = "none" /\ tries' = 0
    BY <1>2 DEF Completes
  <2>2. told' \in BOOLEAN /\ repoll' \in BOOLEAN
    BY <1>2 DEF Completes
  <2> QED
    BY <1>0, <2>1, <2>2 DEF Trying
<1> QED
  BY <1>1, <1>2

(* clearPendingCommand.                                                     *)
LEMMA ClearType ==
  ASSUME TypeOK, NEW g \in BOOLEAN, ClearPending(g)
  PROVE  /\ down' \in Seq(Items) /\ up' \in Seq(Lines) /\ s_ATBuffer' \in Seq(Lines)
         /\ sp_response' \in [final : LineTexts \cup {"null", "none"},
                              by : Marks \cup {"none"}, calls : Seq(LineTexts)]
         /\ spoiled' \in BOOLEAN
         /\ down = <<>> => down' = <<>>
         /\ up = <<>> => up' = <<>>
         /\ s_ATBuffer = <<>> => s_ATBuffer' = <<>>
<1>1. /\ sp_response' = NoResponse /\ down' = StrayAll(down) /\ up' = StrayAll(up)
      /\ s_ATBuffer' = StrayAll(s_ATBuffer)
  BY DEF ClearPending
<1>2. down \in Seq(Items) /\ up \in Seq(Lines) /\ s_ATBuffer \in Seq(Lines)
  BY DEF TypeOK, WireTypeOK, ChannelTypeOK
<1>3. down' \in Seq(Items) /\ up' \in Seq(Lines) /\ s_ATBuffer' \in Seq(Lines)
      /\ Len(down') = Len(down) /\ Len(up') = Len(up) /\ Len(s_ATBuffer') = Len(s_ATBuffer)
  BY <1>1, <1>2, StrayItems, StrayLines
<1>4. /\ down = <<>> => down' = <<>>
      /\ up = <<>> => up' = <<>>
      /\ s_ATBuffer = <<>> => s_ATBuffer' = <<>>
  BY <1>2, <1>3
<1>5. NoResponse \in [final : LineTexts \cup {"null", "none"},
                      by : Marks \cup {"none"}, calls : Seq(LineTexts)]
  BY DEF NoResponse
<1>6. spoiled' \in BOOLEAN
  BY DEF ClearPending
<1> QED
  BY <1>1, <1>3, <1>4, <1>5, <1>6

\* What the three ends of a command have in common.
CommandEnds(failed, g) ==
  /\ rq \in {"lock", "text", "cr", "wait", "woken"}
  /\ ClearPending(g)
  /\ Completes(failed)
  /\ UNCHANGED <<link, s_fd, s_readerClosed, rd, dropped, listening, replying, machine, sState,
                 s_closed, mn, late, inits, requests, overtaken>>
  /\ \/ UNCHANGED <<posted, s_wait_response>>
     \/ DaemonStray

(* The end of at_send_command, however it comes about, keeps the first layer (types,
   connection, handshake, radio). *)
LEMMA CommandEndsBase ==
  ASSUME Base, NEW failed \in BOOLEAN, NEW g \in BOOLEAN, CommandEnds(failed, g),
         faults' \in 0..MaxFaults, faults' >= faults
  PROVE  Base'
<1>0. TypeOK /\ WireTypeOK /\ ChannelTypeOK /\ DaemonTypeOK /\ DriverTypeOK
      /\ late \in Nat /\ Connected /\ Closing /\ Trying /\ Radio
  BY BaseTypes
<1>1. /\ rq' \in {"lock", "text", "sleep", "idle", "radio"}
      /\ cmd' \in Commands \cup {"none"}
      /\ tries' \in 0..HANDSHAKE_RETRY_COUNT
      /\ told' \in BOOLEAN /\ repoll' \in BOOLEAN
      /\ Trying'
      /\ cmd' \in {"ATE0", "ATC"} => cmd = "ATE0"
      /\ rq' = "radio" => cmd = "ATC"
  BY <1>0, CompletesType DEF CommandEnds
<1>2. /\ down' \in Seq(Items) /\ up' \in Seq(Lines) /\ s_ATBuffer' \in Seq(Lines)
      /\ sp_response' \in [final : LineTexts \cup {"null", "none"},
                           by : Marks \cup {"none"}, calls : Seq(LineTexts)]
      /\ spoiled' \in BOOLEAN
      /\ down = <<>> => down' = <<>>
      /\ up = <<>> => up' = <<>>
      /\ s_ATBuffer = <<>> => s_ATBuffer' = <<>>
  BY <1>0, ClearType DEF CommandEnds
<1>3. UNCHANGED <<link, s_fd, s_readerClosed, rd, dropped, listening, replying, phone, smq, hook,
                  events, sState, s_closed, mn, late, inits, requests, overtaken>>
  BY DEF CommandEnds, machine
<1>4. /\ posted' \in Marks \cup {"no"} /\ s_wait_response' \in Marks \cup {"no"}
      /\ posted = "no" => posted' = "no"
  <2>1. CASE UNCHANGED <<posted, s_wait_response>>
    BY <1>0, <2>1 DEF DaemonTypeOK
  <2>2. CASE DaemonStray
    BY <1>0, <2>2 DEF DaemonTypeOK, DaemonStray, Stray, Marks
  <2> QED
    BY <2>1, <2>2 DEF CommandEnds
<1>5. WireTypeOK'
  BY <1>0, <1>2, <1>3 DEF WireTypeOK
<1>6. ChannelTypeOK'
  BY <1>0, <1>1, <1>2, <1>3 DEF ChannelTypeOK
<1>7. DaemonTypeOK'
  BY <1>0, <1>1, <1>3, <1>4 DEF DaemonTypeOK
<1>8. DriverTypeOK' /\ late' \in Nat
  BY <1>0, <1>1, <1>3 DEF DriverTypeOK
<1>9. Connected'
  BY <1>0, <1>2, <1>3, <1>4 DEF Connected
<1>10. Closing'
  <2>1. faults \in Nat /\ faults' \in Nat
    BY <1>0 DEF ChannelTypeOK
  <2> QED
    BY <1>0, <1>3, <2>1 DEF Closing
<1>11. Radio'
  BY <1>0, <1>1, <1>3 DEF Radio, ClosedRadio
<1> QED
  BY <1>1, <1>5, <1>6, <1>7, <1>8, <1>9, <1>10, <1>11, BaseParts

(* The three ends: the command cannot be written, is answered, times out.   *)
LEMMA CommandEnd ==
  ASSUME TypeOK
  PROVE  /\ SendFails => CommandEnds(TRUE, FALSE) /\ UNCHANGED <<posted, s_wait_response, faults>>
         /\ SendReturns => CommandEnds(s_readerClosed = 1, sp_response.by # "own")
                           /\ UNCHANGED faults
         /\ SendTimesOut => CommandEnds(TRUE, TRUE) /\ faults' = faults + 1 /\ faults < MaxFaults
<1>1. ASSUME SendFails PROVE CommandEnds(TRUE, FALSE) /\ UNCHANGED <<posted, s_wait_response, faults>>
  <2>1. rq \in {"lock", "text", "cr"}
    BY <1>1 DEF SendFails, WriteFails
  <2> QED
    BY <1>1, <2>1 DEF SendFails, CommandEnds, socket
<1>2. ASSUME SendReturns
      PROVE  CommandEnds(s_readerClosed = 1, sp_response.by # "own") /\ UNCHANGED faults
  <2>1. rq = "woken"
    BY <1>2 DEF SendReturns, Answered
  <2> QED
    BY <1>2, <2>1 DEF SendReturns, CommandEnds
<1>3. ASSUME SendTimesOut
      PROVE  CommandEnds(TRUE, TRUE) /\ faults' = faults + 1 /\ faults < MaxFaults
  <2>1. rq \in {"wait", "woken"} /\ faults' = faults + 1 /\ faults < MaxFaults
    BY <1>3 DEF SendTimesOut, TimesOut
  <2> QED
    BY <1>3, <2>1 DEF SendTimesOut, CommandEnds
<1> QED
  BY <1>1, <1>2, <1>3

(* A command that fails, returns or times out keeps the first layer (types, connection,
   handshake, radio). *)
LEMMA SendEndsBase ==
  ASSUME Base, SendFails \/ SendReturns \/ SendTimesOut
  PROVE  Base'
<1>0. TypeOK /\ faults \in 0..MaxFaults
  BY BaseTypes DEF ChannelTypeOK
<1>1. CASE SendFails
  <2>1. CommandEnds(TRUE, FALSE) /\ faults' = faults
    BY <1>0, <1>1, CommandEnd
  <2>2. faults' \in 0..MaxFaults /\ faults' >= faults
    BY <1>0, <2>1
  <2> QED
    BY <2>1, <2>2, CommandEndsBase
<1>2. CASE SendReturns
  <2> DEFINE f == s_readerClosed = 1
             g == sp_response.by # "own"
  <2>1. f \in BOOLEAN /\ g \in BOOLEAN
    OBVIOUS
  <2>2. CommandEnds(f, g) /\ faults' = faults
    BY <1>0, <1>2, CommandEnd
  <2>3. faults' \in 0..MaxFaults /\ faults' >= faults
    BY <1>0, <2>2
  <2> HIDE DEF f, g
  <2> QED
    BY <2>1, <2>2, <2>3, CommandEndsBase
<1>3. CASE SendTimesOut
  <2>1. CommandEnds(TRUE, TRUE) /\ faults' = faults + 1 /\ faults < MaxFaults
    BY <1>0, <1>3, CommandEnd
  <2>2. faults' \in 0..MaxFaults /\ faults' >= faults
    BY <1>0, <2>1
  <2> QED
    BY <2>1, <2>2, CommandEndsBase
<1> QED
  BY <1>1, <1>2, <1>3

\* Steps of the request thread that leave the wire and the response alone.
RequestStep ==
  /\ UNCHANGED wire
  /\ UNCHANGED <<s_fd, s_readerClosed, sp_response, rd, s_ATBuffer, faults, dropped, spoiled>>
  /\ UNCHANGED <<socket, machine, s_closed, late, overtaken>>

(* A step of the request thread that sends nothing keeps the first layer (types,
   connection, handshake, radio). *)
LEMMA RequestStepBase ==
  ASSUME Base, RequestStep,
         rq' \in {"idle", "lock", "radio", "poll"}, cmd' \in Commands \cup {"none"},
         tries' \in 0..HANDSHAKE_RETRY_COUNT, told' \in BOOLEAN,
         sState' \in RadioStates, mn' \in {"connect", "sleep", "wait"},
         inits' \in Nat, repoll' \in BOOLEAN, requests' \in 0..MaxRequests,
         Trying', s_closed = 1 /\ sState' # sState => sState' = "UNAVAILABLE",
         s_closed = 0 /\ sState' = "UNAVAILABLE" => sState = "UNAVAILABLE",
         inits' = 0 /\ inits # 0 => s_closed = 1 \/ sState' # "UNAVAILABLE",
         rq' = "radio" \/ cmd' \in {"ATE0", "ATC"} => sState' \in {"OFF", "UNAVAILABLE"}
  PROVE  Base'
<1>0. WireTypeOK /\ ChannelTypeOK /\ DaemonTypeOK /\ DriverTypeOK
      /\ late \in Nat /\ Connected /\ Closing /\ Trying /\ Radio
  BY BaseTypes
<1>1. /\ UNCHANGED <<s_fd, s_readerClosed, sp_response, rd, s_ATBuffer, faults, dropped, spoiled>>
      /\ UNCHANGED <<link, down, up, posted, replying, s_closed, late, overtaken>>
  BY DEF RequestStep, wire, socket
<1>2. WireTypeOK'
  BY <1>0, SameWireType DEF RequestStep
<1>3. ChannelTypeOK'
  BY <1>0, <1>1 DEF ChannelTypeOK
<1>4. DaemonTypeOK'
  BY <1>0 DEF DaemonTypeOK, RequestStep, socket, machine
<1>5. DriverTypeOK' /\ late' \in Nat
  BY <1>0, <1>1 DEF DriverTypeOK
<1>6. Connected' /\ Closing'
  BY <1>0, <1>1 DEF Connected, Closing
<1>7. Radio'
  <2>1. ClosedRadio'
    BY <1>0, <1>1 DEF Radio, ClosedRadio
  <2>2. link = "up" => s_closed = 0
    BY <1>0 DEF Connected
  <2>3. link = "up" => /\ late > 0 => overtaken
                       /\ inits' = 0 => sState' # "UNAVAILABLE" \/ overtaken
    BY <1>0, <2>2 DEF Radio
  <2> QED
    BY <1>1, <2>1, <2>3 DEF Radio
<1> QED
  BY <1>2, <1>3, <1>4, <1>5, <1>6, <1>7, BaseParts

(* initializeCallback keeps the first layer (types, connection, handshake, radio). *)
LEMMA InitializeCallbackBase ==
  ASSUME Base, InitializeCallback
  PROVE  Base'
<1>0. TypeOK /\ ChannelTypeOK /\ DaemonTypeOK /\ DriverTypeOK
  BY BaseTypes
<1>1. SetRadioState("OFF") /\ "OFF" \in RadioStates
  BY DEF InitializeCallback, RadioStates
<1>2. /\ sState' \in RadioStates /\ mn' \in {"connect", "sleep", "wait"}
      /\ s_closed = 1 => sState' = "UNAVAILABLE"
      /\ s_closed = 0 => sState' = "OFF"
  BY <1>0, <1>1, RadioType
<1>3. /\ RequestStep /\ rq' = "lock" /\ cmd' = "ATE0" /\ tries' = 0 /\ inits > 0
      /\ inits' = inits - 1 /\ UNCHANGED <<told, repoll, requests>>
  BY DEF InitializeCallback, RequestStep, AtSend, daemon
<1>4. Trying'
  BY <1>3 DEF Trying
<1>5. s_closed \in {0, 1} /\ inits' \in Nat
  BY <1>0, <1>3 DEF DriverTypeOK
<1>6. UNCHANGED <<told, repoll, requests>> /\ told \in BOOLEAN /\ repoll \in BOOLEAN
      /\ requests \in 0..MaxRequests
  BY <1>0, <1>3 DEF DriverTypeOK, DaemonTypeOK
<1>7. cmd' \in Commands /\ tries' \in 0..HANDSHAKE_RETRY_COUNT
  BY <1>3 DEF Commands
<1> QED
  BY <1>2, <1>3, <1>4, <1>5, <1>6, <1>7, RequestStepBase

(* sendCallStateChanged keeps the first layer (types, connection, handshake, radio). *)
LEMMA SendCallStateChangedBase ==
  ASSUME Base, SendCallStateChanged
  PROVE  Base'
<1>0. TypeOK /\ ChannelTypeOK /\ DaemonTypeOK /\ DriverTypeOK /\ Trying /\ Radio
  BY BaseTypes
<1>1. /\ RequestStep /\ rq = "idle" /\ told' = TRUE /\ repoll' = FALSE
      /\ UNCHANGED <<rq, cmd, tries, sState, mn, inits, requests>>
  BY DEF SendCallStateChanged, RequestStep, channel
<1>2. Trying'
  BY <1>0, <1>1 DEF Trying
<1>3. rq' = "radio" \/ cmd' \in {"ATE0", "ATC"} => sState' \in {"OFF", "UNAVAILABLE"}
  BY <1>0, <1>1 DEF Radio
<1>4. /\ cmd' \in Commands \cup {"none"} /\ tries' \in 0..HANDSHAKE_RETRY_COUNT
      /\ sState' \in RadioStates /\ mn' \in {"connect", "sleep", "wait"}
      /\ inits' \in Nat /\ requests' \in 0..MaxRequests
  BY <1>0, <1>1 DEF ChannelTypeOK, DriverTypeOK
<1> QED
  BY <1>1, <1>2, <1>3, <1>4, RequestStepBase

(* A request answered without a command keeps the first layer (types, connection,
   handshake, radio). *)
LEMMA RequestLocalBase ==
  ASSUME Base, NEW r, RequestLocal(r)
  PROVE  Base'
<1>0. TypeOK /\ ChannelTypeOK /\ DaemonTypeOK /\ DriverTypeOK /\ Trying /\ Radio
  BY BaseTypes
<1>1. /\ RequestStep /\ rq = "idle" /\ requests < MaxRequests /\ requests' = requests + 1
      /\ UNCHANGED <<cmd, tries, told, inits, repoll>>
  BY DEF RequestLocal, RequestStep, daemon
<1>2. cmd = "none"
  BY <1>0, <1>1 DEF Trying
<1>3. \/ UNCHANGED <<sState, mn, rq>>
      \/ SetRadioState("OFF") /\ UNCHANGED rq
      \/ UNCHANGED <<sState, mn>> /\ rq' = "radio" /\ sState = "OFF"
  <2>1. CASE Refused(r)
    BY <2>1 DEF RequestLocal
  <2>2. CASE ~Refused(r)
    <3>1. RadioPower(r)
      BY <2>2 DEF RequestLocal
    <3> QED
      BY <3>1 DEF RadioPower
  <2> QED
    BY <2>1, <2>2
<1>4. /\ requests' \in 0..MaxRequests /\ inits' \in Nat /\ repoll' \in BOOLEAN
      /\ told' \in BOOLEAN /\ cmd' = "none" /\ tries' \in 0..HANDSHAKE_RETRY_COUNT
      /\ s_closed \in {0, 1} /\ sState \in RadioStates /\ mn \in {"connect", "sleep", "wait"}
      /\ inits' = inits
  BY <1>0, <1>1, <1>2 DEF DriverTypeOK, DaemonTypeOK, ChannelTypeOK
<1>5. Trying'
  BY <1>1, <1>3, <1>4 DEF Trying
<1>6. CASE UNCHANGED <<sState, mn, rq>>
  BY <1>1, <1>4, <1>5, <1>6, RequestStepBase
<1>7. CASE SetRadioState("OFF") /\ UNCHANGED rq
  <2>1. "OFF" \in RadioStates
    BY DEF RadioStates
  <2>2. /\ sState' \in RadioStates /\ mn' \in {"connect", "sleep", "wait"}
        /\ s_closed = 1 => sState' = "UNAVAILABLE"
        /\ s_closed = 0 => sState' = "OFF"
    BY <1>0, <1>7, <2>1, RadioType
  <2> QED
    BY <1>1, <1>4, <1>5, <1>7, <2>2, RequestStepBase
<1>8. CASE UNCHANGED <<sState, mn>> /\ rq' = "radio" /\ sState = "OFF"
  BY <1>1, <1>4, <1>5, <1>8, RequestStepBase
<1> QED
  BY <1>3, <1>6, <1>7, <1>8

(* A request that sends a command keeps the first layer (types, connection, handshake,
   radio). *)
LEMMA RequestCommandBase ==
  ASSUME Base, NEW r, RequestCommand(r)
  PROVE  Base'
<1>0. TypeOK /\ ChannelTypeOK /\ DaemonTypeOK /\ DriverTypeOK /\ Trying /\ Radio
  BY BaseTypes
<1>1. /\ RequestStep /\ requests < MaxRequests /\ requests' = requests + 1
      /\ rq' = "lock" /\ cmd' = CommandOf(r) /\ tries' = 0
      /\ UNCHANGED <<told, inits, repoll, sState, mn>>
  BY DEF RequestCommand, RequestStep, daemon, AtSend
<1>2. CommandOf(r) \in Commands \cup {"none"} /\ CommandOf(r) \notin {"ATE0", "ATC"}
  BY DEF CommandOf, Commands
<1>3. Trying'
  BY <1>1, <1>2 DEF Trying
<1>4. /\ requests' \in 0..MaxRequests /\ inits' \in Nat /\ repoll' \in BOOLEAN
      /\ told' \in BOOLEAN /\ tries' \in 0..HANDSHAKE_RETRY_COUNT
      /\ sState' \in RadioStates /\ mn' \in {"connect", "sleep", "wait"}
      /\ inits' = inits /\ sState' = sState
  BY <1>0, <1>1 DEF DriverTypeOK, DaemonTypeOK
<1> QED
  BY <1>1, <1>2, <1>3, <1>4, RequestStepBase

(* The radio going on, with onRadioPowerOn, keeps the first layer (types, connection,
   handshake, radio). *)
LEMMA RadioOnBase ==
  ASSUME Base, RadioOn
  PROVE  Base'
<1>0. TypeOK /\ ChannelTypeOK /\ DaemonTypeOK /\ DriverTypeOK /\ Trying /\ Radio
  BY BaseTypes
<1>1. /\ RequestStep /\ rq = "radio" /\ rq' \in {"poll", "idle"}
      /\ SetRadioState("SIM_NOT_READY") /\ "SIM_NOT_READY" \in RadioStates
      /\ UNCHANGED <<cmd, tries, told, inits, repoll, requests>>
  BY DEF RadioOn, RequestStep, daemon, RadioStates
<1>2. /\ sState' \in RadioStates /\ mn' \in {"connect", "sleep", "wait"}
      /\ s_closed = 1 => sState' = "UNAVAILABLE"
      /\ s_closed = 0 => sState' = "SIM_NOT_READY"
  BY <1>0, <1>1, RadioType
<1>3. cmd' = "none"
  BY <1>0, <1>1 DEF Trying
<1>4. /\ requests' \in 0..MaxRequests /\ inits' \in Nat /\ repoll' \in BOOLEAN
      /\ told' \in BOOLEAN /\ tries' \in 0..HANDSHAKE_RETRY_COUNT
      /\ inits' = inits /\ s_closed \in {0, 1}
  BY <1>0, <1>1 DEF DriverTypeOK, DaemonTypeOK, ChannelTypeOK
<1>5. Trying'
  BY <1>1, <1>3 DEF Trying
<1> QED
  BY <1>1, <1>2, <1>3, <1>4, <1>5, RequestStepBase

(* pollSIMState keeps the first layer (types, connection, handshake, radio). *)
LEMMA PollSIMStateBase ==
  ASSUME Base, PollSIMState
  PROVE  Base'
<1>0. TypeOK /\ ChannelTypeOK /\ DaemonTypeOK /\ DriverTypeOK /\ Trying /\ Radio
  BY BaseTypes
<1>1. /\ RequestStep /\ rq = "poll" /\ rq' = "idle"
      /\ UNCHANGED <<cmd, tries, inits, repoll, requests>>
      /\ \/ SetRadioState("SIM_READY") /\ told' = (told \/ sState' = "SIM_READY")
         \/ UNCHANGED <<sState, mn, told>>
  BY DEF PollSIMState, RequestStep
<1>2. cmd' = "none"
  BY <1>0, <1>1 DEF Trying
<1>3. /\ requests' \in 0..MaxRequests /\ inits' \in Nat /\ repoll' \in BOOLEAN
      /\ told \in BOOLEAN /\ tries' \in 0..HANDSHAKE_RETRY_COUNT
      /\ inits' = inits /\ s_closed \in {0, 1}
      /\ sState \in RadioStates /\ mn \in {"connect", "sleep", "wait"}
  BY <1>0, <1>1 DEF DriverTypeOK, DaemonTypeOK, ChannelTypeOK
<1>4. Trying'
  BY <1>1, <1>2 DEF Trying
<1>5. CASE UNCHANGED <<sState, mn, told>>
  BY <1>1, <1>2, <1>3, <1>4, <1>5, RequestStepBase
<1>6. CASE SetRadioState("SIM_READY") /\ told' = (told \/ sState' = "SIM_READY")
  <2>1. "SIM_READY" \in RadioStates
    BY DEF RadioStates
  <2>2. /\ sState' \in RadioStates /\ mn' \in {"connect", "sleep", "wait"}
        /\ s_closed = 1 => sState' = "UNAVAILABLE"
        /\ s_closed = 0 => sState' = "SIM_READY"
    BY <1>0, <1>6, <2>1, RadioType
  <2>3. told' \in BOOLEAN
    BY <1>3, <1>6
  <2> QED
    BY <1>1, <1>2, <1>3, <1>4, <2>2, <2>3, RequestStepBase
<1> QED
  BY <1>1, <1>5, <1>6

(* Each step of at_send_command_full_nolock keeps the first layer (types, connection,
   handshake, radio). *)
LEMMA SendStepBase ==
  ASSUME Base, SendStep
  PROVE  Base'
<1>0. WireTypeOK /\ ChannelTypeOK /\ DaemonTypeOK /\ DriverTypeOK
      /\ late \in Nat /\ Connected /\ Closing /\ Trying /\ Radio
  BY BaseTypes
<1>1. UNCHANGED daemon /\ UNCHANGED driver
  BY DEF SendStep
<1>2. DaemonTypeOK' /\ DriverTypeOK' /\ late' = late
  BY <1>0, <1>1, SameDaemonType, SameDriverType
<1>3. UNCHANGED <<posted, replying, s_closed, sState, late, inits, overtaken>>
  BY <1>1 DEF daemon, socket, driver
<1>4. down \in Seq(Items) /\ cmd \in Commands \cup {"none"}
  BY <1>0 DEF WireTypeOK, ChannelTypeOK
<1>5. ASSUME down' \in Seq(Items), sp_response' = sp_response \/ sp_response' = NewResponse,
             rq' \in {"cr", "wait", "woken", "lock"}, tries' \in 0..HANDSHAKE_RETRY_COUNT,
             cmd' \in Commands \cup {"none"}, Trying',
             cmd' \in {"ATE0", "ATC"} => cmd \in {"ATE0", "ATC"},
             link = "up" \/ down' = down,
             UNCHANGED <<link, up, s_fd, s_readerClosed, rd, s_ATBuffer, faults, dropped, spoiled>>
      PROVE  Base'
  <2>1. NewResponse \in [final : LineTexts \cup {"null", "none"},
                         by : Marks \cup {"none"}, calls : Seq(LineTexts)]
    BY DEF NewResponse
  <2>2. ChannelTypeOK' /\ WireTypeOK'
    BY <1>0, <1>5, <2>1 DEF ChannelTypeOK, WireTypeOK
  <2>3. Connected' /\ Closing'
    BY <1>0, <1>3, <1>5 DEF Connected, Closing
  <2>4. Radio'
    BY <1>0, <1>3, <1>5 DEF Radio, ClosedRadio
  <2> QED
    BY <1>0, <1>2, <1>5, <2>2, <2>3, <2>4, BaseParts
<1>6. tries \in 0..HANDSHAKE_RETRY_COUNT
  BY <1>0 DEF ChannelTypeOK
<1>7. CASE WriteText
  <2>1. Text(cmd) \in Items
    BY <1>4 DEF Text, Items, Marks
  <2>2. down' \in Seq(Items)
    BY <1>4, <1>7, <2>1 DEF WriteText
  <2>3. Trying'
    BY <1>0, <1>7 DEF Trying, WriteText
  <2> QED
    BY <1>4, <1>5, <1>6, <1>7, <2>2, <2>3 DEF WriteText
<1>8. CASE WriteCR
  <2>1. CR \in Items
    BY DEF CR, Items, Marks
  <2>2. down' \in Seq(Items)
    BY <1>4, <1>8, <2>1 DEF WriteCR
  <2>3. Trying'
    BY <1>0, <1>8 DEF Trying, WriteCR
  <2> QED
    BY <1>4, <1>5, <1>6, <1>8, <2>2, <2>3 DEF WriteCR
<1>9. CASE HandshakePause
  <2>1. /\ rq = "sleep" /\ rq' = "lock" /\ cmd' = "ATC" /\ tries' = 0
        /\ UNCHANGED <<link, down, up, s_fd, s_readerClosed, sp_response, rd, s_ATBuffer, faults,
                       dropped, spoiled>>
    BY <1>9 DEF HandshakePause, AtSend, wire
  <2>2. cmd = "ATE0"
    BY <1>0, <2>1 DEF Trying
  <2>3. Trying' /\ cmd' \in Commands
    BY <2>1 DEF Trying, Commands
  <2> QED
    BY <1>4, <1>5, <2>1, <2>2, <2>3
<1> QED
  BY <1>7, <1>8, <1>9 DEF SendStep
-----------------------------------------------------------------------------
(* The daemon and the ends of the two processes.                           *)

\* Steps that leave the driver's threads where they are.
DaemonStep ==
  /\ UNCHANGED <<rq, cmd, tries, s_fd, s_readerClosed, sp_response, rd, s_ATBuffer, dropped,
                 spoiled>>
  /\ UNCHANGED driver

\* What such a step does to the link: nothing, or one of the ends goes away.
LinkKept ==
  /\ UNCHANGED <<link, faults>>
  /\ link \in {"down", "eof"} => UNCHANGED <<down, posted>>
  /\ link # "up" => UNCHANGED up

DaemonGone ==
  /\ down' = <<>> /\ posted' = "no"
  /\ \/ link \in {"up", "eof"} /\ link' = "eof" /\ faults' = faults + 1
     \/ link \in {"down", "gone"} /\ link' = "down" /\ up' = <<>> /\ faults' >= faults

(* A step of the daemon, or its end, preserves the first part.              *)
LEMMA DaemonStepBase ==
  ASSUME Base, DaemonStep, LinkKept \/ DaemonGone,
         WireTypeOK', DaemonTypeOK', faults' \in 0..MaxFaults
  PROVE  Base'
<1>0. WireTypeOK /\ ChannelTypeOK /\ DaemonTypeOK /\ DriverTypeOK
      /\ late \in Nat /\ Connected /\ Closing /\ Trying /\ Radio
  BY BaseTypes
<1>1. /\ UNCHANGED <<rq, cmd, tries, s_fd, s_readerClosed, sp_response, rd, s_ATBuffer, dropped,
                     spoiled>>
      /\ UNCHANGED driver
  BY DEF DaemonStep
<1>2. UNCHANGED <<sState, s_closed, late, inits, overtaken>>
  BY <1>1 DEF driver
<1>3. DriverTypeOK' /\ late' = late
  BY <1>0, <1>1, SameDriverType
<1>4. ChannelTypeOK'
  BY <1>0, <1>1 DEF ChannelTypeOK
<1>5. Trying'
  BY <1>0, <1>1 DEF Trying
<1>6. faults \in Nat /\ link \in {"down", "up", "eof", "gone"}
  BY <1>0 DEF ChannelTypeOK, WireTypeOK
<1>7. CASE LinkKept
  <2>1. Connected' /\ Closing'
    BY <1>0, <1>1, <1>2, <1>6, <1>7 DEF Connected, Closing, LinkKept
  <2>2. Radio'
    BY <1>0, <1>1, <1>2, <1>7 DEF Radio, ClosedRadio, LinkKept
  <2> QED
    BY <1>0, <1>3, <1>4, <1>5, <2>1, <2>2, BaseParts
<1>8. CASE DaemonGone
  <2>1. down' = <<>> /\ posted' = "no" /\ link' # "up" /\ link' # "gone"
    BY <1>8 DEF DaemonGone
  <2>2. ASSUME link \in {"up", "eof"}, link' = "eof", faults' = faults + 1
        PROVE  Connected' /\ Closing'
    <3>1. Connected'
      BY <1>0, <1>1, <1>2, <2>1, <2>2 DEF Connected
    <3>2. Closing'
      BY <1>0, <1>2, <1>6, <2>2 DEF Closing
    <3> QED
      BY <3>1, <3>2
  <2>3. ASSUME link \in {"down", "gone"}, link' = "down", up' = <<>>, faults' >= faults
        PROVE  Connected' /\ Closing'
    <3>1. Connected'
      BY <1>0, <1>1, <1>2, <2>1, <2>3 DEF Connected
    <3>2. Closing'
      BY <1>0, <1>2, <1>6, <2>3 DEF Closing
    <3> QED
      BY <3>1, <3>2
  <2>4. Connected' /\ Closing'
    BY <1>8, <2>2, <2>3 DEF DaemonGone
  <2>5. Radio'
    BY <1>0, <1>1, <1>2, <2>1 DEF Radio, ClosedRadio
  <2> QED
    BY <1>0, <1>3, <1>4, <1>5, <2>4, <2>5, BaseParts
<1> QED
  BY <1>7, <1>8

(* The new daemon.                                                          *)
LEMMA DaemonRestartType ==
  ASSUME TypeOK, DaemonRestart, events' \in 0..MaxEvents, up' \in Seq(Lines)
  PROVE  WireTypeOK' /\ DaemonTypeOK'
<1>1. /\ listening' = TRUE /\ posted' = "no" /\ replying' \in BOOLEAN /\ s_wait_response' = "no"
      /\ phone' = "INIT" /\ smq' = <<>> /\ hook' = "none"
      /\ down' = <<>> /\ link' \in {"eof", "down"}
      /\ told' \in BOOLEAN
  BY DEF DaemonRestart
<1> QED
  BY <1>1 DEF WireTypeOK, DaemonTypeOK

(* The line for a driver that is gone ends the daemon.                      *)
LEMMA RestartsWithLinkGone ==
  ASSUME TypeOK, DaemonRestart, up' = <<>>, link = "gone", UNCHANGED faults
  PROVE  DaemonGone
<1>1. faults \in Nat
  BY DEF TypeOK, ChannelTypeOK
<1> QED
  BY <1>1 DEF DaemonGone, DaemonRestart

(* A state entered, with its line.                                          *)
LEMMA EnterType ==
  ASSUME TypeOK, NEW s \in CallStates \cup {"IDLE"}, Enter(s),
         smq' \in Seq({"ON", "OFF"}), hook' \in {"none", "on", "off"}, events' \in 0..MaxEvents,
         UNCHANGED faults
  PROVE  WireTypeOK' /\ DaemonTypeOK' /\ LinkKept
<1>0. WireTypeOK /\ DaemonTypeOK
  BY DEF TypeOK
<1>1. News(s) \in Seq(Lines)
  BY <1>0, NewsLines
<1>2. /\ phone' = s /\ UNCHANGED <<link, down, posted, replying, listening>>
      /\ up' = (IF link = "up" THEN up \o News(s) ELSE up)
      /\ s_wait_response' = (IF s \in {"IDLE", "DIALING"} THEN "no" ELSE s_wait_response)
      /\ told' \in BOOLEAN
  BY DEF Enter
<1>3. up' \in Seq(Lines)
  <2>1. up \in Seq(Lines)
    BY <1>0 DEF WireTypeOK
  <2>2. up \o News(s) \in Seq(Lines)
    BY <1>1, <2>1
  <2> QED
    BY <1>2, <2>1, <2>2
<1>4. WireTypeOK'
  BY <1>0, <1>2, <1>3 DEF WireTypeOK
<1>5. DaemonTypeOK'
  BY <1>0, <1>2 DEF DaemonTypeOK
<1>6. LinkKept
  BY <1>2 DEF LinkKept
<1> QED
  BY <1>4, <1>5, <1>6

(* A new state of the phone, or the SIGPIPE it ends in, keeps the first layer (types,
   connection, handshake, radio). *)
LEMMA EnterOrDieBase ==
  ASSUME Base, NEW s \in CallStates \cup {"IDLE"}, EnterOrDie(s), events' \in 0..MaxEvents,
         UNCHANGED channel, UNCHANGED driver
  PROVE  Base'
<1>0. TypeOK /\ WireTypeOK /\ ChannelTypeOK /\ DaemonTypeOK
  BY BaseTypes
<1>1. DaemonStep /\ UNCHANGED faults /\ faults' \in 0..MaxFaults
  BY <1>0 DEF DaemonStep, channel, ChannelTypeOK
<1>2. CASE SigPipe(s)
  <2>1. DaemonRestart /\ up' = <<>> /\ link = "gone"
    BY <1>2 DEF EnterOrDie, SigPipe
  <2>2. up' \in Seq(Lines)
    BY <2>1
  <2>3. WireTypeOK' /\ DaemonTypeOK'
    BY <1>0, <2>1, <2>2, DaemonRestartType
  <2>4. DaemonGone
    BY <1>0, <1>1, <2>1, RestartsWithLinkGone
  <2> QED
    BY <1>1, <2>3, <2>4, DaemonStepBase
<1>3. CASE ~SigPipe(s)
  <2>1. Enter(s) /\ UNCHANGED <<smq, hook>>
    BY <1>3 DEF EnterOrDie
  <2>2. smq' \in Seq({"ON", "OFF"}) /\ hook' \in {"none", "on", "off"}
    BY <1>0, <2>1 DEF DaemonTypeOK
  <2>3. WireTypeOK' /\ DaemonTypeOK' /\ LinkKept
    BY <1>0, <1>1, <2>1, <2>2, EnterType
  <2> QED
    BY <1>1, <2>3, DaemonStepBase
<1> QED
  BY <1>2, <1>3
(* What a command answers to carries the mark of a command.                 *)
LEMMA AnswerMarkType ==
  ASSUME TypeOK, down # <<>>, ~OnlyCR(down)
  PROVE  AnswerMark(down) \in Marks
<1>1. down \in Seq(Items) /\ Len(down) \in Nat /\ Len(down) > 0
  BY DEF TypeOK, WireTypeOK
<1>2. Head(down) = down[1] /\ down[1] \in Items
  BY <1>1
<1>3. CASE Head(down).k = "text"
  BY <1>2, <1>3 DEF AnswerMark, Items
<1>4. CASE Head(down).k # "text"
  <2>1. Head(down).k = "cr"
    BY <1>2, <1>4 DEF Items
  <2>2. Len(down) # 1
    BY <2>1 DEF OnlyCR
  <2>3. 2 \in 1..Len(down)
    BY <1>1, <2>2
  <2>4. down[2] \in Items
    BY <1>1, <2>3
  <2> QED
    BY <1>4, <2>4 DEF AnswerMark, Items
<1> QED
  BY <1>3, <1>4

(* processCommandsCallback on what it has read keeps the first layer (types, connection,
   handshake, radio). *)
LEMMA ProcessCommandsBase ==
  ASSUME Base, ProcessCommands, UNCHANGED channel, UNCHANGED driver
  PROVE  Base'
<1>0. TypeOK /\ WireTypeOK /\ ChannelTypeOK /\ DaemonTypeOK
  BY BaseTypes
<1>1. DaemonStep /\ UNCHANGED faults /\ faults' \in 0..MaxFaults
  BY <1>0 DEF DaemonStep, channel, ChannelTypeOK
<1>2. events' \in 0..MaxEvents /\ link \in {"up", "gone"} /\ down # <<>>
  BY <1>0 DEF ProcessCommands, DaemonTypeOK
<1> DEFINE c == Executes(down)
           m == AnswerMark(down)
<1>5. PICK ok \in BOOLEAN : ProcessCommand(c, ok)
  BY DEF ProcessCommands
<1>3. CASE link = "gone" /\ ~Unanswered(down, ok)
  <2>1. DaemonRestart /\ up' = <<>>
    BY <1>3, <1>5 DEF ProcessCommand
  <2>2. up' \in Seq(Lines)
    BY <2>1
  <2>3. WireTypeOK' /\ DaemonTypeOK'
    BY <1>0, <1>2, <2>1, <2>2, DaemonRestartType
  <2>4. DaemonGone
    BY <1>0, <1>1, <1>3, <2>1, RestartsWithLinkGone
  <2> QED
    BY <1>1, <2>3, <2>4, DaemonStepBase
<1>4. CASE ~(link = "gone" /\ ~Unanswered(down, ok))
  <2> DEFINE l == Reply(c, ok, m)
  <2>1. /\ down' = <<>>
        /\ up' = (IF Unanswered(down, ok) THEN up ELSE Append(up, l))
        /\ posted' = (IF (Waits(c) /\ ok) \/ Lists(c) THEN m ELSE "no")
        /\ replying' = Lists(c)
        /\ UNCHANGED <<link, listening, s_wait_response, phone, hook, told>>
    BY <1>4, <1>5 DEF ProcessCommand
  <2>2. smq' \in {smq, Append(smq, "ON"), Append(smq, "OFF")}
    BY <1>4, <1>5 DEF ProcessCommand
  <2>3. smq' \in Seq({"ON", "OFF"})
    BY <1>0, <2>2 DEF DaemonTypeOK
  <2>4. ~OnlyCR(down) => m \in Marks
    BY <1>0, <1>2, AnswerMarkType
  <2>5. Waits(c) \/ Lists(c) => ~OnlyCR(down)
    BY DEF Waits, Lists, Executes, OnlyCR
  <2>6. posted' \in Marks \cup {"no"} /\ replying' \in BOOLEAN
    <3>1. replying' \in BOOLEAN
      BY <2>1 DEF Lists
    <3> QED
      BY <2>1, <2>4, <2>5, <3>1
  <2>7. up' \in Seq(Lines)
    <3>1. up \in Seq(Lines)
      BY <1>0 DEF WireTypeOK
    <3>2. CASE Unanswered(down, ok)
      BY <2>1, <3>1, <3>2
    <3>3. CASE ~Unanswered(down, ok)
      <4>1. m \in Marks
        BY <2>4, <3>3 DEF Unanswered
      <4> HIDE DEF c, m
      <4>2. l \in Lines
        BY <4>1, ReplyLine
      <4> HIDE DEF l
      <4> QED
        BY <2>1, <3>1, <3>3, <4>2
    <3> QED
      BY <3>2, <3>3
  <2>8. WireTypeOK'
    BY <1>0, <2>1, <2>7 DEF WireTypeOK
  <2>9. DaemonTypeOK'
    BY <1>0, <1>2, <2>1, <2>3, <2>6 DEF DaemonTypeOK
  <2>10. LinkKept
    BY <1>1, <1>2, <1>4, <2>1 DEF LinkKept
  <2> QED
    BY <1>1, <2>8, <2>9, <2>10, DaemonStepBase
<1> QED
  BY <1>3, <1>4

(* Every step of the daemon's main loop keeps the first layer (types, connection,
   handshake, radio). *)
LEMMA SocketNextBase ==
  ASSUME Base, SocketNext
  PROVE  Base'
<1>0. TypeOK /\ WireTypeOK /\ ChannelTypeOK /\ DaemonTypeOK /\ Connected
  BY BaseTypes
<1>1. UNCHANGED channel /\ UNCHANGED driver
  BY DEF SocketNext
<1>2. DaemonStep /\ UNCHANGED faults /\ faults' \in 0..MaxFaults /\ faults' >= faults
  BY <1>0, <1>1 DEF DaemonStep, channel, ChannelTypeOK
<1>3. CASE ProcessCommands
  BY <1>1, <1>3, ProcessCommandsBase
<1>4. CASE SetWait
  <2>1. /\ UNCHANGED wire /\ s_wait_response' = posted /\ posted # "no" /\ posted' = "no"
        /\ UNCHANGED <<listening, replying, phone, smq, hook, events, told>>
    BY <1>4 DEF SetWait, machine
  <2>2. WireTypeOK' /\ DaemonTypeOK'
    BY <1>0, <2>1, SameWireType DEF DaemonTypeOK
  <2>3. link \notin {"down", "eof"}
    BY <1>0, <2>1 DEF Connected
  <2>4. LinkKept
    BY <1>2, <2>1, <2>3 DEF LinkKept, wire
  <2> QED
    BY <1>2, <2>2, <2>4, DaemonStepBase
<1>5. CASE Disconnected
  <2>1. /\ link = "gone" /\ link' = "down" /\ down = <<>> /\ down' = down /\ up' = <<>>
        /\ listening' = TRUE /\ posted = "no"
        /\ UNCHANGED <<posted, replying, s_wait_response, phone, smq, hook, events, told>>
    BY <1>5 DEF Disconnected, machine
  <2>2. WireTypeOK' /\ DaemonTypeOK'
    BY <1>0, <2>1 DEF WireTypeOK, DaemonTypeOK
  <2>3. DaemonGone
    BY <1>2, <2>1 DEF DaemonGone
  <2> QED
    BY <1>2, <2>2, <2>3, DaemonStepBase
<1>6. CASE WriteResult
  <2>0. posted # "no" /\ events' = events /\ events' \in 0..MaxEvents
    BY <1>0, <1>6 DEF WriteResult, DaemonTypeOK
  <2>1. CASE link = "gone"
    <3>1. DaemonRestart /\ up' = <<>>
      BY <1>6, <2>1 DEF WriteResult
    <3>2. up' \in Seq(Lines)
      BY <3>1
    <3>3. WireTypeOK' /\ DaemonTypeOK'
      BY <1>0, <2>0, <3>1, <3>2, DaemonRestartType
    <3>4. DaemonGone
      BY <1>0, <1>2, <2>1, <3>1, RestartsWithLinkGone
    <3> QED
      BY <1>2, <3>3, <3>4, DaemonStepBase
  <2>2. CASE link # "gone"
    <3> DEFINE l == Line("OK", posted)
    <3>1. /\ up' = Append(up, l) /\ posted' = "no" /\ replying' = FALSE
          /\ UNCHANGED <<link, down, listening, s_wait_response, phone, smq, hook, told>>
      BY <1>6, <2>2 DEF WriteResult
    <3>2. l \in Lines
      BY <1>0, <2>0 DEF Line, Lines, LineTexts, DaemonTypeOK
    <3> HIDE DEF l
    <3>3. up' \in Seq(Lines)
      BY <1>0, <3>1, <3>2 DEF WireTypeOK
    <3>4. WireTypeOK' /\ DaemonTypeOK'
      BY <1>0, <2>0, <3>1, <3>3 DEF WireTypeOK, DaemonTypeOK
    <3>5. link = "up"
      BY <1>0, <2>0, <2>2 DEF Connected
    <3>6. LinkKept
      BY <1>2, <3>1, <3>5 DEF LinkKept
    <3> QED
      BY <1>2, <3>4, <3>6, DaemonStepBase
  <2> QED
    BY <2>1, <2>2
<1> QED
  BY <1>3, <1>4, <1>5, <1>6 DEF SocketNext

(* Every step of the daemon's state machine keeps the first layer (types, connection,
   handshake, radio). *)
LEMMA MachineNextBase ==
  ASSUME Base, MachineNext
  PROVE  Base'
<1>0. TypeOK /\ WireTypeOK /\ ChannelTypeOK /\ DaemonTypeOK
  BY BaseTypes
<1>1. UNCHANGED channel /\ UNCHANGED driver
  BY DEF MachineNext
<1>2. DaemonStep /\ UNCHANGED faults /\ faults' \in 0..MaxFaults
  BY <1>0, <1>1 DEF DaemonStep, channel, ChannelTypeOK
<1>3. CASE TakeHandfree
  <2>1. /\ UNCHANGED wire /\ UNCHANGED <<listening, posted, replying, s_wait_response, phone, events, told>>
        /\ smq # <<>> /\ smq' = Tail(smq)
    BY <1>3 DEF TakeHandfree, socket
  <2>2. hook' \in {"on", "off", hook}
    BY <1>3 DEF TakeHandfree
  <2>3. WireTypeOK'
    BY <1>0, <2>1, SameWireType
  <2>4. DaemonTypeOK'
    BY <1>0, <2>1, <2>2 DEF DaemonTypeOK
  <2>5. LinkKept
    BY <1>2, <2>1 DEF LinkKept, wire
  <2> QED
    BY <1>2, <2>3, <2>4, <2>5, DaemonStepBase
<1>4. CASE HookMoved
  <2> DEFINE s == AfterHook(hook, phone)
  <2>1. events' \in 0..MaxEvents
    BY <1>0, <1>4 DEF HookMoved, DaemonTypeOK
  <2>2. CASE s = phone
    <3>1. UNCHANGED wire /\ hook' = "none"
          /\ UNCHANGED <<listening, posted, replying, s_wait_response, phone, smq, events, told>>
      BY <1>4, <2>2 DEF HookMoved, socket
    <3>2. WireTypeOK' /\ DaemonTypeOK'
      BY <1>0, <3>1, SameWireType DEF DaemonTypeOK
    <3>3. LinkKept
      BY <1>2, <3>1 DEF LinkKept, wire
    <3> QED
      BY <1>2, <3>2, <3>3, DaemonStepBase
  <2>3. CASE s # phone
    <3>1. s \in CallStates \cup {"IDLE"}
      BY <2>3 DEF AfterHook, CallStates
    <3>2. CASE SigPipe(s)
      <4>1. DaemonRestart /\ up' = <<>> /\ link = "gone"
        BY <1>4, <2>3, <3>2 DEF HookMoved, SigPipe
      <4>2. up' \in Seq(Lines)
        BY <4>1
      <4>3. WireTypeOK' /\ DaemonTypeOK'
        BY <1>0, <2>1, <4>1, <4>2, DaemonRestartType
      <4>4. DaemonGone
        BY <1>0, <1>2, <4>1, RestartsWithLinkGone
      <4> QED
        BY <1>2, <4>3, <4>4, DaemonStepBase
    <3>3. CASE ~SigPipe(s)
      <4>1. Enter(s) /\ hook' = "none" /\ UNCHANGED smq
        BY <1>4, <2>3, <3>3 DEF HookMoved
      <4>2. smq' \in Seq({"ON", "OFF"})
        BY <1>0, <4>1 DEF DaemonTypeOK
      <4> HIDE DEF s
      <4>3. WireTypeOK' /\ DaemonTypeOK' /\ LinkKept
        BY <1>0, <1>2, <2>1, <3>1, <4>1, <4>2, EnterType
      <4> QED
        BY <1>2, <4>3, DaemonStepBase
    <3> QED
      BY <3>2, <3>3
  <2> QED
    BY <2>2, <2>3
<1>5. CASE PhoneTimer
  <2>1. PICK s \in TimerNext(phone) : EnterOrDie(s)
    BY <1>5 DEF PhoneTimer
  <2>2. s \in CallStates \cup {"IDLE"}
    BY <2>1 DEF TimerNext, CallStates
  <2>3. events' \in 0..MaxEvents
    BY <1>0, <1>5 DEF PhoneTimer, DaemonTypeOK
  <2> QED
    BY <1>1, <2>1, <2>2, <2>3, EnterOrDieBase
<1> QED
  BY <1>3, <1>4, <1>5 DEF MachineNext

(* The handset, a call on the line or the plug keeps the first layer (types,
   connection, handshake, radio). *)
LEMMA PhoneEventBase ==
  ASSUME Base, PhoneEvent, UNCHANGED channel, UNCHANGED driver
  PROVE  Base'
<1>0. TypeOK /\ WireTypeOK /\ ChannelTypeOK /\ DaemonTypeOK
  BY BaseTypes
<1>1. DaemonStep /\ UNCHANGED faults /\ faults' \in 0..MaxFaults
  BY <1>0 DEF DaemonStep, channel, ChannelTypeOK
<1>2. events' \in 0..MaxEvents
  BY <1>0 DEF PhoneEvent, DaemonTypeOK
<1>3. \/ \E s \in CallStates \cup {"IDLE"} : EnterOrDie(s)
      \/ smq' = Append(smq, "OFF") /\ UNCHANGED <<wire, socket, phone, hook, told>>
      \/ phone' = "INIT" /\ hook' = "none" /\ told' \in BOOLEAN /\ UNCHANGED <<wire, socket, smq>>
  BY DEF PhoneEvent, CallStates
<1>4. CASE \E s \in CallStates \cup {"IDLE"} : EnterOrDie(s)
  BY <1>2, <1>4, EnterOrDieBase
<1>5. CASE smq' = Append(smq, "OFF") /\ UNCHANGED <<wire, socket, phone, hook, told>>
  <2>1. WireTypeOK' /\ DaemonTypeOK'
    BY <1>0, <1>2, <1>5, SameWireType DEF DaemonTypeOK, socket
  <2>2. LinkKept
    BY <1>1, <1>5 DEF LinkKept, wire, socket
  <2> QED
    BY <1>1, <2>1, <2>2, DaemonStepBase
<1>6. CASE phone' = "INIT" /\ hook' = "none" /\ told' \in BOOLEAN /\ UNCHANGED <<wire, socket, smq>>
  <2>1. WireTypeOK' /\ DaemonTypeOK'
    BY <1>0, <1>2, <1>6, SameWireType DEF DaemonTypeOK, socket
  <2>2. LinkKept
    BY <1>1, <1>6 DEF LinkKept, wire, socket
  <2> QED
    BY <1>1, <2>1, <2>2, DaemonStepBase
<1> QED
  BY <1>3, <1>4, <1>5, <1>6

(* The end of the daemon keeps the first layer (types, connection, handshake, radio). *)
LEMMA DaemonDiesBase ==
  ASSUME Base, DaemonDies
  PROVE  Base'
<1>0. TypeOK /\ WireTypeOK /\ ChannelTypeOK /\ DaemonTypeOK /\ Connected
  BY BaseTypes
<1>1. /\ faults < MaxFaults /\ faults' = faults + 1 /\ DaemonRestart /\ UNCHANGED <<up, events>>
      /\ DaemonStep
  BY DEF DaemonDies, DaemonStep
<1>2. faults' \in 0..MaxFaults /\ faults' >= faults /\ events' \in 0..MaxEvents /\ up' \in Seq(Lines)
  BY <1>0, <1>1 DEF ChannelTypeOK, DaemonTypeOK, WireTypeOK
<1>3. WireTypeOK' /\ DaemonTypeOK'
  BY <1>0, <1>1, <1>2, DaemonRestartType
<1>4. /\ link \in {"down", "up", "eof", "gone"}
      /\ link \in {"down", "gone"} => up = <<>>
      /\ down' = <<>> /\ posted' = "no"
      /\ link' = IF link \in {"up", "eof"} THEN "eof" ELSE "down"
  BY <1>0, <1>1 DEF WireTypeOK, Connected, DaemonRestart
<1>5. DaemonGone
  BY <1>1, <1>2, <1>4 DEF DaemonGone
<1> QED
  BY <1>1, <1>2, <1>3, <1>5, DaemonStepBase

(* The end and new start of the driver keeps the first layer (types, connection,
   handshake, radio). *)
LEMMA RildRestartBase ==
  ASSUME Base, RildRestart, faults' \in 0..MaxFaults
  PROVE  Base'
<1>0. TypeOK /\ WireTypeOK /\ ChannelTypeOK /\ DaemonTypeOK /\ DriverTypeOK /\ Connected
  BY BaseTypes
<1>1. /\ rq' = "idle" /\ cmd' = "none" /\ tries' = 0 /\ s_fd' = "none" /\ s_readerClosed' = 0
      /\ sp_response' = NoResponse /\ rd' = "none" /\ s_ATBuffer' = <<>>
      /\ dropped' = FALSE /\ spoiled' = FALSE
      /\ sState' = "UNAVAILABLE" /\ s_closed' = 0 /\ mn' = "connect" /\ late' = 0 /\ inits' = 0
      /\ repoll' = FALSE /\ overtaken' = FALSE
  BY DEF RildRestart
<1>2. /\ link' = (IF link = "up" THEN "gone" ELSE IF link = "eof" THEN "down" ELSE link)
      /\ down' = StrayAll(down) /\ up' = <<>>
      /\ posted' = Stray(posted) /\ s_wait_response' = Stray(s_wait_response)
      /\ UNCHANGED <<listening, replying, phone, smq, hook, events, told, requests>>
  BY DEF RildRestart, DaemonStray, machine
<1>3. down \in Seq(Items) /\ link \in {"down", "up", "eof", "gone"}
  BY <1>0 DEF WireTypeOK
<1>4. down' \in Seq(Items) /\ Len(down') = Len(down)
  BY <1>2, <1>3, StrayItems
<1>5. down = <<>> => down' = <<>>
  BY <1>3, <1>4
<1>6. WireTypeOK'
  BY <1>2, <1>3, <1>4 DEF WireTypeOK
<1>7. ChannelTypeOK'
  <2>1. NoResponse \in [final : LineTexts \cup {"null", "none"},
                        by : Marks \cup {"none"}, calls : Seq(LineTexts)]
    BY DEF NoResponse
  <2>2. <<>> \in Seq(Lines) /\ 0 \in 0..HANDSHAKE_RETRY_COUNT
    OBVIOUS
  <2>3. sp_response' \in [final : LineTexts \cup {"null", "none"},
                          by : Marks \cup {"none"}, calls : Seq(LineTexts)]
    BY <1>1, <2>1
  <2> QED
    BY <1>1, <2>2, <2>3 DEF ChannelTypeOK
<1>8. DaemonTypeOK' /\ (posted = "no" => posted' = "no")
  BY <1>0, <1>2 DEF DaemonTypeOK, Stray, Marks
<1>9. DriverTypeOK' /\ late' \in Nat
  BY <1>0, <1>1, <1>2 DEF DriverTypeOK, RadioStates
<1>10. Connected'
  <2>1. link' \in {"gone", "down"}
    BY <1>2, <1>3
  <2>2. link' = "down" => link # "up" /\ link # "gone"
    BY <1>2
  <2>3. link' = "down" => down' = <<>> /\ posted' = "no"
    BY <1>0, <1>5, <1>8, <2>2 DEF Connected
  <2> QED
    BY <1>1, <1>2, <2>1, <2>3 DEF Connected
<1>11. Closing' /\ Trying'
  BY <1>1, <1>2, <1>3 DEF Closing, Trying
<1>12. Radio'
  BY <1>1, <1>2 DEF Radio, ClosedRadio
<1> QED
  BY <1>6, <1>7, <1>8, <1>9, <1>10, <1>11, <1>12, BaseParts

(* The first layer holds at the start. *)
LEMMA InitBase == Init => Base
<1> SUFFICES ASSUME Init PROVE Base
  OBVIOUS
<1>1. /\ link = "down" /\ down = <<>> /\ up = <<>>
      /\ rq = "idle" /\ cmd = "none" /\ tries = 0 /\ s_fd = "none" /\ s_readerClosed = 0
      /\ sp_response = NoResponse /\ rd = "none" /\ s_ATBuffer = <<>> /\ faults = 0
      /\ dropped = FALSE /\ spoiled = FALSE
      /\ listening = TRUE /\ posted = "no" /\ replying \in BOOLEAN /\ s_wait_response = "no"
      /\ phone = "INIT" /\ smq = <<>> /\ hook = "none" /\ events = 0 /\ told = TRUE
      /\ sState = "UNAVAILABLE" /\ s_closed = 0 /\ mn = "connect" /\ late = 0 /\ inits = 0
      /\ repoll = FALSE /\ requests = 0 /\ overtaken = FALSE
  BY DEF Init, ChannelInit, DaemonInit
<1>2. WireTypeOK /\ DaemonTypeOK
  BY <1>1 DEF WireTypeOK, DaemonTypeOK
<1>3. ChannelTypeOK
  <2>1. NoResponse \in [final : LineTexts \cup {"null", "none"},
                        by : Marks \cup {"none"}, calls : Seq(LineTexts)]
    BY DEF NoResponse
  <2>2. <<>> \in Seq(Lines) /\ 0 \in 0..HANDSHAKE_RETRY_COUNT /\ 0 \in 0..MaxFaults
    OBVIOUS
  <2>3. sp_response \in [final : LineTexts \cup {"null", "none"},
                         by : Marks \cup {"none"}, calls : Seq(LineTexts)]
    BY <1>1, <2>1
  <2> QED
    BY <1>1, <2>2, <2>3 DEF ChannelTypeOK
<1>4. DriverTypeOK /\ late \in 0..MaxFaults
  <2>1. MaxRequests \in Nat
    OBVIOUS
  <2>2. 0 \in 0..MaxRequests /\ 0 \in 0..MaxFaults
    BY <2>1
  <2> QED
    BY <1>1, <2>2 DEF DriverTypeOK, RadioStates
<1>5. Connected /\ Closing /\ Trying
  BY <1>1 DEF Connected, Closing, Trying
<1>6. Radio
  BY <1>1 DEF Radio, ClosedRadio
<1> QED
  BY <1>2, <1>3, <1>4, <1>5, <1>6, TypeParts DEF Base

(* Every step keeps the first layer (types, connection, handshake, radio). *)
LEMMA NextBase ==
  ASSUME Base, [Next]_vars
  PROVE  Base'
<1>0. TypeOK /\ WireTypeOK /\ ChannelTypeOK /\ DaemonTypeOK /\ DriverTypeOK
      /\ late \in Nat /\ Connected /\ Closing /\ Trying /\ Radio
  BY BaseTypes
<1>1. CASE ReaderNext
  BY <1>1, ReaderReadsBase, ReaderLineBase, ReaderEndBase, OnATReaderClosedBase, ReaderRadioBase
     DEF ReaderNext
<1>2. CASE MainNext
  BY <1>2, MainConnectBase, MainSleepsBase DEF MainNext
<1>3. CASE RequestNext
  BY <1>3, InitializeCallbackBase, SendCallStateChangedBase, SendStepBase, SendEndsBase, RadioOnBase,
     PollSIMStateBase DEF RequestNext, SendNext
<1>4. CASE RildFaults
  <2>1. RildRestart /\ faults' \in 0..MaxFaults
    BY <1>0, <1>4 DEF RildFaults, ChannelTypeOK
  <2> QED
    BY <2>1, RildRestartBase
<1>5. CASE SocketNext
  BY <1>5, SocketNextBase
<1>6. CASE MachineNext
  BY <1>6, MachineNextBase
<1>7. CASE WorldNext
  <2>1. CASE PhoneEvent /\ UNCHANGED <<channel, driver>>
    BY <2>1, PhoneEventBase
  <2>2. CASE \E r \in Requests : RequestLocal(r) \/ RequestCommand(r)
    BY <2>2, RequestLocalBase, RequestCommandBase
  <2>3. CASE RildDies
    <3>1. RildRestart /\ faults' \in 0..MaxFaults
      BY <1>0, <2>3 DEF RildDies, ChannelTypeOK
    <3> QED
      BY <3>1, RildRestartBase
  <2>4. CASE DaemonDies
    BY <2>4, DaemonDiesBase
  <2> QED
    BY <1>7, <2>1, <2>2, <2>3, <2>4 DEF WorldNext
<1>8. CASE UNCHANGED vars
  <2>1. UNCHANGED wire /\ UNCHANGED channel /\ UNCHANGED daemon /\ UNCHANGED driver
    BY <1>8 DEF vars
  <2>2. DaemonStep /\ UNCHANGED faults /\ faults' \in 0..MaxFaults
    BY <1>0, <2>1 DEF DaemonStep, channel, ChannelTypeOK
  <2>3. LinkKept
    BY <2>1, <2>2 DEF LinkKept, wire, daemon, socket
  <2>4. WireTypeOK' /\ DaemonTypeOK'
    BY <1>0, <2>1, SameWireType, SameDaemonType
  <2> QED
    BY <2>2, <2>3, <2>4, DaemonStepBase
<1> QED
  BY <1>1, <1>2, <1>3, <1>4, <1>5, <1>6, <1>7, <1>8 DEF Next

(* The driver and the daemon agree on the link, the handshake keeps to its  *)
(* tries and the radio follows the channel, in every behaviour.             *)
THEOREM BaseInvariant == Spec => []Base
<1>1. Init => Base
  BY InitBase
<1>2. Base /\ [Next]_vars => Base'
  BY NextBase
<1> QED
  BY <1>1, <1>2, PTL DEF Spec

(* Every variable of the driver, the wire and the daemon keeps its type;    *)
(* the readers still to report a closed channel are no more than the faults.*)
THEOREM TypeCorrect == Spec => []TypeOK
<1>1. Base => TypeOK
  BY DEF Base
<1> QED
  BY <1>1, BaseInvariant, PTL

(* While the channel is closed and its reader is through with the callback, *)
(* setRadioState has left the radio unavailable, whatever the request       *)
(* thread was about to set.                                                 *)
THEOREM ClosedRadioHolds == Spec => []ClosedRadio
<1>1. Base => ClosedRadio
  BY DEF Base, Radio
<1> QED
  BY <1>1, BaseInvariant, PTL

(* An open channel whose initializeCallback has run has its radio           *)
(* available, unless mainLoop overtook the reader of the channel before.    *)
THEOREM OpenRadioHolds == Spec => []OpenRadio
<1>1. Base => OpenRadio
  BY DEF Base, Radio, OpenRadio, Quiet
<1> QED
  BY <1>1, BaseInvariant, PTL
-----------------------------------------------------------------------------
(* The second part: whose answer a line is.                                *)

(* Lines written behind others.                                             *)
LEMMA AppendedLines ==
  ASSUME NEW L \in Seq(Lines), NEW r \in Seq(Lines)
  PROVE  /\ OwnIn(L \o r) <=> OwnIn(L) \/ OwnIn(r)
         /\ StrayIn(L \o r) <=> StrayIn(L) \/ StrayIn(r)
         /\ NewsIn(L \o r) <=> NewsIn(L) \/ NewsIn(r)
         /\ NewsMarked(L) /\ NewsMarked(r) => NewsMarked(L \o r)
         /\ FinalIn(L \o r) <=> FinalIn(L) \/ FinalIn(r)
         /\ FinalLast(L) /\ FinalLast(r) /\ ~(FinalIn(L) /\ OwnIn(r)) => FinalLast(L \o r)
<1> DEFINE M == L \o r
<1>1. /\ Len(L) \in Nat /\ Len(r) \in Nat /\ Len(M) = Len(L) + Len(r)
      /\ \A i \in 1..Len(L) : M[i] = L[i]
      /\ \A i \in 1..Len(r) : M[Len(L) + i] = r[i]
  OBVIOUS
<1>2. /\ \A i \in 1..Len(M) : i \in 1..Len(L) \/ (i - Len(L)) \in 1..Len(r)
      /\ \A i \in 1..Len(M) : i = Len(L) + (i - Len(L))
      /\ \A i \in 1..Len(L) : i \in 1..Len(M)
      /\ \A i \in 1..Len(r) : Len(L) + i \in 1..Len(M)
  BY <1>1
<1>3. \A i \in 1..Len(M) : \/ i \in 1..Len(L) /\ M[i] = L[i]
                           \/ (i - Len(L)) \in 1..Len(r) /\ M[i] = r[i - Len(L)]
  <2> TAKE i \in 1..Len(M)
  <2>1. CASE i \in 1..Len(L)
    BY <1>1, <2>1
  <2>2. CASE (i - Len(L)) \in 1..Len(r)
    <3>1. M[Len(L) + (i - Len(L))] = r[i - Len(L)]
      BY <1>1, <2>2
    <3> QED
      BY <1>2, <2>2, <3>1
  <2> QED
    BY <1>2, <2>1, <2>2
<1> HIDE DEF M
<1>4. /\ OwnIn(M) <=> OwnIn(L) \/ OwnIn(r)
      /\ StrayIn(M) <=> StrayIn(L) \/ StrayIn(r)
      /\ NewsIn(M) <=> NewsIn(L) \/ NewsIn(r)
  BY <1>1, <1>2, <1>3, ZenonT(30) DEF OwnIn, StrayIn, NewsIn
<1>5. NewsMarked(L) /\ NewsMarked(r) => NewsMarked(M)
  BY <1>3, SMTT(30) DEF NewsMarked
<1>7. FinalIn(M) <=> FinalIn(L) \/ FinalIn(r)
  BY <1>1, <1>2, <1>3, ZenonT(30) DEF FinalIn
<1>6. ASSUME FinalLast(L), FinalLast(r), ~(FinalIn(L) /\ OwnIn(r)) PROVE FinalLast(M)
  <2> SUFFICES ASSUME NEW i \in 1..Len(M), NEW j \in 1..Len(M), i < j,
                      M[i].mark = "own", M[j].mark = "own"
               PROVE  M[i].t \in ClccTexts
    BY DEF FinalLast
  <2>1. CASE i \in 1..Len(L) /\ j \in 1..Len(L)
    BY <1>1, <1>6, <2>1 DEF FinalLast
  <2>2. CASE i \notin 1..Len(L) /\ j \notin 1..Len(L)
    <3>1. /\ (i - Len(L)) \in 1..Len(r) /\ M[i] = r[i - Len(L)]
          /\ (j - Len(L)) \in 1..Len(r) /\ M[j] = r[j - Len(L)]
          /\ i - Len(L) < j - Len(L)
      BY <1>1, <1>3, <2>2
    <3> QED
      BY <1>6, <3>1 DEF FinalLast
  <2>3. CASE i \in 1..Len(L) /\ j \notin 1..Len(L)
    <3>1. OwnIn(r) /\ M[i] = L[i]
      BY <1>1, <1>3, <2>3 DEF OwnIn
    <3>2. M[i].t \notin ClccTexts => FinalIn(L)
      BY <2>3, <3>1 DEF FinalIn
    <3> QED
      BY <1>6, <3>1, <3>2
  <2>4. ~(i \notin 1..Len(L) /\ j \in 1..Len(L))
    BY <1>1
  <2> QED
    BY <2>1, <2>2, <2>3, <2>4
<1> QED
  BY <1>4, <1>5, <1>6, <1>7 DEF M

(* The lines that are left when some at the end are thrown away.            *)
LEMMA PrefixLines ==
  ASSUME NEW L \in Seq(Lines), NEW M \in Seq(Lines), Len(M) <= Len(L),
         \A i \in 1..Len(M) : M[i] = L[i]
  PROVE  /\ OwnIn(M) => OwnIn(L)
         /\ StrayIn(M) => StrayIn(L)
         /\ NewsMarked(L) => NewsMarked(M)
         /\ FinalLast(L) => FinalLast(M)
         /\ FinalIn(M) => FinalIn(L)
<1>1. Len(L) \in Nat /\ Len(M) \in Nat /\ \A i \in 1..Len(M) : i \in 1..Len(L)
  OBVIOUS
<1> QED
  BY <1>1 DEF OwnIn, StrayIn, NewsMarked, FinalLast, FinalIn

(* The lines behind the first.                                              *)
LEMMA TailLines ==
  ASSUME NEW L \in Seq(Lines), L # <<>>
  PROVE  /\ Tail(L) \in Seq(Lines) /\ Head(L) \in Lines
         /\ OwnIn(Tail(L)) => OwnIn(L)
         /\ StrayIn(Tail(L)) => StrayIn(L)
         /\ NewsMarked(L) => /\ NewsMarked(Tail(L))
                             /\ Head(L).mark = "news" <=> Head(L).t \in {"RING", "NO_CARRIER"}
         /\ FinalLast(L) => FinalLast(Tail(L))
         /\ FinalLast(L) /\ Head(L).mark = "own" /\ Head(L).t \notin ClccTexts => ~OwnIn(Tail(L))
         /\ Head(L).mark = "own" => OwnIn(L)
         /\ FinalIn(Tail(L)) => FinalIn(L)
         /\ Head(L).mark = "own" /\ Head(L).t \notin ClccTexts => FinalIn(L)
         /\ Head(L).mark = "stray" => StrayIn(L)
         /\ NewsIn(L) => Head(L).mark = "news" \/ NewsIn(Tail(L))
<1> DEFINE M == Tail(L)
<1>1. /\ Len(L) \in Nat \ {0} /\ Len(M) = Len(L) - 1 /\ Head(L) = L[1] /\ 1 \in 1..Len(L)
      /\ M \in Seq(Lines) /\ Head(L) \in Lines
      /\ \A i \in 1..Len(M) : M[i] = L[i + 1]
  OBVIOUS
<1>2. \A i \in 1..Len(M) : i \in Nat /\ i + 1 \in 1..Len(L) /\ 1 < i + 1
  BY <1>1
<1>3. \A i \in 1..Len(L) : i = 1 \/ ((i - 1) \in 1..Len(M) /\ M[i - 1] = L[i])
  <2> TAKE i \in 1..Len(L)
  <2>1. i = 1 \/ ((i - 1) \in 1..Len(M) /\ (i - 1) + 1 = i)
    BY <1>1
  <2> QED
    BY <1>1, <2>1
<1> HIDE DEF M
<1>4. OwnIn(M) => OwnIn(L)
  BY <1>1, <1>2 DEF OwnIn
<1>5. StrayIn(M) => StrayIn(L)
  BY <1>1, <1>2 DEF StrayIn
<1>6. NewsMarked(L) => NewsMarked(M) /\ (Head(L).mark = "news" <=> Head(L).t \in {"RING", "NO_CARRIER"})
  BY <1>1, <1>2 DEF NewsMarked
<1>7. ASSUME FinalLast(L) PROVE FinalLast(M)
  <2> SUFFICES ASSUME NEW i \in 1..Len(M), NEW j \in 1..Len(M), i < j,
                      M[i].mark = "own", M[j].mark = "own"
               PROVE  M[i].t \in ClccTexts
    BY DEF FinalLast
  <2>1. i + 1 < j + 1 /\ i + 1 \in 1..Len(L) /\ j + 1 \in 1..Len(L)
        /\ M[i] = L[i + 1] /\ M[j] = L[j + 1]
    BY <1>1, <1>2
  <2> QED
    BY <1>7, <2>1 DEF FinalLast
<1>8. FinalLast(L) /\ Head(L).mark = "own" /\ Head(L).t \notin ClccTexts => ~OwnIn(M)
  BY <1>1, <1>2 DEF FinalLast, OwnIn
<1>9. Head(L).mark = "own" => OwnIn(L)
  BY <1>1 DEF OwnIn
<1>10. Head(L).mark = "stray" => StrayIn(L)
  BY <1>1 DEF StrayIn
<1>11. NewsIn(L) => Head(L).mark = "news" \/ NewsIn(M)
  BY <1>1, <1>3 DEF NewsIn
<1>12. FinalIn(M) => FinalIn(L)
  BY <1>1, <1>2 DEF FinalIn
<1>13. Head(L).mark = "own" /\ Head(L).t \notin ClccTexts => FinalIn(L)
  BY <1>1 DEF FinalIn
<1> QED
  BY <1>1, <1>4, <1>5, <1>6, <1>7, <1>8, <1>9, <1>10, <1>11, <1>12, <1>13 DEF M

(* No lines.                                                                *)
LEMMA NoLines ==
  /\ ~OwnIn(<<>>) /\ ~StrayIn(<<>>) /\ ~FinalIn(<<>>) /\ NewsMarked(<<>>) /\ FinalLast(<<>>)
  /\ ~OwnTextIn(<<>>) /\ ~StrayTextIn(<<>>) /\ CRsApart(<<>>)
<1>1. Len(<<>>) = 0 /\ 1..0 = {} /\ 1..(0 - 1) = {}
  OBVIOUS
<1> QED
  BY <1>1 DEF OwnIn, StrayIn, FinalIn, NewsMarked, FinalLast, OwnTextIn, StrayTextIn, CRsApart

(* The lines after a command is given up: none of them is its own.          *)
LEMMA GivenUpLines ==
  ASSUME NEW a \in Seq(Lines), NEW b \in Seq(Lines)
  PROVE  LET L == a \o b
             M == StrayAll(a) \o StrayAll(b)
         IN  /\ M \in Seq(Lines) /\ ~OwnIn(M) /\ FinalLast(M)
             /\ NewsMarked(L) => NewsMarked(M)
             /\ ~OwnIn(L) /\ ~StrayIn(L) => ~StrayIn(M)
             /\ NewsIn(L) => NewsIn(M)
<1> DEFINE A == StrayAll(a)
           B == StrayAll(b)
           L == a \o b
           M == A \o B
<1>1. /\ A \in Seq(Lines) /\ Len(A) = Len(a)
      /\ \A i \in 1..Len(a) : A[i].t = a[i].t /\ A[i].mark = Stray(a[i].mark)
  BY StrayLines
<1>2. /\ B \in Seq(Lines) /\ Len(B) = Len(b)
      /\ \A i \in 1..Len(b) : B[i].t = b[i].t /\ B[i].mark = Stray(b[i].mark)
  BY StrayLines
<1> HIDE DEF A, B
<1>3. M \in Seq(Lines) /\ Len(M) = Len(L) /\ L \in Seq(Lines) /\ Len(L) = Len(a) + Len(b)
  <2>0. A \in Seq(Lines) /\ B \in Seq(Lines)
    BY <1>1, <1>2
  <2>1. M \in Seq(Lines) /\ Len(M) = Len(A) + Len(B)
    BY <2>0
  <2>2. L \in Seq(Lines) /\ Len(L) = Len(a) + Len(b)
    OBVIOUS
  <2> QED
    BY <1>1, <1>2, <2>1, <2>2
<1>4. \A i \in 1..Len(L) : M[i].t = L[i].t /\ M[i].mark = Stray(L[i].mark)
  <2> TAKE i \in 1..Len(L)
  <2>1. CASE i \in 1..Len(a)
    <3>1. M[i] = A[i] /\ L[i] = a[i]
      BY <1>1, <1>2, <2>1
    <3> QED
      BY <1>1, <2>1, <3>1
  <2>2. CASE i \notin 1..Len(a)
    <3> DEFINE j == i - Len(a)
    <3>1. j \in 1..Len(b) /\ i = Len(a) + j /\ j \in Nat
      BY <1>3, <2>2
    <3>2. M[i] = B[j] /\ L[i] = b[j]
      BY <1>1, <1>2, <3>1
    <3> QED
      BY <1>2, <3>1, <3>2
  <2> QED
    BY <2>1, <2>2
<1>5. \A i \in 1..Len(L) : L[i] \in Lines
  BY <1>3
<1>6. \A i \in 1..Len(L) : L[i].mark \in Marks
  BY <1>5 DEF Lines
<1> HIDE DEF L, M
<1>7. ~OwnIn(M)
  BY <1>3, <1>4 DEF OwnIn, Stray
<1>8. FinalLast(M)
  BY <1>7 DEF FinalLast, OwnIn
<1>9. NewsMarked(L) => NewsMarked(M)
  BY <1>3, <1>4, <1>6 DEF NewsMarked, Stray
<1>10. ~OwnIn(L) /\ ~StrayIn(L) => ~StrayIn(M)
  BY <1>3, <1>4, <1>6 DEF OwnIn, StrayIn, Stray
<1>11. NewsIn(L) => NewsIn(M)
  BY <1>3, <1>4 DEF NewsIn, Stray
<1> QED
  BY <1>3, <1>7, <1>8, <1>9, <1>10, <1>11 DEF L, M, A, B

(* The commands after one is given up.                                      *)
LEMMA GivenUpItems ==
  ASSUME NEW d \in Seq(Items), \A i \in 1..Len(d) : d[i].mark # "news"
  PROVE  LET e == StrayAll(d)
         IN  /\ ~OwnTextIn(e)
             /\ CRsApart(d) => CRsApart(e)
             /\ \A i \in 1..Len(e) : e[i].mark # "news"
             /\ \A i \in 1..Len(e) : ~(e[i].k = "text" /\ e[i].mark = "own")
             /\ d = <<>> <=> e = <<>>
             /\ ~OwnTextIn(d) /\ ~StrayTextIn(d) => ~StrayTextIn(e)
             /\ e # <<>> => e[Len(e)].k = d[Len(d)].k
<1> DEFINE e == StrayAll(d)
<1>1. /\ e \in Seq(Items) /\ Len(e) = Len(d) /\ Len(d) \in Nat
      /\ \A i \in 1..Len(d) : e[i].k = d[i].k /\ e[i].mark = Stray(d[i].mark)
  BY StrayItems
<1> HIDE DEF e
<1>2. \A i \in 1..Len(d) : d[i] \in Items
  OBVIOUS
<1>3. \A i \in 1..Len(d) : d[i].mark \in Marks
  BY <1>2 DEF Items
<1>4. \A i \in 1..Len(e) : e[i].mark # "own" /\ e[i].mark # "news"
  BY <1>1, <1>3 DEF Stray
<1>5. ~OwnTextIn(e)
  BY <1>4 DEF OwnTextIn
<1>6. CRsApart(d) => CRsApart(e)
  <2>1. \A i \in 1..(Len(d) - 1) : i \in 1..Len(d) /\ i + 1 \in 1..Len(d)
    BY <1>1
  <2> QED
    BY <1>1, <2>1 DEF CRsApart
<1>7. d = <<>> <=> e = <<>>
  BY <1>1
<1>8. ~OwnTextIn(d) /\ ~StrayTextIn(d) => ~StrayTextIn(e)
  BY <1>1, <1>3 DEF OwnTextIn, StrayTextIn, Stray
<1>9. e # <<>> => e[Len(e)].k = d[Len(d)].k
  BY <1>1
<1> QED
  BY <1>4, <1>5, <1>6, <1>7, <1>8, <1>9 DEF e

(* A command or a "\r" written.                                             *)
LEMMA AppendedItem ==
  ASSUME NEW d \in Seq(Items), NEW x \in Items, x.mark = "own"
  PROVE  LET e == Append(d, x)
         IN  /\ e # <<>> /\ e[Len(e)] = x
             /\ x.k = "cr" => (OwnTextIn(e) <=> OwnTextIn(d))
             /\ StrayTextIn(e) => StrayTextIn(d)
             /\ CRsApart(d) /\ (x.k = "cr" /\ d # <<>> => d[Len(d)].k = "text") => CRsApart(e)
             /\ (\A i \in 1..Len(d) : d[i].mark # "news") => \A i \in 1..Len(e) : e[i].mark # "news"
             /\ \A i \in 1..Len(e) : e[i] = x \/ (i \in 1..Len(d) /\ e[i] = d[i])
<1> DEFINE e == Append(d, x)
<1>1. /\ e \in Seq(Items) /\ Len(e) = Len(d) + 1 /\ Len(d) \in Nat /\ e[Len(d) + 1] = x
      /\ \A i \in 1..Len(d) : e[i] = d[i]
  OBVIOUS
<1> HIDE DEF e
<1>2. \A i \in 1..Len(e) : (i = Len(e) /\ e[i] = x) \/ (i \in 1..Len(d) /\ e[i] = d[i])
  BY <1>1
<1>3. /\ \A i \in 1..Len(d) : i \in 1..Len(e)
      /\ Len(e) \in 1..Len(e)
  BY <1>1
<1>4. e # <<>> /\ e[Len(e)] = x
  BY <1>1
<1>5. x.k = "cr" => (OwnTextIn(e) <=> OwnTextIn(d))
  BY <1>1, <1>2, <1>3 DEF OwnTextIn
<1>6. StrayTextIn(e) => StrayTextIn(d)
  BY <1>1, <1>2, <1>3 DEF StrayTextIn
<1>7. ASSUME CRsApart(d), x.k = "cr" /\ d # <<>> => d[Len(d)].k = "text" PROVE CRsApart(e)
  <2> SUFFICES ASSUME NEW i \in 1..(Len(e) - 1), e[i].k = "cr" PROVE e[i + 1].k = "text"
    BY DEF CRsApart
  <2>1. CASE i = Len(d)
    <3>1. d # <<>> /\ i \in 1..Len(d) /\ e[i] = d[i] /\ e[i + 1] = x
      BY <1>1, <2>1
    <3>2. x.k # "cr"
      BY <1>7, <2>1, <3>1
    <3> QED
      BY <3>1, <3>2 DEF Items
  <2>2. CASE i # Len(d)
    <3>1. i \in 1..(Len(d) - 1) /\ i \in 1..Len(d) /\ i + 1 \in 1..Len(d)
      BY <1>1, <2>2
    <3> QED
      BY <1>1, <1>7, <3>1 DEF CRsApart
  <2> QED
    BY <2>1, <2>2
<1>8. (\A i \in 1..Len(d) : d[i].mark # "news") => \A i \in 1..Len(e) : e[i].mark # "news"
  BY <1>2
<1> QED
  BY <1>2, <1>4, <1>5, <1>6, <1>7, <1>8 DEF e

(* A single line written, behind lines that hold no final response if it is the answer. *)
LEMMA AppendedLine ==
  ASSUME NEW L \in Seq(Lines), NEW l \in Lines, l.mark # "news",
         l.t \notin {"RING", "NO_CARRIER"}
  PROVE  LET M == L \o <<l>>
         IN  /\ OwnIn(M) <=> OwnIn(L) \/ l.mark = "own"
             /\ StrayIn(M) <=> StrayIn(L) \/ l.mark = "stray"
             /\ NewsIn(L) => NewsIn(M)
             /\ NewsMarked(L) => NewsMarked(M)
             /\ FinalIn(M) <=> FinalIn(L) \/ (l.mark = "own" /\ l.t \notin ClccTexts)
             /\ FinalLast(L) /\ ~(FinalIn(L) /\ l.mark = "own") => FinalLast(M)
<1> DEFINE r == <<l>>
           M == L \o r
<1>1. r \in Seq(Lines) /\ Len(r) = 1 /\ r[1] = l /\ 1 \in 1..Len(r)
      /\ \A i \in 1..Len(r) : i = 1
  OBVIOUS
<1>2. /\ OwnIn(M) <=> OwnIn(L) \/ OwnIn(r)
      /\ StrayIn(M) <=> StrayIn(L) \/ StrayIn(r)
      /\ NewsIn(M) <=> NewsIn(L) \/ NewsIn(r)
      /\ NewsMarked(L) /\ NewsMarked(r) => NewsMarked(M)
      /\ FinalIn(M) <=> FinalIn(L) \/ FinalIn(r)
      /\ FinalLast(L) /\ FinalLast(r) /\ ~(FinalIn(L) /\ OwnIn(r)) => FinalLast(M)
  BY <1>1, AppendedLines
<1> HIDE DEF r, M
<1>3. OwnIn(r) <=> l.mark = "own"
  BY <1>1 DEF OwnIn
<1>4. StrayIn(r) <=> l.mark = "stray"
  BY <1>1 DEF StrayIn
<1>5. FinalIn(r) <=> l.mark = "own" /\ l.t \notin ClccTexts
  BY <1>1 DEF FinalIn
<1>6. NewsMarked(r)
  BY <1>1 DEF NewsMarked
<1>7. FinalLast(r)
  BY <1>1 DEF FinalLast
<1> QED
  BY <1>2, <1>3, <1>4, <1>5, <1>6, <1>7 DEF M, r

(* The line for a state: news, or the answer of the command that waits.     *)
LEMMA NewsMarks ==
  ASSUME DaemonTypeOK, NEW s, s_wait_response # "news"
  PROVE  /\ News(s) \in Seq(Lines)
         /\ OwnIn(News(s)) => s_wait_response = "own" /\ s \in {"IDLE", "DIALING"}
         /\ StrayIn(News(s)) => s_wait_response = "stray"
         /\ NewsMarked(News(s))
         /\ FinalLast(News(s))
         /\ s = "INCOMING" \/ (s = "IDLE" /\ s_wait_response = "no") => NewsIn(News(s))
<1> DEFINE n == News(s)
<1>1. n \in Seq(Lines)
  BY NewsLines
<1>2. ASSUME NEW l \in Lines, n = <<l>>,
             l.mark = "news" <=> l.t \in {"RING", "NO_CARRIER"},
             l.mark = "own" => s_wait_response = "own" /\ s \in {"IDLE", "DIALING"},
             l.mark = "stray" => s_wait_response = "stray",
             s = "INCOMING" \/ (s = "IDLE" /\ s_wait_response = "no") => l.mark = "news"
      PROVE  /\ OwnIn(n) => s_wait_response = "own" /\ s \in {"IDLE", "DIALING"}
             /\ StrayIn(n) => s_wait_response = "stray"
             /\ NewsMarked(n) /\ FinalLast(n)
             /\ s = "INCOMING" \/ (s = "IDLE" /\ s_wait_response = "no") => NewsIn(n)
  <2>1. Len(n) = 1 /\ n[1] = l /\ 1 \in 1..Len(n) /\ \A i \in 1..Len(n) : i = 1
    BY <1>2
  <2> HIDE DEF n
  <2>2. OwnIn(n) => s_wait_response = "own" /\ s \in {"IDLE", "DIALING"}
    BY <1>2, <2>1 DEF OwnIn
  <2>3. StrayIn(n) => s_wait_response = "stray"
    BY <1>2, <2>1 DEF StrayIn
  <2>4. NewsMarked(n)
    BY <1>2, <2>1 DEF NewsMarked
  <2>5. FinalLast(n)
    BY <2>1 DEF FinalLast
  <2>6. s = "INCOMING" \/ (s = "IDLE" /\ s_wait_response = "no") => NewsIn(n)
    BY <1>2, <2>1 DEF NewsIn
  <2> QED
    BY <2>2, <2>3, <2>4, <2>5, <2>6
<1>3. CASE s = "INCOMING"
  <2> DEFINE l == Line("RING", "news")
  <2>1. l \in Lines /\ l.mark = "news" /\ l.t = "RING"
    BY DEF Line, Lines, LineTexts, Marks
  <2>2. n = <<l>>
    BY <1>3 DEF News
  <2> HIDE DEF l, n
  <2> QED
    BY <1>1, <1>2, <2>1, <2>2 DEF n
<1>4. CASE s = "IDLE" /\ s_wait_response = "no"
  <2> DEFINE l == Line("NO_CARRIER", "news")
  <2>1. l \in Lines /\ l.mark = "news" /\ l.t = "NO_CARRIER"
    BY DEF Line, Lines, LineTexts, Marks
  <2>2. n = <<l>>
    BY <1>4, Zenon DEF News
  <2> HIDE DEF l, n
  <2> QED
    BY <1>1, <1>2, <2>1, <2>2 DEF n
<1>5. CASE s \in {"IDLE", "DIALING"} /\ s_wait_response # "no"
  <2> DEFINE l == Line("OK", s_wait_response)
  <2>1. l \in Lines /\ l.mark = s_wait_response /\ l.t = "OK"
    BY <1>5 DEF Line, Lines, LineTexts, DaemonTypeOK
  <2>2. n = <<l>>
    BY <1>5 DEF News
  <2> HIDE DEF l, n
  <2> QED
    BY <1>1, <1>2, <1>5, <2>1, <2>2 DEF n
<1>6. CASE ~(s = "INCOMING") /\ ~(s = "IDLE" /\ s_wait_response = "no")
           /\ ~(s \in {"IDLE", "DIALING"} /\ s_wait_response # "no")
  <2>1. n = <<>>
    BY <1>6, Zenon DEF News
  <2> HIDE DEF n
  <2> QED
    BY <1>1, <1>6, <2>1, NoLines DEF n
<1> QED
  BY <1>3, <1>4, <1>5, <1>6
\* What says whose answer a line is.
Match == Alternating /\ Marked /\ OneAnswer /\ NoStray

(* The lines kept by the reader and those under way are lines. *)
LEMMA LinesInType ==
  ASSUME TypeOK
  PROVE  /\ s_ATBuffer \in Seq(Lines) /\ up \in Seq(Lines) /\ LinesIn \in Seq(Lines)
         /\ down \in Seq(Items)
         /\ s_ATBuffer = <<>> /\ up = <<>> => LinesIn = <<>>
<1>1. s_ATBuffer \in Seq(Lines) /\ up \in Seq(Lines) /\ down \in Seq(Items)
  BY DEF TypeOK, WireTypeOK, ChannelTypeOK
<1>2. s_ATBuffer \o up \in Seq(Lines)
  BY <1>1
<1>3. s_ATBuffer = <<>> /\ up = <<>> => s_ATBuffer \o up = <<>>
  BY <1>1
<1> QED
  BY <1>1, <1>2, <1>3 DEF LinesIn

(* With no answer to the command anywhere, there is at most one.            *)
LEMMA NothingOwn ==
  ASSUME ~OwnTextIn(down)', ~OwnIn(LinesIn)', posted' # "own", s_wait_response' # "own",
         rq' \notin {"wait", "woken"} => sp_response' = NoResponse
  PROVE  OneAnswer'
<1>1. ~OwnText' /\ ~OwnLine' /\ ~Owed' /\ ~LeftToPhone'
  BY DEF OwnText, OwnLine, Owed, LeftToPhone
<1>2. FinalLast(LinesIn)'
  BY DEF FinalLast, OwnIn
<1>3. (\A i \in 1..Len(down) : down[i].k = "text" /\ down[i].mark = "own" => down[i].cmd = cmd)'
  BY DEF OwnTextIn
<1>4. posted' = "own" => s_wait_response' # "own"
  OBVIOUS
<1> HIDE DEF OwnText, OwnLine, Owed, LeftToPhone, FinalLast
<1> QED
  BY <1>1, <1>2, <1>3, <1>4 DEF OneAnswer

(* Steps that leave the wire, the marks and the response alone; the wait    *)
(* may be signalled.                                                        *)
LEMMA SameMatch ==
  ASSUME Match, UNCHANGED <<link, down, up, s_ATBuffer, posted, replying, s_wait_response, cmd, sp_response,
                            spoiled>>,
         rq' = rq \/ (rq = "wait" /\ rq' = "woken")
  PROVE  Match'
<1>1. Alternating /\ Marked /\ OneAnswer /\ NoStray
  BY DEF Match
<1>2. LinesIn' = LinesIn
  BY DEF LinesIn
<1>3. Alternating'
  BY <1>1 DEF Alternating, CRsApart
<1>4. Marked'
  BY <1>1, <1>2 DEF Marked, NewsMarked
<1>5. /\ OwnText' = OwnText /\ OwnLine' = OwnLine /\ Owed' = Owed /\ LeftToPhone' = LeftToPhone
      /\ FinalLast(LinesIn)' = FinalLast(LinesIn) /\ FinalIn(LinesIn)' = FinalIn(LinesIn)
  BY <1>2 DEF OwnText, OwnTextIn, OwnLine, OwnIn, Owed, LeftToPhone, FinalLast, FinalIn
<1>6. ~Asking' <=> ~Asking
  BY DEF Asking
<1>7. OneAnswer'
  BY <1>1, <1>5, <1>6 DEF OneAnswer
<1>8. StrayTextIn(down)' = StrayTextIn(down) /\ StrayIn(LinesIn)' = StrayIn(LinesIn)
  BY <1>2 DEF StrayTextIn, StrayIn
<1>9. NoStray'
  BY <1>1, <1>8 DEF NoStray
<1> QED
  BY <1>3, <1>4, <1>7, <1>9 DEF Match

(* Steps of the request thread outside a command.                           *)
LEMMA RequestStepMatch ==
  ASSUME Match, RequestStep, ~Asking, rq' \notin {"cr", "wait", "woken"}
  PROVE  Match'
<1>1. Alternating /\ Marked /\ OneAnswer /\ NoStray
  BY DEF Match
<1>2. UNCHANGED <<link, down, up, s_ATBuffer, posted, replying, s_wait_response, sp_response, spoiled>>
  BY DEF RequestStep, wire, socket
<1>3. LinesIn' = LinesIn
  BY <1>2 DEF LinesIn
<1>4. Alternating'
  BY <1>1, <1>2 DEF Alternating, CRsApart
<1>5. Marked'
  BY <1>1, <1>2, <1>3 DEF Marked, NewsMarked
<1>6. ~OwnText /\ ~OwnLine /\ ~Owed /\ sp_response = NoResponse
  BY <1>1 DEF OneAnswer, Asking
<1>7. ~OwnTextIn(down)' /\ ~OwnIn(LinesIn)' /\ posted' # "own" /\ s_wait_response' # "own"
  BY <1>2, <1>3, <1>6 DEF OwnText, OwnTextIn, OwnLine, OwnIn, Owed
<1>8. OneAnswer'
  BY <1>2, <1>6, <1>7, NothingOwn DEF NoResponse
<1>9. StrayTextIn(down)' = StrayTextIn(down) /\ StrayIn(LinesIn)' = StrayIn(LinesIn)
  BY <1>2, <1>3 DEF StrayTextIn, StrayIn
<1>10. NoStray'
  BY <1>1, <1>2, <1>9 DEF NoStray
<1> QED
  BY <1>4, <1>5, <1>8, <1>10 DEF Match

(* readline: a read() of what the daemon has sent keeps the second layer (whose answers
   are under way). *)
LEMMA ReaderReadsMatch ==
  ASSUME Base, Match, ReaderReads
  PROVE  Match'
<1>0. TypeOK /\ Alternating /\ Marked /\ OneAnswer /\ NoStray
  BY BaseTypes DEF Match
<1>1. ReadLine /\ UNCHANGED <<posted, replying, s_wait_response>>
  BY DEF ReaderReads, daemon, socket
<1>2. /\ s_ATBuffer = <<>> /\ up' = <<>>
      /\ UNCHANGED <<link, down, rq, cmd, sp_response, spoiled>>
  BY <1>1 DEF ReadLine
<1>3. /\ s_ATBuffer' \in Seq(Lines) /\ Len(s_ATBuffer') <= Len(up)
      /\ \A i \in 1..Len(s_ATBuffer') : s_ATBuffer'[i] = up[i]
  BY <1>0, <1>1, ReadLinePrefix
<1>4. up \in Seq(Lines)
  BY <1>0, LinesInType
<1>5. LinesIn = up /\ LinesIn' = s_ATBuffer'
  <2>1. <<>> \o up = up
    BY <1>4
  <2>2. s_ATBuffer' \o <<>> = s_ATBuffer'
    BY <1>3
  <2> QED
    BY <1>2, <2>1, <2>2 DEF LinesIn
<1>6. /\ OwnIn(s_ATBuffer') => OwnIn(up)
      /\ StrayIn(s_ATBuffer') => StrayIn(up)
      /\ NewsMarked(up) => NewsMarked(s_ATBuffer')
      /\ FinalLast(up) => FinalLast(s_ATBuffer')
      /\ FinalIn(s_ATBuffer') => FinalIn(up)
  BY <1>3, <1>4, PrefixLines
<1>7. /\ OwnIn(LinesIn)' => OwnIn(LinesIn)
      /\ StrayIn(LinesIn)' => StrayIn(LinesIn)
      /\ NewsMarked(LinesIn) => NewsMarked(LinesIn)'
      /\ FinalLast(LinesIn) => FinalLast(LinesIn)'
      /\ FinalIn(LinesIn)' => FinalIn(LinesIn)
  BY <1>5, <1>6 DEF OwnIn, StrayIn, NewsMarked, FinalLast, FinalIn
<1>8. Alternating'
  BY <1>0, <1>2 DEF Alternating, CRsApart
<1>9. Marked'
  BY <1>0, <1>1, <1>2, <1>7 DEF Marked
<1>10. /\ OwnText' = OwnText /\ (OwnLine' => OwnLine) /\ Owed' = Owed /\ Asking' = Asking
       /\ LeftToPhone' = LeftToPhone
  BY <1>1, <1>2, <1>7 DEF OwnText, OwnTextIn, OwnLine, Owed, Asking, LeftToPhone
<1>11. OneAnswer'
  BY <1>0, <1>1, <1>2, <1>7, <1>10 DEF OneAnswer
<1>12. StrayTextIn(down)' = StrayTextIn(down)
  BY <1>2 DEF StrayTextIn
<1>13. NoStray'
  BY <1>0, <1>1, <1>2, <1>7, <1>12 DEF NoStray
<1> QED
  BY <1>8, <1>9, <1>11, <1>13 DEF Match
(* What processLine does to the response: only the first final response     *)
(* since the command was sent decides whose answer it is.                   *)
LEMMA ProcessLineResponse ==
  ASSUME TypeOK, ProcessLine
  PROVE  /\ sp_response' # NoResponse => sp_response # NoResponse
         /\ \/ sp_response'.by = sp_response.by
            \/ /\ sp_response # NoResponse
               /\ sp_response'.by = Head(s_ATBuffer).mark
               /\ Head(s_ATBuffer).t \in {"OK", "ERROR", "NO_CARRIER"}
<1> DEFINE l == Head(s_ATBuffer)
           fin == ~IsUnsolicited(l) /\ (isFinalResponseSuccess(l.t) \/ isFinalResponseError(l.t))
<1>1. sp_response \in [final : LineTexts \cup {"null", "none"},
                       by : Marks \cup {"none"}, calls : Seq(LineTexts)]
  BY DEF TypeOK, ChannelTypeOK
<1>2. sp_response' =
        CASE IsUnsolicited(l) -> sp_response
          [] fin -> [sp_response EXCEPT !.final = l.t, !.by = IF @ = "none" THEN l.mark ELSE @]
          [] OTHER -> AddIntermediate(l)
  BY DEF ProcessLine
<1>3. CASE IsUnsolicited(l)
  <2>1. sp_response' = sp_response
    BY <1>2, <1>3
  <2> QED
    BY <2>1
<1>4. CASE ~IsUnsolicited(l)
  <2>1. sp_response # NoResponse
    BY <1>4 DEF IsUnsolicited
  <2>2. CASE fin
    <3>1. sp_response' = [sp_response EXCEPT !.final = l.t, !.by = IF @ = "none" THEN l.mark ELSE @]
      BY <1>2, <1>4, <2>2
    <3>2. sp_response'.by = sp_response.by \/ sp_response'.by = l.mark
      BY <1>1, <3>1
    <3>3. l.t \in {"OK", "ERROR", "NO_CARRIER"}
      BY <2>2 DEF isFinalResponseSuccess, isFinalResponseError
    <3> QED
      BY <2>1, <3>2, <3>3
  <2>3. CASE ~fin
    <3>1. sp_response' = AddIntermediate(l)
      BY <1>2, <1>4, <2>3
    <3>2. sp_response'.by = sp_response.by
      BY <1>1, <3>1 DEF AddIntermediate
    <3> QED
      BY <2>1, <3>2
  <2> QED
    BY <2>2, <2>3
<1> QED
  BY <1>3, <1>4

(* processLine on one line keeps the second layer (whose answers are under way). *)
LEMMA ReaderLineMatch ==
  ASSUME Base, Match, ReaderLine
  PROVE  Match'
<1>0. TypeOK /\ Alternating /\ Marked /\ OneAnswer /\ NoStray
  BY BaseTypes DEF Match
<1>1. ProcessLine /\ UNCHANGED <<posted, replying, s_wait_response>>
  BY DEF ReaderLine, socket
<1>2. /\ s_ATBuffer # <<>> /\ s_ATBuffer' = Tail(s_ATBuffer)
      /\ UNCHANGED <<link, down, up, cmd, spoiled>>
  BY <1>1 DEF ProcessLine, wire
<1>3. rq' = rq \/ (rq = "wait" /\ rq' = "woken")
  BY <1>0, <1>1, ProcessLineType
<1>4. s_ATBuffer \in Seq(Lines) /\ up \in Seq(Lines) /\ LinesIn \in Seq(Lines)
  BY <1>0, LinesInType
<1>5. LinesIn # <<>> /\ LinesIn' = Tail(LinesIn) /\ Head(LinesIn) = Head(s_ATBuffer)
  BY <1>2, <1>4, SMTT(30) DEF LinesIn
<1> DEFINE l == Head(s_ATBuffer)
           L == LinesIn
           M == Tail(LinesIn)
<1>6. /\ OwnIn(M) => OwnIn(L)
      /\ StrayIn(M) => StrayIn(L)
      /\ NewsMarked(L) => NewsMarked(M)
      /\ FinalLast(L) => FinalLast(M)
      /\ FinalLast(L) /\ l.mark = "own" /\ l.t \notin ClccTexts => ~OwnIn(M)
      /\ l.mark = "own" => OwnIn(L)
      /\ FinalIn(M) => FinalIn(L)
      /\ l.mark = "own" /\ l.t \notin ClccTexts => FinalIn(L)
      /\ l.mark = "stray" => StrayIn(L)
  BY <1>4, <1>5, TailLines
<1>7. /\ OwnIn(LinesIn)' <=> OwnIn(M)
      /\ StrayIn(LinesIn)' <=> StrayIn(M)
      /\ NewsMarked(LinesIn)' <=> NewsMarked(M)
      /\ FinalLast(LinesIn)' <=> FinalLast(M)
      /\ FinalIn(LinesIn)' <=> FinalIn(M)
  BY <1>5 DEF OwnIn, StrayIn, NewsMarked, FinalLast, FinalIn
<1>8. /\ sp_response' # NoResponse => sp_response # NoResponse
      /\ \/ sp_response'.by = sp_response.by
         \/ sp_response # NoResponse /\ sp_response'.by = l.mark /\ l.t \in {"OK", "ERROR", "NO_CARRIER"}
  BY <1>0, <1>1, ProcessLineResponse
<1> HIDE DEF l, L, M
<1>9. Alternating'
  BY <1>0, <1>2, <1>3 DEF Alternating, CRsApart
<1>10. Marked'
  BY <1>0, <1>1, <1>2, <1>6, <1>7 DEF Marked, L
<1>11. /\ OwnText' = OwnText /\ (OwnLine' => OwnLine) /\ Owed' = Owed /\ Asking' = Asking
       /\ OwnLine' <=> OwnIn(M)
       /\ OwnLine <=> OwnIn(L)
       /\ LeftToPhone' = LeftToPhone
       /\ FinalIn(LinesIn)' => FinalIn(LinesIn)
  BY <1>1, <1>2, <1>3, <1>6, <1>7 DEF OwnText, OwnTextIn, OwnLine, Owed, Asking, LeftToPhone, L
<1>12. sp_response'.by = "own" => ~OwnText' /\ ~Owed' /\ ~OwnLine'
  <2>1. CASE sp_response'.by = sp_response.by
    BY <1>0, <1>11, <2>1 DEF OneAnswer
  <2>2. CASE sp_response # NoResponse /\ sp_response'.by = l.mark /\ l.t \in {"OK", "ERROR", "NO_CARRIER"}
    <3>1. l.t \notin ClccTexts
      BY <2>2 DEF ClccTexts
    <3>2. l.mark = "own" => ~OwnIn(M) /\ OwnIn(L) /\ FinalIn(LinesIn)
      BY <1>0, <1>6, <3>1 DEF OneAnswer, L
    <3>3. (OwnLine => ~OwnText) /\ (FinalIn(LinesIn) => ~Owed)
      BY <1>0 DEF OneAnswer
    <3> QED
      BY <1>11, <2>2, <3>2, <3>3
  <2> QED
    BY <1>8, <2>1, <2>2
<1>13. FinalLast(LinesIn)'
  BY <1>0, <1>6, <1>7 DEF OneAnswer, L
<1>14. rq' \notin {"wait", "woken"} => sp_response' = NoResponse
  BY <1>0, <1>3, <1>8 DEF OneAnswer
<1>15. OneAnswer'
  BY <1>0, <1>1, <1>2, <1>11, <1>12, <1>13, <1>14 DEF OneAnswer
<1>16. NoStray'
  <2>1. StrayTextIn(down)' = StrayTextIn(down) /\ (StrayIn(LinesIn)' => StrayIn(LinesIn))
    BY <1>2, <1>6, <1>7 DEF StrayTextIn, L
  <2>2. ~spoiled => sp_response'.by # "stray"
    <3>1. CASE sp_response'.by = sp_response.by
      BY <1>0, <3>1 DEF NoStray
    <3>2. CASE sp_response # NoResponse /\ sp_response'.by = l.mark
      BY <1>0, <1>6, <3>2 DEF NoStray, L
    <3> QED
      BY <1>8, <3>1, <3>2
  <2> QED
    BY <1>0, <1>1, <1>2, <1>8, <2>1, <2>2 DEF NoStray
<1> QED
  BY <1>9, <1>10, <1>15, <1>16 DEF Match

(* The channel goes away or is new: nothing is left of it.                  *)
LEMMA FreshMatch ==
  ASSUME Match, down' = <<>>, LinesIn' = <<>>, posted' # "own", s_wait_response' # "own",
         posted' \in {posted, "no"}, s_wait_response' \in {s_wait_response, "no"},
         rq' \notin {"wait", "woken"} => sp_response' = NoResponse,
         ~spoiled' => /\ sp_response'.by # "stray"
                      /\ link' = "up" => posted' # "stray" /\ s_wait_response' # "stray"
  PROVE  Match'
<1>1. Alternating /\ Marked /\ OneAnswer /\ NoStray
  BY DEF Match
<1>2. /\ ~OwnIn(LinesIn)' /\ ~StrayIn(LinesIn)' /\ NewsMarked(LinesIn)'
      /\ ~OwnTextIn(down)' /\ ~StrayTextIn(down)' /\ CRsApart(down)'
      /\ (\A i \in 1..Len(down) : down[i].mark # "news")'
  <2>1. Len(<<>>) = 0 /\ 1..0 = {} /\ 1..(0 - 1) = {}
    OBVIOUS
  <2> QED
    BY <2>1 DEF OwnIn, StrayIn, NewsMarked, OwnTextIn, StrayTextIn, CRsApart
<1>3. Alternating'
  BY <1>2 DEF Alternating
<1>4. Marked'
  BY <1>1, <1>2 DEF Marked
<1>5. OneAnswer'
  BY <1>2, NothingOwn
<1>6. NoStray'
  BY <1>2 DEF NoStray
<1> QED
  BY <1>3, <1>4, <1>5, <1>6 DEF Match

(* onATReaderClosed, with at_close, keeps the second layer (whose answers are under
   way). *)
LEMMA OnATReaderClosedMatch ==
  ASSUME Base, Match, OnATReaderClosed
  PROVE  Match'
<1>0. TypeOK /\ Connected /\ Marked /\ OneAnswer /\ NoStray
  BY BaseTypes DEF Match
<1>1. /\ rd = "closed" /\ link' = "down" /\ down' = <<>> /\ up' = <<>>
      /\ rq' = (IF rq = "wait" THEN "woken" ELSE rq)
      /\ UNCHANGED <<sp_response, s_ATBuffer, spoiled, posted, replying, s_wait_response>>
  BY DEF OnATReaderClosed, AtClose, Signal, daemon, socket
<1>2. link = "eof" /\ s_ATBuffer = <<>>
  BY <1>0, <1>1 DEF Connected
<1>3. LinesIn' = <<>>
  BY <1>1, <1>2 DEF LinesIn
<1>4. ~Owed
  BY <1>0, <1>2 DEF OneAnswer
<1>5. rq' \notin {"wait", "woken"} => sp_response' = NoResponse
  BY <1>0, <1>1 DEF OneAnswer
<1>6. ~spoiled' => sp_response'.by # "stray"
  BY <1>0, <1>1 DEF NoStray
<1>7. posted' # "own" /\ s_wait_response' # "own" /\ link' # "up"
  BY <1>1, <1>4 DEF Owed
<1> QED
  BY <1>1, <1>3, <1>5, <1>6, <1>7, FreshMatch

(* Every step of the reader keeps the second layer (whose answers are under way). *)
LEMMA ReaderNextMatch ==
  ASSUME Base, Match, ReaderNext
  PROVE  Match'
<1>1. CASE ReaderReads
  BY <1>1, ReaderReadsMatch
<1>2. CASE ReaderLine
  BY <1>2, ReaderLineMatch
<1>3. CASE ReaderEnd
  <2>1. /\ rq' = (IF rq = "wait" THEN "woken" ELSE rq)
        /\ UNCHANGED <<link, down, up, cmd, sp_response, s_ATBuffer, spoiled, posted, replying,
                       s_wait_response>>
    BY <1>3 DEF ReaderEnd, OnReaderClosed, Signal, wire, daemon, socket
  <2> QED
    BY <2>1, SameMatch
<1>4. CASE OnATReaderClosed
  BY <1>4, OnATReaderClosedMatch
<1>5. CASE ReaderRadio
  <2>1. UNCHANGED <<link, down, up, s_ATBuffer, posted, replying, s_wait_response, cmd, sp_response, spoiled,
                    rq>>
    BY <1>5 DEF ReaderRadio, wire, channel, daemon, socket
  <2> QED
    BY <2>1, SameMatch
<1> QED
  BY <1>1, <1>2, <1>3, <1>4, <1>5 DEF ReaderNext

(* Every step of mainLoop keeps the second layer (whose answers are under way). *)
LEMMA MainNextMatch ==
  ASSUME Base, Match, MainNext
  PROVE  Match'
<1>0. TypeOK /\ Connected /\ Marked /\ OneAnswer
  BY BaseTypes DEF Match
<1>1. CASE MainConnect
  <2>1. /\ link = "down" /\ link' = "up" /\ down' = <<>> /\ up' = <<>>
        /\ sp_response' = NoResponse /\ spoiled' = (s_wait_response # "no")
        /\ UNCHANGED <<s_ATBuffer, posted, replying, s_wait_response>>
    BY <1>1 DEF MainConnect, AtOpen, Accept
  <2>2. posted = "no" /\ s_ATBuffer = <<>>
    BY <1>0, <2>1 DEF Connected
  <2>3. LinesIn' = <<>>
    BY <2>1, <2>2 DEF LinesIn
  <2>4. ~Owed
    BY <1>0, <2>1 DEF OneAnswer
  <2>5. ~spoiled' => s_wait_response' = "no"
    BY <2>1
  <2>6. posted' # "own" /\ s_wait_response' # "own"
    BY <2>1, <2>4 DEF Owed
  <2>7. sp_response'.by # "stray"
    BY <2>1 DEF NoResponse
  <2> QED
    BY <2>1, <2>2, <2>3, <2>5, <2>6, <2>7, FreshMatch
<1>2. CASE MainSleeps
  <2>1. UNCHANGED <<link, down, up, s_ATBuffer, posted, replying, s_wait_response, cmd, sp_response, spoiled,
                    rq>>
    BY <1>2 DEF MainSleeps, wire, channel, daemon, socket
  <2> QED
    BY <2>1, SameMatch
<1> QED
  BY <1>1, <1>2 DEF MainNext

(* A command ends: what it is still owed is stray.  If the channel is not   *)
(* spoiled, nothing is, or it is closed.                                    *)
LEMMA CommandEndsMatch ==
  ASSUME Base, Match, NEW failed \in BOOLEAN, NEW g \in BOOLEAN, CommandEnds(failed, g),
         UNCHANGED <<posted, s_wait_response>> => ~Owed,
         link # "up" \/ g \/ (~OwnText /\ ~OwnLine /\ ~Owed)
  PROVE  Match'
<1>0. TypeOK /\ Trying /\ DaemonTypeOK /\ Alternating /\ Marked /\ OneAnswer /\ NoStray
  BY BaseTypes DEF Match
<1>1. rq' \in {"lock", "text", "sleep", "idle", "radio"}
  BY <1>0, CompletesType DEF CommandEnds
<1>2. /\ sp_response' = NoResponse /\ down' = StrayAll(down) /\ up' = StrayAll(up)
      /\ s_ATBuffer' = StrayAll(s_ATBuffer) /\ spoiled' = (spoiled \/ g) /\ link' = link
  BY DEF CommandEnds, ClearPending
<1>3. s_ATBuffer \in Seq(Lines) /\ up \in Seq(Lines) /\ down \in Seq(Items)
  BY <1>0, LinesInType
<1> DEFINE M == StrayAll(s_ATBuffer) \o StrayAll(up)
<1>4. LinesIn' = M
  BY <1>2 DEF LinesIn
<1>5. /\ ~OwnIn(M) /\ FinalLast(M)
      /\ NewsMarked(LinesIn) => NewsMarked(M)
      /\ ~OwnIn(LinesIn) /\ ~StrayIn(LinesIn) => ~StrayIn(M)
  BY <1>3, GivenUpLines DEF LinesIn
<1> HIDE DEF M
<1>6. /\ ~OwnIn(LinesIn)'
      /\ NewsMarked(LinesIn) => NewsMarked(LinesIn)'
      /\ ~OwnIn(LinesIn) /\ ~StrayIn(LinesIn) => ~StrayIn(LinesIn)'
  BY <1>4, <1>5 DEF OwnIn, StrayIn, NewsMarked
<1>7. \A i \in 1..Len(down) : down[i].mark # "news"
  BY <1>0 DEF Marked
<1> DEFINE e == StrayAll(down)
<1>8. /\ ~OwnTextIn(e)
      /\ CRsApart(down) => CRsApart(e)
      /\ \A i \in 1..Len(e) : e[i].mark # "news"
      /\ ~OwnTextIn(down) /\ ~StrayTextIn(down) => ~StrayTextIn(e)
  BY <1>3, <1>7, GivenUpItems
<1>9. down' = e
  BY <1>2
<1> HIDE DEF e
<1>10. /\ ~OwnTextIn(down)'
       /\ CRsApart(down) => CRsApart(down)'
       /\ (\A i \in 1..Len(down) : down[i].mark # "news")'
       /\ ~OwnTextIn(down) /\ ~StrayTextIn(down) => ~StrayTextIn(down)'
  BY <1>8, <1>9 DEF OwnTextIn, CRsApart, StrayTextIn
<1>11. Alternating'
  BY <1>0, <1>1, <1>10 DEF Alternating
<1>12. /\ posted' # "own" /\ s_wait_response' # "own"
       /\ posted' # "news" /\ s_wait_response' # "news"
       /\ ~Owed => UNCHANGED <<posted, s_wait_response>>
  <2>1. CASE UNCHANGED <<posted, s_wait_response>>
    BY <1>0, <2>1 DEF Owed, Marked
  <2>2. CASE DaemonStray
    BY <1>0, <2>2 DEF DaemonStray, Stray, Owed, Marked
  <2> QED
    BY <2>1, <2>2 DEF CommandEnds
<1>13. Marked'
  BY <1>0, <1>6, <1>10, <1>12 DEF Marked
<1>14. OneAnswer'
  BY <1>2, <1>6, <1>10, <1>12, NothingOwn
<1>15. NoStray'
  <2>1. sp_response'.by # "stray"
    BY <1>2 DEF NoResponse
  <2>2. CASE link # "up"
    BY <1>2, <2>1, <2>2 DEF NoStray
  <2>3. CASE g
    <3>1. spoiled'
      BY <1>2, <2>3
    <3> QED
      BY <3>1 DEF NoStray
  <2>4. CASE ~OwnText /\ ~OwnLine /\ ~Owed /\ link = "up"
    <3>1. ~spoiled' => ~spoiled
      BY <1>2
    <3>2. ~spoiled => posted # "stray" /\ s_wait_response # "stray" /\ ~StrayTextIn(down)
                      /\ ~StrayIn(LinesIn)
      BY <1>0, <2>4 DEF NoStray
    <3>3. ~spoiled => ~StrayTextIn(down)' /\ ~StrayIn(LinesIn)'
                      /\ posted' # "stray" /\ s_wait_response' # "stray"
      BY <1>6, <1>10, <1>12, <2>4, <3>2 DEF OwnText, OwnLine
    <3> QED
      BY <2>1, <3>1, <3>3 DEF NoStray
  <2> QED
    BY <2>2, <2>3, <2>4
<1> QED
  BY <1>11, <1>13, <1>14, <1>15 DEF Match

(* A command that fails, returns or times out keeps the second layer (whose answers are
   under way). *)
LEMMA SendEndsMatch ==
  ASSUME Base, Match, SendFails \/ SendReturns \/ SendTimesOut
  PROVE  Match'
<1>0. TypeOK /\ Connected /\ OneAnswer
  BY BaseTypes DEF Match
<1>1. CASE SendFails
  <2>1. CommandEnds(TRUE, FALSE) /\ UNCHANGED <<posted, s_wait_response>>
    BY <1>0, <1>1, CommandEnd
  <2>2. link # "up"
    BY <1>0, <1>1 DEF SendFails, WriteFails, Connected
  <2>3. ~Owed
    BY <1>0, <2>2 DEF OneAnswer
  <2> QED
    BY <2>1, <2>2, <2>3, CommandEndsMatch
<1>2. CASE SendReturns
  <2> DEFINE f == s_readerClosed = 1
             g == sp_response.by # "own"
  <2>1. f \in BOOLEAN /\ g \in BOOLEAN
    OBVIOUS
  <2>2. CommandEnds(f, g)
    BY <1>0, <1>2, CommandEnd
  <2>3. DaemonStray
    BY <1>2 DEF SendReturns
  <2>4. UNCHANGED <<posted, s_wait_response>> => ~Owed
    BY <2>3 DEF DaemonStray, Stray, Owed
  <2>5. g \/ (~OwnText /\ ~OwnLine /\ ~Owed)
    BY <1>0 DEF OneAnswer
  <2> HIDE DEF f, g
  <2> QED
    BY <2>1, <2>2, <2>4, <2>5, CommandEndsMatch
<1>3. CASE SendTimesOut
  <2>1. CommandEnds(TRUE, TRUE)
    BY <1>0, <1>3, CommandEnd
  <2>2. DaemonStray
    BY <1>3 DEF SendTimesOut
  <2>3. UNCHANGED <<posted, s_wait_response>> => ~Owed
    BY <2>2 DEF DaemonStray, Stray, Owed
  <2> QED
    BY <2>1, <2>3, CommandEndsMatch
<1> QED
  BY <1>1, <1>2, <1>3

(* Writing the text of a command keeps the second layer (whose answers are under way). *)
LEMMA WriteTextMatch ==
  ASSUME Base, Match, WriteText, UNCHANGED daemon
  PROVE  Match'
<1>0. TypeOK /\ ChannelTypeOK /\ Alternating /\ Marked /\ OneAnswer /\ NoStray
  BY BaseTypes DEF Match
<1>1. /\ rq \in {"lock", "text"} /\ link = "up" /\ down' = Append(down, Text(cmd)) /\ rq' = "cr"
      /\ UNCHANGED <<link, up, cmd, sp_response, s_ATBuffer, spoiled, posted, replying, s_wait_response>>
  BY DEF WriteText, daemon, socket
<1>2. LinesIn' = LinesIn
  BY <1>1 DEF LinesIn
<1>3. down \in Seq(Items)
  BY <1>0, LinesInType
<1>4. /\ Text(cmd) \in Items /\ Text(cmd).mark = "own" /\ Text(cmd).k = "text"
      /\ Text(cmd).cmd = cmd
  BY <1>0 DEF Text, Items, Marks, ChannelTypeOK
<1> DEFINE x == Text(cmd)
           e == Append(down, x)
<1> HIDE DEF x
<1>5. /\ x \in Items /\ x.mark = "own" /\ x.k = "text" /\ x.cmd = cmd /\ down' = e
  BY <1>1, <1>4 DEF x
<1>6. /\ e # <<>> /\ e[Len(e)] = x
      /\ StrayTextIn(e) => StrayTextIn(down)
      /\ CRsApart(down) => CRsApart(e)
      /\ (\A i \in 1..Len(down) : down[i].mark # "news") => \A i \in 1..Len(e) : e[i].mark # "news"
      /\ \A i \in 1..Len(e) : e[i] = x \/ (i \in 1..Len(down) /\ e[i] = down[i])
  BY <1>3, <1>5, AppendedItem
<1> HIDE DEF e
<1>7. ~OwnText /\ ~OwnLine /\ ~Owed /\ sp_response = NoResponse
  BY <1>0, <1>1 DEF OneAnswer, Asking
<1>8. Alternating'
  BY <1>0, <1>5, <1>6 DEF Alternating, CRsApart
<1>9. Marked'
  BY <1>0, <1>1, <1>2, <1>5, <1>6 DEF Marked, NewsMarked
<1>10. ~OwnLine' /\ ~Owed' /\ ~LeftToPhone' /\ FinalLast(LinesIn)' /\ Asking'
  BY <1>0, <1>1, <1>2, <1>7 DEF OwnLine, OwnIn, Owed, LeftToPhone, FinalLast, OneAnswer, Asking
<1>11. (\A i \in 1..Len(down) : down[i].k = "text" /\ down[i].mark = "own" => down[i].cmd = cmd)'
  BY <1>1, <1>5, <1>6, <1>7 DEF OwnText, OwnTextIn
<1>12. sp_response'.by # "own"
  BY <1>1, <1>7 DEF NoResponse
<1>13. posted' = "own" => s_wait_response' # "own"
  BY <1>10 DEF Owed
<1>14. OneAnswer'
  BY <1>1, <1>7, <1>10, <1>11, <1>12, <1>13 DEF OneAnswer
<1>15. StrayIn(LinesIn)' = StrayIn(LinesIn) /\ (StrayTextIn(down)' => StrayTextIn(down))
  BY <1>2, <1>5, <1>6 DEF StrayIn, StrayTextIn
<1>16. NoStray'
  BY <1>0, <1>1, <1>15 DEF NoStray
<1> QED
  BY <1>8, <1>9, <1>14, <1>16 DEF Match

(* Writing the carriage return behind it keeps the second layer (whose answers are
   under way). *)
LEMMA WriteCRMatch ==
  ASSUME Base, Match, WriteCR, UNCHANGED daemon
  PROVE  Match'
<1>0. TypeOK /\ Alternating /\ Marked /\ OneAnswer /\ NoStray
  BY BaseTypes DEF Match
<1>1. /\ rq = "cr" /\ link = "up" /\ down' = Append(down, CR) /\ rq' \in {"wait", "woken"}
      /\ sp_response' = NewResponse
      /\ UNCHANGED <<link, up, cmd, s_ATBuffer, spoiled, posted, replying, s_wait_response>>
  BY DEF WriteCR, daemon, socket
<1>2. LinesIn' = LinesIn
  BY <1>1 DEF LinesIn
<1>3. down \in Seq(Items)
  BY <1>0, LinesInType
<1> DEFINE x == CR
           e == Append(down, x)
<1>4. x \in Items /\ x.mark = "own" /\ x.k = "cr" /\ down' = e
  BY <1>1 DEF CR, Items, Marks
<1> HIDE DEF x
<1>5. down # <<>> => down[Len(down)].k = "text"
  BY <1>0, <1>1 DEF Alternating
<1>6. /\ OwnTextIn(e) <=> OwnTextIn(down)
      /\ StrayTextIn(e) => StrayTextIn(down)
      /\ CRsApart(down) => CRsApart(e)
      /\ (\A i \in 1..Len(down) : down[i].mark # "news") => \A i \in 1..Len(e) : e[i].mark # "news"
      /\ \A i \in 1..Len(e) : e[i] = x \/ (i \in 1..Len(down) /\ e[i] = down[i])
  BY <1>3, <1>4, <1>5, AppendedItem
<1> HIDE DEF e
<1>7. Alternating'
  BY <1>0, <1>1, <1>4, <1>6 DEF Alternating, CRsApart
<1>8. Marked'
  BY <1>0, <1>1, <1>2, <1>4, <1>6 DEF Marked, NewsMarked
<1>9. /\ OwnText' <=> OwnText
      /\ OwnLine' = OwnLine /\ Owed' = Owed /\ FinalLast(LinesIn)' = FinalLast(LinesIn)
      /\ FinalIn(LinesIn)' = FinalIn(LinesIn) /\ LeftToPhone' = LeftToPhone
      /\ Asking'
  BY <1>1, <1>2, <1>4, <1>6 DEF OwnText, OwnTextIn, OwnLine, OwnIn, Owed, LeftToPhone, FinalLast,
                                FinalIn, Asking
<1>10. (\A i \in 1..Len(down) : down[i].k = "text" /\ down[i].mark = "own" => down[i].cmd = cmd)'
  BY <1>0, <1>1, <1>4, <1>6 DEF OneAnswer
<1>11. sp_response'.by = "none"
  BY <1>1 DEF NewResponse
<1>12. OneAnswer'
  BY <1>0, <1>1, <1>9, <1>10, <1>11 DEF OneAnswer
<1>13. StrayIn(LinesIn)' = StrayIn(LinesIn) /\ (StrayTextIn(down)' => StrayTextIn(down))
  BY <1>2, <1>4, <1>6 DEF StrayIn, StrayTextIn
<1>14. NoStray'
  BY <1>0, <1>1, <1>11, <1>13 DEF NoStray
<1> QED
  BY <1>7, <1>8, <1>12, <1>14 DEF Match

(* Every step of the request thread keeps the second layer (whose answers are under
   way). *)
LEMMA RequestNextMatch ==
  ASSUME Base, Match, RequestNext
  PROVE  Match'
<1>1. CASE InitializeCallback
  <2>1. RequestStep /\ rq = "idle" /\ rq' = "lock"
    BY <1>1 DEF InitializeCallback, RequestStep, AtSend, daemon
  <2> QED
    BY <2>1, RequestStepMatch DEF Asking
<1>2. CASE SendCallStateChanged
  <2>1. RequestStep /\ rq = "idle" /\ rq' = rq
    BY <1>2 DEF SendCallStateChanged, RequestStep, channel
  <2> QED
    BY <2>1, RequestStepMatch DEF Asking
<1>3. CASE SendStep
  <2>1. UNCHANGED daemon /\ UNCHANGED driver
    BY <1>3 DEF SendStep
  <2>2. CASE WriteText
    BY <2>1, <2>2, WriteTextMatch
  <2>3. CASE WriteCR
    BY <2>1, <2>3, WriteCRMatch
  <2>4. CASE HandshakePause
    <3>1. RequestStep /\ rq = "sleep" /\ rq' = "lock"
      BY <2>1, <2>4 DEF HandshakePause, RequestStep, AtSend, daemon, driver
    <3> QED
      BY <3>1, RequestStepMatch DEF Asking
  <2> QED
    BY <1>3, <2>2, <2>3, <2>4 DEF SendStep
<1>4. CASE SendFails \/ SendReturns \/ SendTimesOut
  BY <1>4, SendEndsMatch
<1>5. CASE RadioOn
  <2>1. RequestStep /\ rq = "radio" /\ rq' \in {"poll", "idle"}
    BY <1>5 DEF RadioOn, RequestStep, daemon
  <2> QED
    BY <2>1, RequestStepMatch DEF Asking
<1>6. CASE PollSIMState
  <2>1. RequestStep /\ rq = "poll" /\ rq' = "idle"
    BY <1>6 DEF PollSIMState, RequestStep
  <2> QED
    BY <2>1, RequestStepMatch DEF Asking
<1> QED
  BY <1>1, <1>2, <1>3, <1>4, <1>5, <1>6 DEF RequestNext, SendNext

(* Every request of the framework keeps the second layer (whose answers are under way). *)
LEMMA RequestsMatch ==
  ASSUME Base, Match, NEW r, RequestLocal(r) \/ RequestCommand(r)
  PROVE  Match'
<1>1. CASE RequestLocal(r)
  <2>1. RequestStep /\ rq = "idle"
    BY <1>1 DEF RequestLocal, RequestStep, daemon
  <2>2. rq' \in {rq, "radio"}
    <3>1. CASE Refused(r)
      BY <1>1, <3>1 DEF RequestLocal
    <3>2. CASE ~Refused(r)
      <4>1. RadioPower(r)
        BY <1>1, <3>2 DEF RequestLocal
      <4> QED
        BY <4>1 DEF RadioPower
    <3> QED
      BY <3>1, <3>2
  <2> QED
    BY <2>1, <2>2, RequestStepMatch DEF Asking
<1>2. CASE RequestCommand(r)
  <2>1. RequestStep /\ rq = "idle" /\ rq' = "lock"
    BY <1>2 DEF RequestCommand, RequestStep, daemon, AtSend
  <2> QED
    BY <2>1, RequestStepMatch DEF Asking
<1> QED
  BY <1>1, <1>2
(* A daemon that finds the driver gone leaves nothing behind.               *)
LEMMA GoneMatch ==
  ASSUME Base, Match, DaemonStep, DaemonRestart, up' = <<>>, link = "gone"
  PROVE  Match'
<1>0. Connected /\ OneAnswer /\ NoStray
  BY BaseTypes DEF Match
<1>1. /\ UNCHANGED <<rq, sp_response, s_ATBuffer, spoiled>>
      /\ down' = <<>> /\ posted' = "no" /\ s_wait_response' = "no"
  BY DEF DaemonStep, DaemonRestart
<1>2. s_ATBuffer = <<>>
  BY <1>0 DEF Connected
<1>3. LinesIn' = <<>>
  BY <1>1, <1>2 DEF LinesIn
<1>4. rq' \notin {"wait", "woken"} => sp_response' = NoResponse
  BY <1>0, <1>1 DEF OneAnswer
<1>5. ~spoiled' => sp_response'.by # "stray"
  BY <1>0, <1>1 DEF NoStray
<1> QED
  BY <1>1, <1>3, <1>4, <1>5, FreshMatch

(* The command the daemon answers is one of those that wait to be read.     *)
LEMMA AnsweredText ==
  ASSUME TypeOK, Alternating, Marked, down # <<>>, ~OnlyCR(down)
  PROVE  /\ AnswerMark(down) \in Marks /\ AnswerMark(down) # "news"
         /\ AnswerMark(down) = "own" => OwnTextIn(down)
         /\ AnswerMark(down) = "stray" => StrayTextIn(down)
<1>1. down \in Seq(Items) /\ Len(down) \in Nat /\ Len(down) > 0
  BY DEF TypeOK, WireTypeOK
<1>2. AnswerMark(down) \in Marks
  BY AnswerMarkType
<1>3. Head(down) = down[1] /\ 1 \in 1..Len(down) /\ down[1] \in Items
  BY <1>1
<1>4. \E i \in 1..Len(down) : down[i].k = "text" /\ AnswerMark(down) = down[i].mark
  <2>1. CASE Head(down).k = "text"
    BY <1>3, <2>1 DEF AnswerMark
  <2>2. CASE Head(down).k # "text"
    <3>1. down[1].k = "cr"
      BY <1>3, <2>2 DEF Items
    <3>2. Len(down) # 1
      BY <1>3, <3>1 DEF OnlyCR
    <3>3. 2 \in 1..Len(down) /\ 1 \in 1..(Len(down) - 1) /\ 1 + 1 = 2
      <4> DEFINE n == Len(down)
      <4>1. n \in Nat /\ n > 0 /\ n # 1
        BY <1>1, <3>2
      <4> HIDE DEF n
      <4>2. 2 \in 1..n /\ 1 \in 1..(n - 1)
        BY <4>1
      <4> QED
        BY <4>2 DEF n
    <3>4. down[1 + 1].k = "text"
      BY <3>1, <3>3 DEF Alternating, CRsApart
    <3>5. AnswerMark(down) = down[2].mark
      BY <2>2 DEF AnswerMark
    <3> QED
      BY <3>3, <3>4, <3>5
  <2> QED
    BY <2>1, <2>2
<1>5. PICK i \in 1..Len(down) : down[i].k = "text" /\ AnswerMark(down) = down[i].mark
  BY <1>4
<1>6. down[i].mark # "news"
  BY <1>5 DEF Marked
<1> QED
  BY <1>2, <1>5, <1>6 DEF OwnTextIn, StrayTextIn

(* processCommandsCallback on what it has read keeps the second layer (whose answers are
   under way). *)
LEMMA ProcessCommandsMatch ==
  ASSUME Base, Match, ProcessCommands, UNCHANGED channel, UNCHANGED driver
  PROVE  Match'
<1>0. TypeOK /\ Alternating /\ Marked /\ OneAnswer /\ NoStray
  BY BaseTypes DEF Match
<1>1. DaemonStep
  BY DEF DaemonStep, channel
<1> DEFINE c == Executes(down)
           m == AnswerMark(down)
<1>4. PICK ok \in BOOLEAN : ProcessCommand(c, ok)
  BY DEF ProcessCommands
<1>2. CASE link = "gone" /\ ~Unanswered(down, ok)
  <2>1. DaemonRestart /\ up' = <<>>
    BY <1>2, <1>4 DEF ProcessCommand
  <2> QED
    BY <1>1, <1>2, <2>1, GoneMatch
<1>3. CASE ~(link = "gone" /\ ~Unanswered(down, ok))
  <2> DEFINE l == Reply(c, ok, m)
             w == Waits(c) /\ ok
  <2>0. down # <<>> /\ posted = "no" /\ link \in {"up", "gone"}
    BY DEF ProcessCommands
  <2>1. /\ down # <<>> /\ down' = <<>> /\ posted = "no"
        /\ up' = (IF Unanswered(down, ok) THEN up ELSE Append(up, l))
        /\ posted' = (IF w \/ Lists(c) THEN m ELSE "no")
        /\ replying' = Lists(c)
        /\ UNCHANGED <<link, s_wait_response>>
        /\ link \in {"up", "gone"}
    BY <1>3, <1>4, <2>0 DEF ProcessCommand
  <2>2. UNCHANGED <<rq, cmd, sp_response, s_ATBuffer, spoiled>>
    BY <1>1 DEF DaemonStep
  <2>3. ~OnlyCR(down) => /\ m \in Marks /\ m # "news"
                         /\ m = "own" => OwnTextIn(down)
                         /\ m = "stray" => StrayTextIn(down)
    BY <1>0, <2>1, AnsweredText
  <2>4. /\ w => ~OnlyCR(down) /\ Unanswered(down, ok)
        /\ Lists(c) => ~Unanswered(down, ok)
        /\ Unanswered(down, ok) /\ ~OnlyCR(down) => w
    BY DEF Waits, Lists, Executes, OnlyCR, Unanswered
  <2>5. ~Unanswered(down, ok) => ~OnlyCR(down) /\ link = "up"
    BY <1>3, <2>1 DEF Unanswered
  <2>6. /\ ~OwnTextIn(down)' /\ ~StrayTextIn(down)' /\ CRsApart(down)'
        /\ (\A i \in 1..Len(down) : down[i].mark # "news")'
        /\ (\A i \in 1..Len(down) : down[i].k = "text" /\ down[i].mark = "own" => down[i].cmd = cmd)'
    <3>1. Len(<<>>) = 0 /\ 1..0 = {} /\ 1..(0 - 1) = {}
      OBVIOUS
    <3> QED
      BY <2>1, <3>1 DEF OwnTextIn, StrayTextIn, CRsApart
  <2>7. w /\ m = "own" => c = cmd
    <3>1. ASSUME Waits(c), m = "own" PROVE c = cmd
      <4>1. Head(down).k = "text" /\ c = Head(down).cmd /\ m = Head(down).mark
        BY <3>1 DEF Waits, Executes, AnswerMark
      <4>2. down \in Seq(Items)
        BY <1>0, LinesInType
      <4>3. Head(down) = down[1] /\ 1 \in 1..Len(down)
        BY <2>1, <4>2
      <4> QED
        BY <1>0, <3>1, <4>1, <4>3 DEF OneAnswer
    <3> QED
      BY <3>1
  <2>8. s_ATBuffer \in Seq(Lines) /\ up \in Seq(Lines) /\ LinesIn \in Seq(Lines)
    BY <1>0, LinesInType
  <2>9. w => c \in {"ATD", "CHLD"}
    BY DEF Waits
  <2>12. ~OnlyCR(down) => /\ l \in Lines /\ l.mark = m /\ l.t \notin {"RING", "NO_CARRIER"}
                          /\ Lists(c) => l.t \in ClccTexts
    <3>1. ASSUME ~OnlyCR(down) PROVE m \in Marks
      BY <2>3, <3>1
    <3> QED
      BY <3>1, ReplyLine
  <2> HIDE DEF c, m, l, w
  <2>13. /\ OwnText => ~Owed /\ ~OwnLine /\ link = "up" /\ sp_response.by # "own" /\ Asking
         /\ s_wait_response = "own" => Owed /\ LeftToPhone
         /\ ~Asking => ~OwnText /\ ~OwnLine /\ ~Owed
    BY <1>0 DEF OneAnswer, Owed, LeftToPhone
  <2>14. Owed' => (posted' = "own" \/ s_wait_response = "own")
    BY <2>1 DEF Owed
  <2>15. ~OwnText' /\ Asking' = Asking
    BY <2>2, <2>6 DEF OwnText, Asking
  <2>16. rq' \notin {"wait", "woken"} => sp_response' = NoResponse
    BY <1>0, <2>2 DEF OneAnswer
  <2>17. Alternating'
    BY <2>1, <2>6 DEF Alternating
  <2>10. CASE Unanswered(down, ok)
    <3>1. LinesIn' = LinesIn
      BY <2>1, <2>2, <2>10 DEF LinesIn
    <3>2. /\ OwnLine' = OwnLine /\ StrayIn(LinesIn)' = StrayIn(LinesIn)
          /\ FinalLast(LinesIn)' = FinalLast(LinesIn) /\ NewsMarked(LinesIn)' = NewsMarked(LinesIn)
          /\ FinalIn(LinesIn)' = FinalIn(LinesIn)
          /\ FinalIn(LinesIn) => OwnLine
      BY <3>1 DEF OwnLine, OwnIn, StrayIn, FinalLast, FinalIn, NewsMarked
    <3>3. /\ posted' = "own" => OwnText /\ cmd \in {"ATD", "CHLD"}
          /\ posted' = "stray" => StrayTextIn(down)
          /\ posted' # "news"
      BY <2>1, <2>3, <2>4, <2>7, <2>9, <2>10 DEF OwnText
    <3>5. Marked'
      BY <1>0, <2>1, <2>6, <3>2, <3>3 DEF Marked
    <3>6. OneAnswer'
      <4>5. ~Asking' => ~OwnText' /\ ~OwnLine' /\ ~Owed'
        BY <2>13, <2>14, <2>15, <3>2, <3>3
      <4>7. posted' = "own" => s_wait_response' # "own"
        BY <2>1, <2>13, <3>3
      <4>8. Owed' => ~FinalIn(LinesIn)' /\ link' = "up"
        <5>1. CASE posted' = "own"
          BY <2>1, <2>13, <3>2, <3>3, <5>1
        <5>2. CASE s_wait_response = "own"
          BY <1>0, <2>1, <2>13, <3>2, <5>2 DEF OneAnswer
        <5> QED
          BY <2>14, <5>1, <5>2
      <4>11. LeftToPhone' => cmd' \in {"ATD", "CHLD"}
        <5>1. CASE posted' = "own"
          BY <2>2, <3>3, <5>1
        <5>2. CASE s_wait_response = "own"
          BY <1>0, <2>2, <2>13, <5>2 DEF OneAnswer
        <5>3. LeftToPhone' => posted' = "own" \/ s_wait_response = "own"
          BY <2>1 DEF LeftToPhone
        <5> QED
          BY <5>1, <5>2, <5>3
      <4>9. sp_response'.by = "own" => ~OwnText' /\ ~Owed' /\ ~OwnLine'
        <5>1. sp_response.by = "own" => ~OwnText /\ ~Owed /\ ~OwnLine
          BY <1>0 DEF OneAnswer
        <5> QED
          BY <2>2, <2>13, <2>14, <2>15, <3>2, <3>3, <5>1
      <4>10. FinalLast(LinesIn)'
        BY <1>0, <3>2 DEF OneAnswer
      <4> QED
        BY <2>6, <2>15, <2>16, <4>5, <4>7, <4>8, <4>9, <4>10, <4>11 DEF OneAnswer
    <3>7. NoStray'
      BY <1>0, <2>1, <2>2, <2>6, <3>2, <3>3 DEF NoStray
    <3> QED
      BY <2>17, <3>5, <3>6, <3>7 DEF Match
  <2>11. CASE ~Unanswered(down, ok)
    <3>1. /\ ~w /\ ~OnlyCR(down) /\ link = "up" /\ up' = Append(up, l)
          /\ posted' = (IF Lists(c) THEN m ELSE "no")
      BY <2>1, <2>4, <2>5, <2>11
    <3>2. /\ l \in Lines /\ l.mark = m /\ m # "news" /\ l.t \notin {"RING", "NO_CARRIER"}
          /\ Lists(c) => l.t \in ClccTexts
          /\ m = "own" => OwnText
          /\ m = "stray" => StrayTextIn(down)
      BY <2>3, <2>12, <3>1 DEF OwnText
    <3> DEFINE M == LinesIn \o <<l>>
    <3>3. LinesIn' = M
      BY <2>2, <2>8, <3>1, <3>2 DEF LinesIn
    <3>4. /\ OwnIn(M) <=> OwnIn(LinesIn) \/ l.mark = "own"
          /\ StrayIn(M) <=> StrayIn(LinesIn) \/ l.mark = "stray"
          /\ NewsMarked(LinesIn) => NewsMarked(M)
          /\ FinalIn(M) <=> FinalIn(LinesIn) \/ (l.mark = "own" /\ l.t \notin ClccTexts)
          /\ FinalLast(LinesIn) /\ ~(FinalIn(LinesIn) /\ l.mark = "own") => FinalLast(M)
      BY <2>8, <3>2, AppendedLine
    <3> HIDE DEF M
    <3>5. /\ OwnIn(LinesIn)' <=> OwnIn(M)
          /\ StrayIn(LinesIn)' <=> StrayIn(M)
          /\ NewsMarked(LinesIn)' <=> NewsMarked(M)
          /\ FinalIn(LinesIn)' <=> FinalIn(M)
          /\ FinalLast(LinesIn)' <=> FinalLast(M)
      BY <3>3 DEF OwnIn, StrayIn, NewsMarked, FinalIn, FinalLast
    <3>6. FinalIn(LinesIn) => OwnLine
      BY DEF FinalIn, OwnLine, OwnIn
    <3>7. /\ OwnLine' => OwnLine \/ m = "own"
          /\ FinalLast(LinesIn)' /\ NewsMarked(LinesIn)'
          /\ FinalIn(LinesIn)' => FinalIn(LinesIn) \/ (m = "own" /\ ~Lists(c))
      BY <1>0, <2>13, <3>2, <3>4, <3>5, <3>6 DEF OwnLine, OneAnswer, Marked
    <3>8. posted' # "news" /\ (posted' = "own" => m = "own" /\ Lists(c) /\ replying')
          /\ (posted' = "stray" => m = "stray")
      BY <2>1, <3>1, <3>2
    <3>9. Marked'
      BY <1>0, <2>1, <2>6, <3>7, <3>8 DEF Marked
    <3>10. OneAnswer'
      <4>2. ~Asking' => ~OwnText' /\ ~OwnLine' /\ ~Owed'
        BY <2>13, <2>14, <2>15, <3>2, <3>7, <3>8
      <4>4. Owed' => ~FinalIn(LinesIn)' /\ link' = "up"
        <5>1. CASE m = "own"
          BY <2>1, <2>13, <2>14, <3>1, <3>2, <3>6, <3>7, <3>8, <5>1
        <5>2. CASE m # "own"
          BY <1>0, <2>1, <2>13, <2>14, <3>1, <3>7, <3>8, <5>2 DEF OneAnswer
        <5> QED
          BY <5>1, <5>2
      <4>5. sp_response'.by = "own" => ~OwnText' /\ ~Owed' /\ ~OwnLine'
        <5>1. sp_response.by = "own" => ~OwnText /\ ~Owed /\ ~OwnLine
          BY <1>0 DEF OneAnswer
        <5> QED
          BY <2>2, <2>13, <2>14, <2>15, <3>2, <3>7, <3>8, <5>1
      <4>6. posted' = "own" => s_wait_response' # "own"
        BY <2>1, <2>13, <3>2, <3>8
      <4>7. LeftToPhone' => cmd' \in {"ATD", "CHLD"}
        <5>1. LeftToPhone' => s_wait_response = "own"
          BY <2>1, <3>8 DEF LeftToPhone
        <5> QED
          BY <1>0, <2>2, <2>13, <5>1 DEF OneAnswer
      <4> QED
        BY <2>6, <2>15, <2>16, <3>7, <4>2, <4>4, <4>5, <4>6, <4>7 DEF OneAnswer
    <3>11. NoStray'
      <4>1. StrayIn(LinesIn)' => StrayIn(LinesIn) \/ StrayTextIn(down)
        BY <3>2, <3>4, <3>5
      <4> QED
        BY <1>0, <2>1, <2>2, <2>6, <3>1, <3>2, <3>8, <4>1 DEF NoStray
    <3> QED
      BY <2>17, <3>9, <3>10, <3>11 DEF Match
  <2> QED
    BY <2>10, <2>11
<1> QED
  BY <1>2, <1>3

(* The result behind the line of a call keeps the second layer (whose answers are under
   way). *)
LEMMA WriteResultMatch ==
  ASSUME Base, Match, DaemonStep, WriteResult
  PROVE  Match'
<1>0. TypeOK /\ DaemonTypeOK /\ Connected /\ Alternating /\ Marked /\ OneAnswer /\ NoStray
  BY BaseTypes DEF Match
<1>1. CASE link = "gone"
  <2>1. DaemonRestart /\ up' = <<>>
    BY <1>1 DEF WriteResult
  <2> QED
    BY <1>1, <2>1, GoneMatch
<1>2. CASE link # "gone"
  <2> DEFINE l == Line("OK", posted)
             M == LinesIn \o <<l>>
  <2>1. /\ posted # "no" /\ up' = Append(up, l) /\ posted' = "no"
        /\ UNCHANGED <<link, down, s_wait_response, rq, cmd, sp_response, s_ATBuffer, spoiled>>
    BY <1>2 DEF WriteResult, DaemonStep
  <2>2. l \in Lines /\ l.mark = posted /\ l.mark # "news" /\ l.t \notin {"RING", "NO_CARRIER"}
        /\ l.t \notin ClccTexts /\ link = "up"
    <3>1. posted \in Marks /\ posted # "news" /\ link = "up"
      BY <1>0, <1>2, <2>1 DEF DaemonTypeOK, Marked, Connected
    <3> QED
      BY <3>1 DEF Line, Lines, LineTexts, ClccTexts
  <2> HIDE DEF l
  <2>3. s_ATBuffer \in Seq(Lines) /\ up \in Seq(Lines) /\ LinesIn \in Seq(Lines)
    BY <1>0, LinesInType
  <2>4. LinesIn' = M
    BY <2>1, <2>2, <2>3 DEF LinesIn
  <2>5. /\ OwnIn(M) <=> OwnIn(LinesIn) \/ l.mark = "own"
        /\ StrayIn(M) <=> StrayIn(LinesIn) \/ l.mark = "stray"
        /\ NewsMarked(LinesIn) => NewsMarked(M)
        /\ FinalIn(M) <=> FinalIn(LinesIn) \/ (l.mark = "own" /\ l.t \notin ClccTexts)
        /\ FinalLast(LinesIn) /\ ~(FinalIn(LinesIn) /\ l.mark = "own") => FinalLast(M)
    BY <2>2, <2>3, AppendedLine
  <2> HIDE DEF M
  <2>6. /\ OwnIn(LinesIn)' <=> OwnIn(M)
        /\ StrayIn(LinesIn)' <=> StrayIn(M)
        /\ NewsMarked(LinesIn)' <=> NewsMarked(M)
        /\ FinalIn(LinesIn)' <=> FinalIn(M)
        /\ FinalLast(LinesIn)' <=> FinalLast(M)
    BY <2>4 DEF OwnIn, StrayIn, NewsMarked, FinalIn, FinalLast
  <2>7. posted = "own" => /\ Owed /\ ~OwnText /\ ~FinalIn(LinesIn) /\ Asking
                          /\ sp_response.by # "own" /\ ~Owed'
    <3>1. posted = "own" => Owed /\ s_wait_response # "own"
      BY <1>0 DEF OneAnswer, Owed
    <3>2. posted = "own" => ~Owed'
      BY <2>1, <3>1 DEF Owed
    <3> QED
      BY <1>0, <3>1, <3>2 DEF OneAnswer
  <2>8. /\ OwnLine' => OwnLine \/ posted = "own"
        /\ FinalIn(LinesIn)' => FinalIn(LinesIn) \/ posted = "own"
        /\ FinalLast(LinesIn)' /\ NewsMarked(LinesIn)'
    BY <1>0, <2>2, <2>5, <2>6, <2>7 DEF OwnLine, OneAnswer, Marked
  <2>9. Alternating'
    BY <1>0, <2>1 DEF Alternating, CRsApart
  <2>10. Marked'
    BY <1>0, <2>1, <2>8 DEF Marked
  <2>11. OneAnswer'
    <3>1. /\ OwnText' = OwnText /\ Asking' = Asking /\ (Owed' => Owed)
          /\ LeftToPhone' => LeftToPhone
      BY <2>1 DEF OwnText, OwnTextIn, Asking, Owed, LeftToPhone
    <3>2. ~Asking' => ~OwnText' /\ ~OwnLine' /\ ~Owed'
      BY <1>0, <2>7, <2>8, <3>1 DEF OneAnswer
    <3>3. rq' \notin {"wait", "woken"} => sp_response' = NoResponse
      BY <1>0, <2>1 DEF OneAnswer
    <3>4. OwnText' => ~Owed' /\ ~OwnLine' /\ link' = "up"
      BY <1>0, <2>1, <2>7, <2>8, <3>1 DEF OneAnswer
    <3>5. Owed' => ~FinalIn(LinesIn)' /\ link' = "up"
      BY <1>0, <2>1, <2>7, <2>8, <3>1 DEF OneAnswer
    <3>6. sp_response'.by = "own" => ~OwnText' /\ ~Owed' /\ ~OwnLine'
      BY <1>0, <2>1, <2>7, <2>8, <3>1 DEF OneAnswer
    <3>7. (\A i \in 1..Len(down) : down[i].k = "text" /\ down[i].mark = "own" => down[i].cmd = cmd)'
      BY <1>0, <2>1 DEF OneAnswer
    <3>8. LeftToPhone' => cmd' \in {"ATD", "CHLD"}
      BY <1>0, <2>1, <3>1 DEF OneAnswer
    <3>9. posted' # "own"
      BY <2>1
    <3> QED
      BY <2>8, <3>2, <3>3, <3>4, <3>5, <3>6, <3>7, <3>8, <3>9 DEF OneAnswer
  <2>12. NoStray'
    <3>1. StrayTextIn(down)' = StrayTextIn(down)
      BY <2>1 DEF StrayTextIn
    <3>2. StrayIn(LinesIn)' => StrayIn(LinesIn) \/ posted = "stray"
      BY <2>2, <2>5, <2>6
    <3> QED
      BY <1>0, <2>1, <2>2, <3>1, <3>2 DEF NoStray
  <2> QED
    BY <2>9, <2>10, <2>11, <2>12 DEF Match
<1> QED
  BY <1>1, <1>2

(* A state entered: its line answers the command that waits, or is news.    *)
LEMMA EnterMatch ==
  ASSUME Base, Match, DaemonStep, NEW s, Enter(s)
  PROVE  Match'
<1>0. TypeOK /\ DaemonTypeOK /\ Alternating /\ Marked /\ OneAnswer /\ NoStray
  BY BaseTypes DEF Match
<1> DEFINE n == News(s)
           r == IF link = "up" THEN n ELSE <<>>
           M == LinesIn \o r
<1>1. /\ UNCHANGED <<rq, cmd, sp_response, s_ATBuffer, spoiled, link, down, posted, replying>>
      /\ up' = (IF link = "up" THEN up \o n ELSE up)
      /\ s_wait_response' = (IF s \in {"IDLE", "DIALING"} THEN "no" ELSE s_wait_response)
  BY DEF DaemonStep, Enter
<1>2. /\ n \in Seq(Lines)
      /\ OwnIn(n) => s_wait_response = "own" /\ s \in {"IDLE", "DIALING"}
      /\ StrayIn(n) => s_wait_response = "stray"
      /\ NewsMarked(n) /\ FinalLast(n)
  <2>1. s_wait_response # "news"
    BY <1>0 DEF Marked
  <2> QED
    BY <1>0, <2>1, NewsMarks
<1> HIDE DEF n
<1>3. s_ATBuffer \in Seq(Lines) /\ up \in Seq(Lines) /\ LinesIn \in Seq(Lines)
  BY <1>0, LinesInType
<1>4. /\ r \in Seq(Lines)
      /\ OwnIn(r) => s_wait_response = "own" /\ s \in {"IDLE", "DIALING"}
      /\ StrayIn(r) => s_wait_response = "stray" /\ link = "up"
      /\ NewsMarked(r) /\ FinalLast(r)
  <2>1. CASE link = "up"
    BY <1>2, <2>1
  <2>2. CASE link # "up"
    BY <2>2, NoLines
  <2> QED
    BY <2>1, <2>2
<1>5. LinesIn' = M
  <2>1. CASE link = "up"
    BY <1>1, <1>2, <1>3, <2>1, SMTT(30) DEF LinesIn
  <2>2. CASE link # "up"
    <3>1. LinesIn \o <<>> = LinesIn
      BY <1>3
    <3>2. LinesIn' = LinesIn
      BY <1>1, <2>2 DEF LinesIn
    <3> QED
      BY <2>2, <3>1, <3>2
  <2> QED
    BY <2>1, <2>2
<1> HIDE DEF r
<1>6. /\ OwnIn(M) <=> OwnIn(LinesIn) \/ OwnIn(r)
      /\ StrayIn(M) <=> StrayIn(LinesIn) \/ StrayIn(r)
      /\ NewsMarked(LinesIn) /\ NewsMarked(r) => NewsMarked(M)
      /\ FinalIn(M) <=> FinalIn(LinesIn) \/ FinalIn(r)
      /\ FinalLast(LinesIn) /\ FinalLast(r) /\ ~(FinalIn(LinesIn) /\ OwnIn(r)) => FinalLast(M)
  BY <1>3, <1>4, AppendedLines
<1> HIDE DEF M
<1>7. /\ OwnIn(LinesIn)' <=> OwnIn(M)
      /\ StrayIn(LinesIn)' <=> StrayIn(M)
      /\ NewsMarked(LinesIn)' <=> NewsMarked(M)
      /\ FinalIn(LinesIn)' <=> FinalIn(M)
      /\ FinalLast(LinesIn)' <=> FinalLast(M)
  BY <1>5 DEF OwnIn, StrayIn, NewsMarked, FinalIn, FinalLast
<1>8. OwnIn(r) => /\ Owed /\ ~OwnText /\ ~FinalIn(LinesIn) /\ Asking /\ sp_response.by # "own"
                  /\ ~Owed'
  <2>1. OwnIn(r) => Owed /\ posted # "own"
    BY <1>0, <1>4 DEF Owed, OneAnswer
  <2>2. OwnIn(r) => posted' # "own" /\ s_wait_response' = "no"
    BY <1>1, <1>4, <2>1
  <2> QED
    BY <1>0, <2>1, <2>2 DEF OneAnswer, Owed
<1>14. FinalIn(r) => OwnIn(r)
  BY DEF FinalIn, OwnIn
<1>9. /\ OwnLine' => OwnLine \/ OwnIn(r)
      /\ FinalIn(LinesIn)' => FinalIn(LinesIn) \/ OwnIn(r)
      /\ FinalLast(LinesIn)' /\ NewsMarked(LinesIn)'
  BY <1>0, <1>4, <1>6, <1>7, <1>8, <1>14 DEF OwnLine, OneAnswer, Marked
<1>10. Alternating'
  BY <1>0, <1>1 DEF Alternating, CRsApart
<1>11. Marked'
  BY <1>0, <1>1, <1>9 DEF Marked
<1>12. OneAnswer'
  <2>1. /\ OwnText' = OwnText /\ Asking' = Asking /\ (Owed' => Owed)
        /\ LeftToPhone' => LeftToPhone
    BY <1>1 DEF OwnText, OwnTextIn, Asking, Owed, LeftToPhone
  <2>2. ~Asking' => ~OwnText' /\ ~OwnLine' /\ ~Owed'
    BY <1>0, <1>8, <1>9, <2>1 DEF OneAnswer
  <2>3. rq' \notin {"wait", "woken"} => sp_response' = NoResponse
    BY <1>0, <1>1 DEF OneAnswer
  <2>4. OwnText' => ~Owed' /\ ~OwnLine' /\ link' = "up"
    BY <1>0, <1>1, <1>8, <1>9, <2>1 DEF OneAnswer
  <2>5. posted' = "own" => s_wait_response' # "own"
    BY <1>0, <1>1 DEF OneAnswer
  <2>6. Owed' => ~FinalIn(LinesIn)' /\ link' = "up"
    BY <1>0, <1>1, <1>8, <1>9, <2>1 DEF OneAnswer
  <2>9. LeftToPhone' => cmd' \in {"ATD", "CHLD"}
    BY <1>0, <1>1, <2>1 DEF OneAnswer
  <2>7. sp_response'.by = "own" => ~OwnText' /\ ~Owed' /\ ~OwnLine'
    BY <1>0, <1>1, <1>8, <1>9, <2>1 DEF OneAnswer
  <2>8. (\A i \in 1..Len(down) : down[i].k = "text" /\ down[i].mark = "own" => down[i].cmd = cmd)'
    BY <1>0, <1>1 DEF OneAnswer
  <2> QED
    BY <1>9, <2>2, <2>3, <2>4, <2>5, <2>6, <2>7, <2>8, <2>9 DEF OneAnswer
<1>13. NoStray'
  <2>1. StrayTextIn(down)' = StrayTextIn(down)
    BY <1>1 DEF StrayTextIn
  <2>2. StrayIn(LinesIn)' => StrayIn(LinesIn) \/ (s_wait_response = "stray" /\ link = "up")
    BY <1>4, <1>6, <1>7
  <2> QED
    BY <1>0, <1>1, <2>1, <2>2 DEF NoStray
<1> QED
  BY <1>10, <1>11, <1>12, <1>13 DEF Match

(* A new state of the phone, or the SIGPIPE it ends in, keeps the second layer (whose
   answers are under way). *)
LEMMA EnterOrDieMatch ==
  ASSUME Base, Match, DaemonStep, NEW s, EnterOrDie(s)
  PROVE  Match'
<1>1. CASE SigPipe(s)
  <2>1. DaemonRestart /\ up' = <<>> /\ link = "gone"
    BY <1>1 DEF EnterOrDie, SigPipe
  <2> QED
    BY <2>1, GoneMatch
<1>2. CASE ~SigPipe(s)
  <2>1. Enter(s)
    BY <1>2 DEF EnterOrDie
  <2> QED
    BY <2>1, EnterMatch
<1> QED
  BY <1>1, <1>2

(* Every step of the daemon's main loop keeps the second layer (whose answers are under
   way). *)
LEMMA SocketNextMatch ==
  ASSUME Base, Match, SocketNext
  PROVE  Match'
<1>0. TypeOK /\ Connected /\ Alternating /\ Marked /\ OneAnswer /\ NoStray
  BY BaseTypes DEF Match
<1>1. UNCHANGED channel /\ UNCHANGED driver
  BY DEF SocketNext
<1>2. DaemonStep
  BY <1>1 DEF DaemonStep, channel
<1>3. CASE ProcessCommands
  BY <1>1, <1>3, ProcessCommandsMatch
<1>4. CASE SetWait
  <2>1. /\ posted # "no" /\ ~replying /\ s_wait_response' = posted /\ posted' = "no"
        /\ UNCHANGED <<link, down, up, s_ATBuffer, rq, cmd, sp_response, spoiled>>
    BY <1>2, <1>4 DEF SetWait, wire, DaemonStep
  <2>2. LinesIn' = LinesIn
    BY <2>1 DEF LinesIn
  <2>3. /\ OwnText' = OwnText /\ OwnLine' = OwnLine /\ (Owed' => Owed) /\ Asking' = Asking
        /\ FinalLast(LinesIn)' = FinalLast(LinesIn) /\ NewsMarked(LinesIn)' = NewsMarked(LinesIn)
        /\ StrayIn(LinesIn)' = StrayIn(LinesIn) /\ StrayTextIn(down)' = StrayTextIn(down)
        /\ FinalIn(LinesIn)' = FinalIn(LinesIn) /\ (LeftToPhone' => LeftToPhone)
    BY <2>1, <2>2 DEF OwnText, OwnTextIn, OwnLine, OwnIn, Owed, Asking, FinalLast, NewsMarked, StrayIn,
                      StrayTextIn, FinalIn, LeftToPhone
  <2>4. Alternating'
    BY <1>0, <2>1 DEF Alternating, CRsApart
  <2>5. Marked'
    BY <1>0, <2>1, <2>3 DEF Marked
  <2>6. OneAnswer'
    BY <1>0, <2>1, <2>3 DEF OneAnswer
  <2>7. NoStray'
    BY <1>0, <2>1, <2>3 DEF NoStray
  <2> QED
    BY <2>4, <2>5, <2>6, <2>7 DEF Match
<1>5. CASE Disconnected
  <2>1. /\ link = "gone" /\ link' = "down" /\ down' = <<>> /\ up' = <<>>
        /\ UNCHANGED <<s_ATBuffer, rq, cmd, sp_response, spoiled, posted, replying, s_wait_response>>
    BY <1>2, <1>5 DEF Disconnected, DaemonStep
  <2>2. s_ATBuffer = <<>>
    BY <1>0, <2>1 DEF Connected
  <2>3. LinesIn' = <<>>
    BY <2>1, <2>2 DEF LinesIn
  <2>4. posted' # "own" /\ s_wait_response' # "own"
    BY <1>0, <2>1 DEF OneAnswer, Owed
  <2>5. rq' \notin {"wait", "woken"} => sp_response' = NoResponse
    BY <1>0, <2>1 DEF OneAnswer
  <2>6. ~spoiled' => sp_response'.by # "stray"
    BY <1>0, <2>1 DEF NoStray
  <2> QED
    BY <2>1, <2>3, <2>4, <2>5, <2>6, FreshMatch
<1>6. CASE WriteResult
  BY <1>2, <1>6, WriteResultMatch
<1> QED
  BY <1>3, <1>4, <1>5, <1>6 DEF SocketNext

(* Every step of the daemon's state machine keeps the second layer (whose answers are
   under way). *)
LEMMA MachineNextMatch ==
  ASSUME Base, Match, MachineNext
  PROVE  Match'
<1>1. DaemonStep
  BY DEF MachineNext, DaemonStep, channel
<1>2. ASSUME UNCHANGED <<wire, socket>> PROVE Match'
  <2>1. UNCHANGED <<link, down, up, s_ATBuffer, posted, replying, s_wait_response, cmd, sp_response, spoiled,
                    rq>>
    BY <1>1, <1>2 DEF DaemonStep, wire, socket
  <2> QED
    BY <2>1, SameMatch
<1>3. CASE TakeHandfree
  BY <1>2, <1>3 DEF TakeHandfree
<1>4. CASE HookMoved
  <2> DEFINE s == AfterHook(hook, phone)
  <2>1. CASE s = phone
    BY <1>2, <1>4, <2>1 DEF HookMoved
  <2>2. CASE s # phone /\ SigPipe(s)
    <3>1. DaemonRestart /\ up' = <<>> /\ link = "gone"
      BY <1>4, <2>2 DEF HookMoved, SigPipe
    <3> QED
      BY <1>1, <3>1, GoneMatch
  <2>3. CASE s # phone /\ ~SigPipe(s)
    <3>1. Enter(s)
      BY <1>4, <2>3 DEF HookMoved
    <3> HIDE DEF s
    <3> QED
      BY <1>1, <3>1, EnterMatch
  <2> QED
    BY <2>1, <2>2, <2>3
<1>5. CASE PhoneTimer
  <2>1. PICK s \in TimerNext(phone) : EnterOrDie(s)
    BY <1>5 DEF PhoneTimer
  <2> QED
    BY <1>1, <2>1, EnterOrDieMatch
<1> QED
  BY <1>3, <1>4, <1>5 DEF MachineNext

(* The handset, a call on the line or the plug keeps the second layer (whose answers
   are under way). *)
LEMMA PhoneEventMatch ==
  ASSUME Base, Match, PhoneEvent, UNCHANGED channel, UNCHANGED driver
  PROVE  Match'
<1>1. DaemonStep
  BY DEF DaemonStep, channel
<1>2. (\E s \in CallStates \cup {"IDLE"} : EnterOrDie(s)) \/ UNCHANGED <<wire, socket>>
  BY DEF PhoneEvent, CallStates
<1>3. CASE \E s \in CallStates \cup {"IDLE"} : EnterOrDie(s)
  BY <1>1, <1>3, EnterOrDieMatch
<1>4. CASE UNCHANGED <<wire, socket>>
  <2>1. UNCHANGED <<link, down, up, s_ATBuffer, posted, replying, s_wait_response, cmd, sp_response, spoiled,
                    rq>>
    BY <1>1, <1>4 DEF DaemonStep, wire, socket
  <2> QED
    BY <2>1, SameMatch
<1> QED
  BY <1>2, <1>3, <1>4

(* The end of the daemon keeps the second layer (whose answers are under way). *)
LEMMA DaemonDiesMatch ==
  ASSUME Base, Match, DaemonDies
  PROVE  Match'
<1>0. Marked /\ OneAnswer /\ NoStray
  BY DEF Match
<1>1. /\ UNCHANGED <<up, rq, cmd, sp_response, s_ATBuffer, spoiled>>
      /\ down' = <<>> /\ posted' = "no" /\ s_wait_response' = "no" /\ link' # "up"
  BY DEF DaemonDies, DaemonRestart
<1>2. LinesIn' = LinesIn
  BY <1>1 DEF LinesIn
<1>3. /\ ~OwnTextIn(down)' /\ ~StrayTextIn(down)' /\ CRsApart(down)'
      /\ (\A i \in 1..Len(down) : down[i].mark # "news")'
      /\ (\A i \in 1..Len(down) : down[i].k = "text" /\ down[i].mark = "own" => down[i].cmd = cmd)'
  <2>1. Len(<<>>) = 0 /\ 1..0 = {} /\ 1..(0 - 1) = {}
    OBVIOUS
  <2> QED
    BY <1>1, <2>1 DEF OwnTextIn, StrayTextIn, CRsApart
<1>4. /\ OwnLine' = OwnLine /\ Asking' = Asking /\ ~Owed' /\ ~LeftToPhone' /\ ~OwnText'
      /\ FinalLast(LinesIn)' = FinalLast(LinesIn) /\ NewsMarked(LinesIn)' = NewsMarked(LinesIn)
      /\ StrayIn(LinesIn)' = StrayIn(LinesIn)
  BY <1>1, <1>2, <1>3 DEF OwnText, OwnLine, OwnIn, Owed, LeftToPhone, Asking, FinalLast, NewsMarked,
                          StrayIn
<1>5. Alternating'
  BY <1>1, <1>3 DEF Alternating
<1>6. Marked'
  BY <1>0, <1>1, <1>3, <1>4 DEF Marked
<1>7. OneAnswer'
  BY <1>0, <1>1, <1>3, <1>4 DEF OneAnswer
<1>8. NoStray'
  BY <1>0, <1>1, <1>4 DEF NoStray
<1> QED
  BY <1>5, <1>6, <1>7, <1>8 DEF Match

(* The end and new start of the driver keeps the second layer (whose answers are under
   way). *)
LEMMA RildRestartMatch ==
  ASSUME Base, Match, RildRestart
  PROVE  Match'
<1>0. TypeOK /\ Alternating /\ Marked
  BY BaseTypes DEF Match
<1>1. /\ link' = (IF link = "up" THEN "gone" ELSE IF link = "eof" THEN "down" ELSE link)
      /\ down' = StrayAll(down) /\ up' = <<>> /\ s_ATBuffer' = <<>> /\ rq' = "idle"
      /\ sp_response' = NoResponse
      /\ posted' = Stray(posted) /\ s_wait_response' = Stray(s_wait_response)
  BY DEF RildRestart, DaemonStray
<1>2. LinesIn' = <<>>
  BY <1>1 DEF LinesIn
<1>3. ~OwnIn(LinesIn)' /\ NewsMarked(LinesIn)' /\ ~StrayIn(LinesIn)'
  <2>1. Len(<<>>) = 0 /\ 1..0 = {}
    OBVIOUS
  <2> QED
    BY <1>2, <2>1 DEF OwnIn, NewsMarked, StrayIn
<1>4. down \in Seq(Items) /\ \A i \in 1..Len(down) : down[i].mark # "news"
  BY <1>0, LinesInType DEF Marked
<1> DEFINE e == StrayAll(down)
<1>5. /\ ~OwnTextIn(e)
      /\ CRsApart(down) => CRsApart(e)
      /\ \A i \in 1..Len(e) : e[i].mark # "news"
  BY <1>4, GivenUpItems
<1>6. down' = e
  BY <1>1
<1> HIDE DEF e
<1>7. /\ ~OwnTextIn(down)'
      /\ CRsApart(down) => CRsApart(down)'
      /\ (\A i \in 1..Len(down) : down[i].mark # "news")'
  BY <1>5, <1>6 DEF OwnTextIn, CRsApart
<1>8. posted' \notin {"own", "news"} /\ s_wait_response' \notin {"own", "news"}
  BY <1>0, <1>1 DEF Marked, Stray
<1>9. Alternating'
  BY <1>0, <1>1, <1>7 DEF Alternating
<1>10. Marked'
  BY <1>3, <1>7, <1>8 DEF Marked
<1>11. OneAnswer'
  BY <1>1, <1>3, <1>7, <1>8, NothingOwn
<1>12. link' # "up" /\ sp_response'.by # "stray"
  BY <1>1 DEF NoResponse
<1>13. NoStray'
  BY <1>3, <1>12 DEF NoStray
<1> QED
  BY <1>9, <1>10, <1>11, <1>13 DEF Match

(* Every step keeps the second layer (whose answers are under way). *)
LEMMA NextMatch ==
  ASSUME Base, Match, [Next]_vars
  PROVE  Match'
<1>1. CASE ReaderNext
  BY <1>1, ReaderNextMatch
<1>2. CASE MainNext
  BY <1>2, MainNextMatch
<1>3. CASE RequestNext
  BY <1>3, RequestNextMatch
<1>4. CASE RildFaults
  BY <1>4, RildRestartMatch DEF RildFaults
<1>5. CASE SocketNext
  BY <1>5, SocketNextMatch
<1>6. CASE MachineNext
  BY <1>6, MachineNextMatch
<1>7. CASE WorldNext
  <2>1. CASE PhoneEvent /\ UNCHANGED <<channel, driver>>
    BY <2>1, PhoneEventMatch
  <2>2. CASE \E r \in Requests : RequestLocal(r) \/ RequestCommand(r)
    BY <2>2, RequestsMatch
  <2>3. CASE RildDies
    BY <2>3, RildRestartMatch DEF RildDies
  <2>4. CASE DaemonDies
    BY <2>4, DaemonDiesMatch
  <2> QED
    BY <1>7, <2>1, <2>2, <2>3, <2>4 DEF WorldNext
<1>8. CASE UNCHANGED vars
  <2>1. UNCHANGED <<link, down, up, s_ATBuffer, posted, replying, s_wait_response, cmd, sp_response, spoiled,
                    rq>>
    BY <1>8 DEF vars, wire, channel, daemon, socket
  <2> QED
    BY <2>1, SameMatch
<1> QED
  BY <1>1, <1>2, <1>3, <1>4, <1>5, <1>6, <1>7, <1>8 DEF Next

(* So does the second. *)
LEMMA InitMatch == Init => Match
<1> SUFFICES ASSUME Init PROVE Match
  OBVIOUS
<1>1. /\ link = "down" /\ down = <<>> /\ up = <<>> /\ s_ATBuffer = <<>> /\ rq = "idle"
      /\ sp_response = NoResponse /\ posted = "no" /\ s_wait_response = "no"
  BY DEF Init, ChannelInit, DaemonInit
<1>2. LinesIn = <<>>
  BY <1>1 DEF LinesIn
<1>3. Len(<<>>) = 0 /\ 1..0 = {} /\ 1..(0 - 1) = {}
  OBVIOUS
<1>4. Alternating
  BY <1>1, <1>3 DEF Alternating, CRsApart
<1>5. Marked
  BY <1>1, <1>2, <1>3 DEF Marked, NewsMarked
<1>6. ~OwnText /\ ~OwnLine /\ ~Owed /\ ~LeftToPhone /\ FinalLast(LinesIn) /\ ~StrayIn(LinesIn)
  BY <1>1, <1>2, <1>3 DEF OwnText, OwnTextIn, OwnLine, OwnIn, Owed, LeftToPhone, FinalLast, StrayIn
<1>7. \A i \in 1..Len(down) : down[i].k = "text" /\ down[i].mark = "own" => down[i].cmd = cmd
  BY <1>1, <1>3
<1>8. sp_response.by = "none"
  BY <1>1 DEF NoResponse
<1>9. OneAnswer
  BY <1>1, <1>6, <1>7, <1>8 DEF OneAnswer
<1>10. NoStray
  BY <1>1, <1>8 DEF NoStray
<1> QED
  BY <1>4, <1>5, <1>9, <1>10 DEF Match

(* The answer to the driver's command is in one place at most: a command    *)
(* not yet read, the state machine, a line under way or the response; and   *)
(* what is owed to a command given up is there only on a spoiled channel.   *)
THEOREM MatchInvariant == Spec => [](Base /\ Match)
<1>1. Init => Base /\ Match
  BY InitBase, InitMatch
<1>2. Base /\ Match /\ [Next]_vars => (Base /\ Match)'
  BY NextBase, NextMatch
<1> QED
  BY <1>1, <1>2, PTL DEF Spec

(* at_send_command never returns with the final response of another         *)
(* command, unless one before it on this channel ended without its own: by  *)
(* the handshake's timeout or by a NO CARRIER that came first.              *)
THEOREM AnswersAreMatched == Spec => []AnswersMatch
<1>1. Base /\ Match => AnswersMatch
  BY DEF Match, NoStray, AnswersMatch
<1> QED
  BY <1>1, MatchInvariant, PTL
-----------------------------------------------------------------------------
(* The third part: who tells the framework.                                *)

Report == ToldOf /\ Unfilled

(* Steps out of service owe the framework nothing.                          *)
LEMMA OutOfService ==
  ASSUME Unfilled', ~InService'
  PROVE  Report'
BY DEF Report, ToldOf

(* Steps that keep all that will tell the framework.                        *)
LEMMA SameReport ==
  ASSUME Report, UNCHANGED sp_response, InService' => InService,
         told => told', NewsIn(LinesIn) => NewsIn(LinesIn)', inits > 0 => inits' > 0,
         Calling => Calling'
  PROVE  Report'
<1>1. Unfilled'
  BY DEF Report, Unfilled
<1>2. ToldOf'
  BY DEF Report, ToldOf
<1> QED
  BY <1>1, <1>2 DEF Report

(* readline: a read() of what the daemon has sent keeps the third layer (who will tell
   the framework). *)
LEMMA ReaderReadsReport ==
  ASSUME Base, Match, Report, ReaderReads
  PROVE  Report'
<1>0. TypeOK
  BY BaseTypes
<1>1. ReadLine /\ UNCHANGED daemon /\ UNCHANGED driver
  BY DEF ReaderReads
<1>2. /\ s_ATBuffer = <<>> /\ up' = <<>>
      /\ UNCHANGED <<link, rq, cmd, sp_response, spoiled, told, phone, sState, inits>>
  BY <1>1 DEF ReadLine, daemon, machine, driver
<1>3. /\ s_ATBuffer' \in Seq(Lines)
      /\ \A i \in 1..Len(s_ATBuffer') : s_ATBuffer'[i] = up[i]
      /\ ~dropped' => ~dropped /\ Len(s_ATBuffer') = Len(up)
  BY <1>0, <1>1, ReadLinePrefix
<1>4. up \in Seq(Lines)
  BY <1>0, LinesInType
<1>5. LinesIn = up /\ LinesIn' = s_ATBuffer'
  <2>1. <<>> \o up = up
    BY <1>4
  <2>2. s_ATBuffer' \o <<>> = s_ATBuffer'
    BY <1>3
  <2> QED
    BY <1>2, <2>1, <2>2 DEF LinesIn
<1>6. ~dropped' => (NewsIn(LinesIn) => NewsIn(LinesIn)')
  BY <1>3, <1>5 DEF NewsIn
<1>7. CASE dropped'
  <2>1. Unfilled' /\ ~InService'
    BY <1>2, <1>7 DEF Report, Unfilled, InService
  <2> QED
    BY <2>1, OutOfService
<1>8. CASE ~dropped'
  <2>1. (InService' => InService) /\ (Calling => Calling')
    BY <1>2, <1>3, <1>8 DEF InService, Calling
  <2> QED
    BY <1>2, <1>6, <1>8, <2>1, SameReport
<1> QED
  BY <1>7, <1>8

(* processLine on one line keeps the third layer (who will tell the framework). *)
LEMMA ReaderLineReport ==
  ASSUME Base, Match, Report, ReaderLine
  PROVE  Report'
<1>0. TypeOK /\ Marked /\ OneAnswer /\ NoStray /\ ToldOf /\ Unfilled
  BY BaseTypes DEF Match, Report
<1> DEFINE l == Head(s_ATBuffer)
           fin == ~IsUnsolicited(l) /\ (isFinalResponseSuccess(l.t) \/ isFinalResponseError(l.t))
<1>1. /\ ProcessLine
      /\ UNCHANGED <<link, cmd, dropped, spoiled, phone, sState, inits>>
  BY DEF ReaderLine, ProcessLine, wire, machine, driver
<1>2. /\ IsUnsolicited(l) => told' = (told \/ (sState # "UNAVAILABLE" /\ l.t \in {"RING", "NO_CARRIER"}))
      /\ ~IsUnsolicited(l) => told' = told
  BY DEF ReaderLine, OnUnsolicited
<1>3. told => told'
  BY <1>2
<1>4. s_ATBuffer # <<>> /\ s_ATBuffer' = Tail(s_ATBuffer) /\ up' = up
  BY <1>1 DEF ProcessLine, wire
<1>5. s_ATBuffer \in Seq(Lines) /\ up \in Seq(Lines) /\ LinesIn \in Seq(Lines)
  BY <1>0, LinesInType
<1>6. LinesIn # <<>> /\ LinesIn' = Tail(LinesIn) /\ Head(LinesIn) = l
  <2>1. ASSUME NEW a \in Seq(Lines), NEW b \in Seq(Lines), a # <<>>
        PROVE  a \o b # <<>> /\ Tail(a) \o b = Tail(a \o b) /\ Head(a \o b) = Head(a)
    BY <2>1, SMTT(30)
  <2> QED
    BY <1>4, <1>5, <2>1 DEF LinesIn
<1>7. /\ Head(LinesIn) \in Lines
      /\ NewsMarked(LinesIn) => (Head(LinesIn).mark = "news" <=> Head(LinesIn).t \in {"RING", "NO_CARRIER"})
      /\ Head(LinesIn).mark = "own" => OwnIn(LinesIn)
      /\ Head(LinesIn).mark = "stray" => StrayIn(LinesIn)
      /\ NewsIn(LinesIn) => Head(LinesIn).mark = "news" \/ NewsIn(Tail(LinesIn))
  BY <1>5, <1>6, TailLines
<1>8. /\ l \in Lines
      /\ l.mark = "news" <=> l.t \in {"RING", "NO_CARRIER"}
      /\ l.mark = "own" => OwnLine
      /\ l.mark = "stray" => StrayIn(LinesIn)
      /\ NewsIn(LinesIn) => l.mark = "news" \/ NewsIn(LinesIn)'
  BY <1>0, <1>6, <1>7 DEF Marked, OwnLine, NewsIn
<1>9. l.mark \in Marks
  BY <1>8 DEF Lines
<1>10. sp_response' =
        CASE IsUnsolicited(l) -> sp_response
          [] fin -> [sp_response EXCEPT !.final = l.t, !.by = IF @ = "none" THEN l.mark ELSE @]
          [] OTHER -> AddIntermediate(l)
  BY <1>1 DEF ProcessLine
<1>11. sp_response \in [final : LineTexts \cup {"null", "none"},
                        by : Marks \cup {"none"}, calls : Seq(LineTexts)]
  BY <1>0 DEF TypeOK, ChannelTypeOK
<1>12. (InService' => InService) /\ (Calling => Calling')
  <2>1. rq' = rq \/ (rq = "wait" /\ rq' = "woken")
    BY <1>0, <1>1, ProcessLineType
  <2> QED
    BY <1>1, <2>1 DEF InService, Calling
<1>13. l.t = "NO_CARRIER" => isFinalResponseError(l.t)
  BY DEF isFinalResponseError
<1>14. ~IsUnsolicited(l) /\ ~fin => l.t \in ClccTexts
  BY DEF IsUnsolicited
<1>15. ~IsUnsolicited(l) => sp_response # NoResponse
  BY DEF IsUnsolicited
<1>16. l.t \in ClccTexts => l.t \notin {"RING", "NO_CARRIER"}
  BY DEF ClccTexts
<1>17. fin => l.t # "RING"
  BY DEF isFinalResponseSuccess, isFinalResponseError
<1> HIDE DEF l
<1>18. CASE IsUnsolicited(l)
  <2>1. sp_response' = sp_response
    BY <1>10, <1>18
  <2>2. CASE l.mark = "news"
    <3>1. Unfilled'
      BY <1>0, <2>1 DEF Unfilled
    <3>2. InService => told'
      BY <1>2, <1>8, <1>18, <2>2 DEF InService
    <3>3. ToldOf'
      BY <1>12, <3>2 DEF ToldOf
    <3> QED
      BY <3>1, <3>3 DEF Report
  <2>3. CASE l.mark # "news"
    BY <1>1, <1>3, <1>8, <1>12, <2>1, <2>3, SameReport
  <2> QED
    BY <2>2, <2>3
<1>19. CASE ~IsUnsolicited(l) /\ ~fin
  <2>1. sp_response' = AddIntermediate(l)
    BY <1>10, <1>19
  <2>2. sp_response'.by = sp_response.by /\ sp_response'.final = sp_response.final
    BY <1>11, <2>1 DEF AddIntermediate
  <2>3. Unfilled'
    BY <1>0, <2>2 DEF Unfilled
  <2>4. l.mark # "news"
    BY <1>8, <1>14, <1>16, <1>19
  <2>5. ToldOf'
    BY <1>0, <1>1, <1>3, <1>8, <1>12, <2>2, <2>4 DEF ToldOf
  <2> QED
    BY <2>3, <2>5 DEF Report
<1>20. CASE fin
  <2>1. sp_response' = [sp_response EXCEPT !.final = l.t, !.by = IF @ = "none" THEN l.mark ELSE @]
    BY <1>10, <1>20
  <2>2. /\ sp_response'.final = l.t
        /\ sp_response'.by = (IF sp_response.by = "none" THEN l.mark ELSE sp_response.by)
    BY <1>11, <2>1
  <2>3. sp_response'.by # "none"
    BY <1>9, <2>2 DEF Marks
  <2>4. Unfilled'
    BY <2>3 DEF Unfilled
  <2>5. CASE l.mark = "news"
    <3>1. l.t = "NO_CARRIER"
      BY <1>8, <1>17, <1>20, <2>5
    <3>2. ToldOf'
      BY <2>2, <3>1 DEF ToldOf
    <3> QED
      BY <2>4, <3>2 DEF Report
  <2>6. CASE l.mark # "news"
    <3>1. InService => sp_response # NoResponse /\ ~StrayIn(LinesIn) /\ sp_response.by # "stray"
      BY <1>0, <1>15, <1>20 DEF InService, NoStray
    <3>2. InService => l.mark = "own"
      BY <1>8, <1>9, <2>6, <3>1 DEF Marks
    <3>3. InService => sp_response.by # "own"
      BY <1>0, <1>8, <3>2 DEF OneAnswer
    <3>4. InService => sp_response.by \in {"news", "none"}
      BY <1>11, <3>1, <3>3 DEF Marks
    <3>5. sp_response.by = "news" => sp_response'.by = "news"
      BY <2>2
    <3>6. InService /\ sp_response.final = "NO_CARRIER" => sp_response.by = "news"
      BY <1>0, <3>4 DEF Unfilled
    <3>7. ToldOf'
      BY <1>0, <1>1, <1>3, <1>8, <1>12, <2>6, <3>5, <3>6 DEF ToldOf
    <3> QED
      BY <2>4, <3>7 DEF Report
  <2> QED
    BY <2>5, <2>6
<1> QED
  BY <1>18, <1>19, <1>20

(* Every step of the reader and of mainLoop keeps the third layer (who will tell the
   framework). *)
LEMMA ReaderMainReport ==
  ASSUME Base, Match, Report, ReaderNext \/ MainNext
  PROVE  Report'
<1>0. TypeOK /\ DriverTypeOK /\ Unfilled
  BY BaseTypes DEF Report
<1>1. CASE ReaderReads
  BY <1>1, ReaderReadsReport
<1>2. CASE ReaderLine
  BY <1>2, ReaderLineReport
<1>3. CASE ReaderEnd
  <2>1. link = "eof" /\ UNCHANGED <<link, sp_response>>
    BY <1>3 DEF ReaderEnd, OnReaderClosed, wire
  <2>2. Unfilled' /\ ~InService'
    BY <1>0, <2>1 DEF Unfilled, InService
  <2> QED
    BY <2>2, OutOfService
<1>4. CASE OnATReaderClosed
  <2>1. link' = "down" /\ UNCHANGED sp_response
    BY <1>4 DEF OnATReaderClosed, AtClose
  <2>2. Unfilled' /\ ~InService'
    BY <1>0, <2>1 DEF Unfilled, InService
  <2> QED
    BY <2>2, OutOfService
<1>5. CASE ReaderRadio
  <2>1. sState' = "UNAVAILABLE" /\ UNCHANGED sp_response
    BY <1>5 DEF ReaderRadio, SetRadioState, RadioFor, channel
  <2>2. Unfilled' /\ ~InService'
    BY <1>0, <2>1 DEF Unfilled, InService
  <2> QED
    BY <2>2, OutOfService
<1>6. CASE MainConnect
  <2>1. inits' = inits + 1 /\ sp_response' = NoResponse
    BY <1>6 DEF MainConnect, AtOpen
  <2>2. inits' > 0
    BY <1>0, <2>1 DEF DriverTypeOK
  <2>3. Unfilled'
    BY <2>1 DEF Unfilled, NoResponse
  <2> QED
    BY <2>2, <2>3 DEF Report, ToldOf
<1>7. CASE MainSleeps
  <2>1. UNCHANGED <<link, up, s_ATBuffer, rq, cmd, sp_response, dropped, spoiled, phone, told, sState,
                    inits>>
    BY <1>7 DEF MainSleeps, wire, channel, daemon, machine
  <2>2. /\ (InService' => InService) /\ (Calling => Calling')
        /\ NewsIn(LinesIn) => NewsIn(LinesIn)'
    BY <2>1 DEF InService, Calling, NewsIn, LinesIn
  <2> QED
    BY <2>1, <2>2, SameReport
<1> QED
  BY <1>1, <1>2, <1>3, <1>4, <1>5, <1>6, <1>7 DEF ReaderNext, MainNext

(* The end of a command: its caller tells the framework, or the radio is    *)
(* not on yet, or it was a +CLCC answered with OK.                          *)
LEMMA CommandEndsReport ==
  ASSUME Base, Match, Report, NEW failed \in BOOLEAN, CommandEnds(failed, sp_response.by # "own"),
         rq = "woken"
  PROVE  Report'
<1>0. TypeOK /\ Radio /\ ToldOf /\ Unfilled
  BY BaseTypes DEF Report
<1>1. /\ sp_response' = NoResponse /\ up' = StrayAll(up) /\ s_ATBuffer' = StrayAll(s_ATBuffer)
      /\ spoiled' = (spoiled \/ sp_response.by # "own")
      /\ UNCHANGED <<link, dropped, phone, sState, inits>>
      /\ Completes(failed)
  BY DEF CommandEnds, ClearPending, machine
<1>2. Unfilled'
  BY <1>1 DEF Unfilled, NoResponse
<1>3. CASE cmd \in {"ATE0", "ATC"}
  <2>1. ~InService'
    BY <1>0, <1>1, <1>3 DEF Radio, InService
  <2> QED
    BY <1>2, <2>1, OutOfService
<1>4. CASE cmd \notin {"ATE0", "ATC", "CLCC"}
  <2>1. told' = (told \/ (IF cmd = "CLCC"
                          THEN ~(~failed /\ isFinalResponseSuccess(sp_response.final))
                          ELSE cmd # "ATC"))
    BY <1>1, <1>4 DEF Completes
  <2>2. told'
    BY <1>4, <2>1
  <2> QED
    BY <1>2, <2>2 DEF Report, ToldOf
<1>5. CASE cmd = "CLCC"
  <2>1. told' = (told \/ ~(~failed /\ isFinalResponseSuccess(sp_response.final)))
    BY <1>1, <1>5 DEF Completes
  <2>2. CASE told'
    BY <1>2, <2>2 DEF Report, ToldOf
  <2>3. CASE ~told'
    <3>1. ~told /\ sp_response.final = "OK"
      BY <2>1, <2>3 DEF isFinalResponseSuccess
    <3>2. InService' => InService /\ sp_response.by = "own"
      BY <1>1 DEF InService
    <3>3. ~Calling
      BY <1>5 DEF Calling
    <3>4. InService' => NewsIn(LinesIn) \/ inits > 0
      BY <1>0, <3>1, <3>2, <3>3 DEF ToldOf
    <3>5. s_ATBuffer \in Seq(Lines) /\ up \in Seq(Lines)
      BY <1>0, LinesInType
    <3>6. NewsIn(s_ATBuffer \o up) => NewsIn(StrayAll(s_ATBuffer) \o StrayAll(up))
      BY <3>5, GivenUpLines
    <3>7. LinesIn' = StrayAll(s_ATBuffer) \o StrayAll(up)
      BY <1>1 DEF LinesIn
    <3>8. NewsIn(LinesIn) => NewsIn(LinesIn)'
      BY <3>6, <3>7 DEF LinesIn, NewsIn
    <3>9. ToldOf'
      BY <1>1, <3>4, <3>8 DEF ToldOf
    <3> QED
      BY <1>2, <3>9 DEF Report
  <2> QED
    BY <2>2, <2>3
<1> QED
  BY <1>3, <1>4, <1>5

(* Every step of the request thread keeps the third layer (who will tell the
   framework). *)
LEMMA RequestNextReport ==
  ASSUME Base, Match, Report, RequestNext
  PROVE  Report'
<1>0. TypeOK /\ Connected /\ Trying /\ DriverTypeOK /\ Radio /\ OneAnswer /\ ToldOf /\ Unfilled
  BY BaseTypes DEF Match, Report
<1>1. CASE InitializeCallback
  <2>1. SetRadioState("OFF") /\ UNCHANGED sp_response
    BY <1>1 DEF InitializeCallback
  <2>2. sState' # "SIM_READY"
    BY <2>1 DEF SetRadioState, RadioFor
  <2>3. Unfilled' /\ ~InService'
    BY <1>0, <2>1, <2>2 DEF Unfilled, InService
  <2> QED
    BY <2>3, OutOfService
<1>2. CASE SendCallStateChanged
  <2>1. told' /\ UNCHANGED sp_response
    BY <1>2 DEF SendCallStateChanged, channel
  <2>2. Unfilled'
    BY <1>0, <2>1 DEF Unfilled
  <2> QED
    BY <2>1, <2>2 DEF Report, ToldOf
<1>3. CASE SendStep
  <2>1. /\ UNCHANGED <<told, phone, sState, inits>>
    BY <1>3 DEF SendStep, daemon, machine, driver
  <2>2. CASE WriteText
    <3>1. /\ UNCHANGED <<link, up, cmd, sp_response, s_ATBuffer, dropped, spoiled>> /\ rq' = "cr"
          /\ rq \in {"lock", "text"}
      BY <2>2 DEF WriteText
    <3>2. /\ (InService' => InService) /\ (Calling => Calling')
          /\ NewsIn(LinesIn) => NewsIn(LinesIn)'
      BY <2>1, <3>1 DEF InService, Calling, NewsIn, LinesIn
    <3> QED
      BY <2>1, <3>1, <3>2, SameReport
  <2>3. CASE WriteCR
    <3>1. /\ UNCHANGED <<link, up, cmd, s_ATBuffer, dropped, spoiled>> /\ rq = "cr"
          /\ rq' \in {"wait", "woken"} /\ sp_response' = NewResponse
      BY <2>3 DEF WriteCR
    <3>2. /\ (InService' => InService) /\ (Calling => Calling')
          /\ NewsIn(LinesIn) => NewsIn(LinesIn)'
      BY <2>1, <3>1 DEF InService, Calling, NewsIn, LinesIn
    <3>3. sp_response = NoResponse
      BY <1>0, <3>1 DEF OneAnswer
    <3>4. sp_response.by # "news" /\ sp_response.final # "NO_CARRIER"
      BY <3>3 DEF NoResponse
    <3>5. Unfilled'
      BY <3>1 DEF Unfilled, NewResponse
    <3>6. ToldOf'
      BY <1>0, <2>1, <3>2, <3>4 DEF ToldOf
    <3> QED
      BY <3>5, <3>6 DEF Report
  <2>4. CASE HandshakePause
    <3>1. rq = "sleep" /\ UNCHANGED sp_response
      BY <2>4 DEF HandshakePause
    <3>2. cmd = "ATE0"
      BY <1>0, <3>1 DEF Trying
    <3>3. Unfilled' /\ ~InService'
      BY <1>0, <2>1, <3>1, <3>2 DEF Unfilled, InService, Radio
    <3> QED
      BY <3>3, OutOfService
  <2> QED
    BY <1>3, <2>2, <2>3, <2>4 DEF SendStep
<1>4. CASE SendFails
  <2>1. link # "up"
    BY <1>0, <1>4 DEF SendFails, WriteFails, Connected
  <2>2. link' = link /\ sp_response' = NoResponse
    BY <1>4 DEF SendFails, ClearPending
  <2>3. Unfilled' /\ ~InService'
    BY <2>1, <2>2 DEF Unfilled, InService, NoResponse
  <2> QED
    BY <2>3, OutOfService
<1>5. CASE SendReturns
  <2> DEFINE f == s_readerClosed = 1
  <2>1. f \in BOOLEAN
    OBVIOUS
  <2>2. CommandEnds(f, sp_response.by # "own")
    BY <1>0, <1>5, CommandEnd
  <2>3. rq = "woken"
    BY <1>5 DEF SendReturns, Answered
  <2> HIDE DEF f
  <2> QED
    BY <2>1, <2>2, <2>3, CommandEndsReport
<1>6. CASE SendTimesOut
  <2>1. sp_response' = NoResponse /\ spoiled'
    BY <1>6 DEF SendTimesOut, ClearPending
  <2>2. Unfilled' /\ ~InService'
    BY <2>1 DEF Unfilled, InService, NoResponse
  <2> QED
    BY <2>2, OutOfService
<1>7. CASE RadioOn
  <2>1. SetRadioState("SIM_NOT_READY") /\ UNCHANGED sp_response
    BY <1>7 DEF RadioOn
  <2>2. sState' # "SIM_READY"
    BY <2>1 DEF SetRadioState, RadioFor
  <2>3. Unfilled' /\ ~InService'
    BY <1>0, <2>1, <2>2 DEF Unfilled, InService
  <2> QED
    BY <2>3, OutOfService
<1>8. CASE PollSIMState
  <2>1. /\ rq = "poll"
        /\ UNCHANGED <<link, up, s_ATBuffer, sp_response, dropped, spoiled, phone, inits>>
        /\ \/ told' = (told \/ sState' = "SIM_READY")
           \/ UNCHANGED <<sState, told>>
    BY <1>8 DEF PollSIMState, wire, machine
  <2>2. CASE told' = (told \/ sState' = "SIM_READY")
    <3>1. InService' => told'
      BY <2>2 DEF InService
    <3>2. Unfilled'
      BY <1>0, <2>1 DEF Unfilled
    <3> QED
      BY <3>1, <3>2 DEF Report, ToldOf
  <2>3. CASE UNCHANGED <<sState, told>>
    <3>1. /\ (InService' => InService) /\ ~Calling
          /\ NewsIn(LinesIn) => NewsIn(LinesIn)'
      BY <2>1, <2>3 DEF InService, Calling, NewsIn, LinesIn
    <3> QED
      BY <2>1, <2>3, <3>1, SameReport
  <2> QED
    BY <2>1, <2>2, <2>3
<1> QED
  BY <1>1, <1>2, <1>3, <1>4, <1>5, <1>6, <1>7, <1>8 DEF RequestNext, SendNext

(* Every request of the framework keeps the third layer (who will tell the framework). *)
LEMMA RequestsReport ==
  ASSUME Base, Match, Report, NEW r, RequestLocal(r) \/ RequestCommand(r)
  PROVE  Report'
<1>0. Unfilled
  BY DEF Report
<1>1. /\ rq = "idle"
      /\ UNCHANGED <<link, up, s_ATBuffer, sp_response, dropped, spoiled, phone, told, inits>>
  BY DEF RequestLocal, RequestCommand, wire, daemon, machine
<1>2. sState' = sState \/ SetRadioState("OFF")
  <2>1. CASE RequestCommand(r)
    BY <2>1 DEF RequestCommand
  <2>2. CASE RequestLocal(r)
    <3>1. CASE Refused(r)
      BY <2>2, <3>1 DEF RequestLocal
    <3>2. CASE ~Refused(r)
      <4>1. RadioPower(r)
        BY <2>2, <3>2 DEF RequestLocal
      <4> QED
        BY <4>1 DEF RadioPower
    <3> QED
      BY <3>1, <3>2
  <2> QED
    BY <2>1, <2>2
<1>3. CASE sState' = sState
  <2>1. /\ (InService' => InService) /\ ~Calling
        /\ NewsIn(LinesIn) => NewsIn(LinesIn)'
    BY <1>1, <1>3 DEF InService, Calling, NewsIn, LinesIn
  <2> QED
    BY <1>1, <2>1, SameReport
<1>4. CASE SetRadioState("OFF")
  <2>1. sState' # "SIM_READY"
    BY <1>4 DEF SetRadioState, RadioFor
  <2>2. Unfilled' /\ ~InService'
    BY <1>0, <1>1, <2>1 DEF Unfilled, InService
  <2> QED
    BY <2>2, OutOfService
<1> QED
  BY <1>2, <1>3, <1>4
(* A state entered: its line is news of a ring or an end, or it answers the *)
(* command whose caller tells the framework.                                *)
LEMMA EnterReport ==
  ASSUME Base, Match, Report, DaemonStep, NEW s, Enter(s), phone # "INIT" \/ s = "IDLE"
  PROVE  Report'
<1>0. TypeOK /\ DaemonTypeOK /\ Marked /\ OneAnswer /\ NoStray /\ ToldOf /\ Unfilled
  BY BaseTypes DEF Match, Report
<1>1. /\ UNCHANGED <<rq, cmd, sp_response, s_ATBuffer, dropped, spoiled, link, sState, inits>>
      /\ phone' = s
      /\ up' = (IF link = "up" THEN up \o News(s) ELSE up)
      /\ told' = (told /\ s # "INCOMING" /\ ~(s = "IDLE" /\ phone \in CallStates))
  BY DEF DaemonStep, Enter, driver
<1>2. Unfilled'
  BY <1>0, <1>1 DEF Unfilled
<1>3. CASE link # "up"
  <2>1. ~InService'
    BY <1>1, <1>3 DEF InService
  <2> QED
    BY <1>2, <2>1, OutOfService
<1>4. CASE link = "up"
  <2>1. /\ News(s) \in Seq(Lines)
        /\ s = "INCOMING" \/ (s = "IDLE" /\ s_wait_response = "no") => NewsIn(News(s))
    BY <1>0, NewsMarks DEF Marked
  <2> DEFINE n == News(s)
             M == LinesIn \o n
  <2> HIDE DEF n
  <2>2. s_ATBuffer \in Seq(Lines) /\ up \in Seq(Lines) /\ LinesIn \in Seq(Lines) /\ n \in Seq(Lines)
    BY <1>0, <2>1, LinesInType DEF n
  <2>3. LinesIn' = M
    BY <1>1, <1>4, <2>2, SMTT(30) DEF LinesIn, n
  <2>4. NewsIn(M) <=> NewsIn(LinesIn) \/ NewsIn(n)
    BY <2>2, AppendedLines
  <2> HIDE DEF M
  <2>5. /\ NewsIn(LinesIn) => NewsIn(LinesIn)'
        /\ s = "INCOMING" \/ (s = "IDLE" /\ s_wait_response = "no") => NewsIn(LinesIn)'
    BY <2>1, <2>3, <2>4 DEF NewsIn, n
  <2>6. InService' => InService \/ s = "IDLE"
    BY <1>1 DEF InService
  <2>7. Calling => Calling'
    BY <1>1 DEF Calling
  <2>8. CASE s = "INCOMING" \/ (s = "IDLE" /\ s_wait_response = "no")
    BY <1>2, <2>5, <2>8 DEF Report, ToldOf
  <2>9. CASE s = "IDLE" /\ s_wait_response # "no"
    <3>1. CASE s_wait_response = "own"
      <4>1. Asking /\ cmd \in {"ATD", "CHLD"}
        BY <1>0, <3>1 DEF OneAnswer, Owed, LeftToPhone
      <4>2. Calling'
        BY <1>1, <4>1 DEF Calling, Asking
      <4> QED
        BY <1>2, <4>2 DEF Report, ToldOf
    <3>2. CASE s_wait_response = "stray"
      <4>1. spoiled'
        BY <1>0, <1>1, <1>4, <3>2 DEF NoStray
      <4>2. ~InService'
        BY <4>1 DEF InService
      <4> QED
        BY <1>2, <4>2, OutOfService
    <3>3. s_wait_response \in {"own", "stray"}
      BY <1>0, <2>9 DEF Marked, DaemonTypeOK, Marks
    <3> QED
      BY <3>1, <3>2, <3>3
  <2>10. CASE s # "INCOMING" /\ s # "IDLE"
    <3>1. told => told'
      BY <1>1, <2>10
    <3>2. InService' => InService
      BY <2>6, <2>10
    <3> QED
      BY <1>1, <2>5, <2>7, <3>1, <3>2, SameReport
  <2> QED
    BY <2>8, <2>9, <2>10
<1> QED
  BY <1>3, <1>4

(* A step after which the link is down keeps the third layer (who will tell the
   framework). *)
LEMMA LinkDownReport ==
  ASSUME Report, UNCHANGED sp_response, link' # "up"
  PROVE  Report'
<1>1. Unfilled' /\ ~InService'
  BY DEF Report, Unfilled, InService
<1> QED
  BY <1>1, OutOfService

(* A new state of the phone, or the SIGPIPE it ends in, keeps the third layer (who will
   tell the framework). *)
LEMMA EnterOrDieReport ==
  ASSUME Base, Match, Report, DaemonStep, NEW s, EnterOrDie(s), phone # "INIT" \/ s = "IDLE"
  PROVE  Report'
<1>1. CASE SigPipe(s)
  <2>1. DaemonRestart /\ UNCHANGED sp_response
    BY <1>1 DEF EnterOrDie, DaemonStep
  <2>2. link' # "up"
    BY <2>1 DEF DaemonRestart
  <2> QED
    BY <2>1, <2>2, LinkDownReport
<1>2. CASE ~SigPipe(s)
  <2>1. Enter(s)
    BY <1>2 DEF EnterOrDie
  <2> QED
    BY <2>1, EnterReport
<1> QED
  BY <1>1, <1>2

(* A line written to the driver keeps the third layer (who will tell the framework). *)
LEMMA LineWrittenReport ==
  ASSUME Base, Report, NEW l \in Lines, up' = Append(up, l),
         UNCHANGED <<link, phone, told, rq, cmd, sp_response, s_ATBuffer, dropped, spoiled, sState,
                     inits>>
  PROVE  Report'
<1>1. s_ATBuffer \in Seq(Lines) /\ up \in Seq(Lines) /\ LinesIn \in Seq(Lines)
  BY BaseTypes, LinesInType
<1> DEFINE r == <<l>>
           M == LinesIn \o r
<1>2. r \in Seq(Lines) /\ LinesIn' = M
  BY <1>1, SMTT(30) DEF LinesIn
<1>3. NewsIn(LinesIn) => NewsIn(M)
  BY <1>1, <1>2, AppendedLines
<1> HIDE DEF M
<1>4. NewsIn(LinesIn) => NewsIn(LinesIn)'
  BY <1>2, <1>3 DEF NewsIn
<1>5. (InService' => InService) /\ (Calling => Calling')
  BY DEF InService, Calling
<1> QED
  BY <1>4, <1>5, SameReport

(* Every step of the daemon's main loop keeps the third layer (who will tell the
   framework). *)
LEMMA SocketNextReport ==
  ASSUME Base, Match, Report, SocketNext
  PROVE  Report'
<1>0. TypeOK /\ DaemonTypeOK /\ Alternating /\ Marked
  BY BaseTypes DEF Match
<1>1. UNCHANGED <<rq, cmd, sp_response, s_ATBuffer, dropped, spoiled, sState, inits>>
  BY DEF SocketNext, channel, driver
<1>2. CASE ProcessCommands
  <2>0. PICK ok \in BOOLEAN : ProcessCommand(Executes(down), ok)
    BY <1>2 DEF ProcessCommands
  <2>1. CASE link = "gone" /\ ~Unanswered(down, ok)
    <3>1. DaemonRestart
      BY <2>0, <2>1 DEF ProcessCommand
    <3>2. link' # "up"
      BY <3>1 DEF DaemonRestart
    <3> QED
      BY <1>1, <3>2, LinkDownReport
  <2>2. CASE ~(link = "gone" /\ ~Unanswered(down, ok))
    <3> DEFINE m == AnswerMark(down)
               l == Reply(Executes(down), ok, m)
    <3>1. /\ up' = (IF Unanswered(down, ok) THEN up ELSE Append(up, l))
          /\ UNCHANGED <<link, phone, told>>
      BY <2>0, <2>2 DEF ProcessCommand
    <3>2. CASE Unanswered(down, ok)
      <4>1. /\ (InService' => InService) /\ (Calling => Calling')
            /\ NewsIn(LinesIn) => NewsIn(LinesIn)'
        BY <1>1, <3>1, <3>2 DEF InService, Calling, NewsIn, LinesIn
      <4> QED
        BY <1>1, <3>1, <4>1, SameReport
    <3>3. CASE ~Unanswered(down, ok)
      <4>1. m \in Marks
        BY <1>0, <1>2, <3>3, AnswerMarkType DEF ProcessCommands, Unanswered
      <4>2. l \in Lines
        BY <4>1, ReplyLine
      <4> HIDE DEF l
      <4> QED
        BY <1>1, <3>1, <3>3, <4>2, LineWrittenReport
    <3> QED
      BY <3>2, <3>3
  <2> QED
    BY <2>1, <2>2
<1>3. CASE SetWait
  <2>1. UNCHANGED <<link, up, phone, told>>
    BY <1>3 DEF SetWait, wire, machine
  <2>2. /\ (InService' => InService) /\ (Calling => Calling')
        /\ NewsIn(LinesIn) => NewsIn(LinesIn)'
    BY <1>1, <2>1 DEF InService, Calling, NewsIn, LinesIn
  <2> QED
    BY <1>1, <2>1, <2>2, SameReport
<1>4. CASE Disconnected
  <2>1. link' = "down"
    BY <1>4 DEF Disconnected
  <2> QED
    BY <1>1, <2>1, LinkDownReport
<1>5. CASE WriteResult
  <2>1. CASE link = "gone"
    <3>1. link' # "up"
      BY <1>5, <2>1 DEF WriteResult, DaemonRestart
    <3> QED
      BY <1>1, <3>1, LinkDownReport
  <2>2. CASE link # "gone"
    <3> DEFINE l == Line("OK", posted)
    <3>1. posted # "no" /\ up' = Append(up, l) /\ UNCHANGED <<link, phone, told>>
      BY <1>5, <2>2 DEF WriteResult
    <3>2. l \in Lines
      BY <1>0, <3>1 DEF Line, Lines, LineTexts, DaemonTypeOK
    <3> HIDE DEF l
    <3> QED
      BY <1>1, <3>1, <3>2, LineWrittenReport
  <2> QED
    BY <2>1, <2>2
<1> QED
  BY <1>2, <1>3, <1>4, <1>5 DEF SocketNext

(* Every step of the daemon's state machine keeps the third layer (who will tell the
   framework). *)
LEMMA MachineNextReport ==
  ASSUME Base, Match, Report, MachineNext
  PROVE  Report'
<1>1. DaemonStep /\ UNCHANGED <<rq, cmd, sp_response, s_ATBuffer, dropped, spoiled, sState, inits>>
  BY DEF MachineNext, DaemonStep, channel, driver
<1>2. ASSUME UNCHANGED <<wire, phone, told>> PROVE Report'
  <2>1. UNCHANGED <<link, up, phone, told>>
    BY <1>2 DEF wire
  <2>2. /\ (InService' => InService) /\ (Calling => Calling')
        /\ NewsIn(LinesIn) => NewsIn(LinesIn)'
    BY <1>1, <2>1 DEF InService, Calling, NewsIn, LinesIn
  <2> QED
    BY <1>1, <2>1, <2>2, SameReport
<1>3. CASE TakeHandfree
  BY <1>2, <1>3 DEF TakeHandfree
<1>4. CASE HookMoved
  <2> DEFINE s == AfterHook(hook, phone)
  <2>1. CASE s = phone
    BY <1>2, <1>4, <2>1 DEF HookMoved
  <2>2. CASE s # phone /\ SigPipe(s)
    <3>1. DaemonRestart
      BY <1>4, <2>2 DEF HookMoved
    <3>2. link' # "up"
      BY <3>1, <2>2 DEF DaemonRestart, SigPipe
    <3> QED
      BY <1>1, <3>2, LinkDownReport
  <2>3. CASE s # phone /\ ~SigPipe(s)
    <3>1. Enter(s)
      BY <1>4, <2>3 DEF HookMoved
    <3>2. phone # "INIT"
      BY <2>3 DEF AfterHook
    <3> HIDE DEF s
    <3> QED
      BY <1>1, <3>1, <3>2, EnterReport
  <2> QED
    BY <2>1, <2>2, <2>3
<1>5. CASE PhoneTimer
  <2>1. PICK s \in TimerNext(phone) : EnterOrDie(s)
    BY <1>5 DEF PhoneTimer
  <2>2. phone # "INIT" \/ s = "IDLE"
    BY <2>1 DEF TimerNext
  <2> QED
    BY <1>1, <2>1, <2>2, EnterOrDieReport
<1> QED
  BY <1>3, <1>4, <1>5 DEF MachineNext

(* The handset, a call on the line or the plug keeps the third layer (who will tell the
   framework). *)
LEMMA PhoneEventReport ==
  ASSUME Base, Match, Report, PhoneEvent, UNCHANGED channel, UNCHANGED driver
  PROVE  Report'
<1>1. DaemonStep /\ UNCHANGED <<rq, cmd, sp_response, s_ATBuffer, dropped, spoiled, sState, inits>>
  BY DEF DaemonStep, channel, driver
<1>2. \/ \E s \in CallStates \cup {"IDLE"} : EnterOrDie(s) /\ phone # "INIT"
      \/ UNCHANGED <<wire, phone, told>>
      \/ phone' = "INIT"
  BY DEF PhoneEvent, CallStates
<1>3. CASE \E s \in CallStates \cup {"IDLE"} : EnterOrDie(s) /\ phone # "INIT"
  BY <1>1, <1>3, EnterOrDieReport
<1>4. CASE UNCHANGED <<wire, phone, told>>
  <2>1. UNCHANGED <<link, up, phone, told>>
    BY <1>4 DEF wire
  <2>2. /\ (InService' => InService) /\ (Calling => Calling')
        /\ NewsIn(LinesIn) => NewsIn(LinesIn)'
    BY <1>1, <2>1 DEF InService, Calling, NewsIn, LinesIn
  <2> QED
    BY <1>1, <2>1, <2>2, SameReport
<1>5. CASE phone' = "INIT"
  <2>1. Unfilled' /\ ~InService'
    BY <1>1, <1>5 DEF Report, Unfilled, InService
  <2> QED
    BY <2>1, OutOfService
<1> QED
  BY <1>2, <1>3, <1>4, <1>5

(* Every step keeps the third layer (who will tell the framework). *)
LEMMA NextReport ==
  ASSUME Base, Match, Report, [Next]_vars
  PROVE  Report'
<1>1. CASE ReaderNext \/ MainNext
  BY <1>1, ReaderMainReport
<1>2. CASE RequestNext
  BY <1>2, RequestNextReport
<1>3. CASE RildRestart
  <2>1. sp_response' = NoResponse /\ sState' = "UNAVAILABLE"
    BY <1>3 DEF RildRestart
  <2>2. Unfilled' /\ ~InService'
    BY <2>1 DEF Unfilled, InService, NoResponse
  <2> QED
    BY <2>2, OutOfService
<1>4. CASE SocketNext
  BY <1>4, SocketNextReport
<1>5. CASE MachineNext
  BY <1>5, MachineNextReport
<1>6. CASE WorldNext
  <2>1. CASE PhoneEvent /\ UNCHANGED <<channel, driver>>
    BY <2>1, PhoneEventReport
  <2>2. CASE \E r \in Requests : RequestLocal(r) \/ RequestCommand(r)
    BY <2>2, RequestsReport
  <2>3. CASE RildDies
    BY <1>3, <2>3 DEF RildDies
  <2>4. CASE DaemonDies
    <3>1. DaemonRestart /\ UNCHANGED sp_response
      BY <2>4 DEF DaemonDies
    <3>2. link' # "up"
      BY <3>1 DEF DaemonRestart
    <3> QED
      BY <3>1, <3>2, LinkDownReport
  <2> QED
    BY <1>6, <2>1, <2>2, <2>3, <2>4 DEF WorldNext
<1>7. CASE UNCHANGED vars
  <2>1. UNCHANGED <<link, up, s_ATBuffer, rq, cmd, sp_response, dropped, spoiled, phone, told, sState,
                    inits>>
    BY <1>7 DEF vars, wire, channel, daemon, machine, driver
  <2>2. /\ (InService' => InService) /\ (Calling => Calling')
        /\ NewsIn(LinesIn) => NewsIn(LinesIn)'
    BY <2>1 DEF InService, Calling, NewsIn, LinesIn
  <2> QED
    BY <2>1, <2>2, SameReport
<1>8. CASE RildFaults
  BY <1>3, <1>8 DEF RildFaults
<1> QED
  BY <1>1, <1>2, <1>4, <1>5, <1>6, <1>7, <1>8 DEF Next

(* All three parts of the invariant hold in every behaviour.                *)
THEOREM DriverInvariant == Spec => []DriverInv
<1>1. Init => Report
  <2> SUFFICES ASSUME Init PROVE Report
    OBVIOUS
  <2>1. link = "down" /\ sp_response = NoResponse
    BY DEF Init, ChannelInit
  <2> QED
    BY <2>1 DEF Report, ToldOf, InService, Unfilled, NoResponse
<1>2. Init => Base /\ Match /\ Report
  BY <1>1, InitBase, InitMatch
<1>3. Base /\ Match /\ Report /\ [Next]_vars => (Base /\ Match /\ Report)'
  BY NextBase, NextMatch, NextReport
<1>4. Base /\ Match /\ Report => DriverInv
  BY DEF DriverInv, Base, Match, Report
<1> QED
  BY <1>2, <1>3, <1>4, PTL DEF Spec

(* When all is quiet the framework knows of the last ring and of the end of *)
(* the last call, unless a line was thrown away behind a NUL byte or an     *)
(* answer was mistaken.                                                     *)
THEOREM CallsAreReported == Spec => []CallsReported
<1>1. DriverInv => CallsReported
  <2> SUFFICES ASSUME DriverInv, Quiet, sState = "SIM_READY", phone # "INIT", ~dropped, ~spoiled
               PROVE  told
    BY DEF CallsReported
  <2>1. TypeOK /\ OneAnswer /\ ToldOf
    BY DEF DriverInv
  <2>2. /\ link = "up" /\ up = <<>> /\ s_ATBuffer = <<>> /\ rq = "idle" /\ inits = 0
    BY DEF Quiet
  <2>3. LinesIn = <<>>
    BY <2>1, <2>2, LinesInType
  <2>4. ~NewsIn(LinesIn)
    <3>1. Len(<<>>) = 0 /\ 1..0 = {}
      OBVIOUS
    <3> QED
      BY <2>3, <3>1 DEF NewsIn
  <2>5. sp_response = NoResponse
    BY <2>1, <2>2 DEF OneAnswer
  <2>6. sp_response.by # "news" /\ sp_response.final # "NO_CARRIER"
    BY <2>5 DEF NoResponse
  <2>7. InService /\ ~Calling
    BY <2>2 DEF InService, Calling
  <2> QED
    BY <2>1, <2>2, <2>4, <2>6, <2>7 DEF ToldOf
<1> QED
  BY <1>1, DriverInvariant, PTL
-----------------------------------------------------------------------------
(* What the driver reads.                                                  *)

(* The call that requestGetCurrentCalls reads in a line the daemon wrote, for every
   number that the telephone can report and not only for those the run looks at. *)
LEMMA CallOfLine ==
  ASSUME NEW t \in ClccTexts, NEW dir \in {"0", "1"}, NEW digits \in Seq(0..9)
  PROVE  LET c == CallOf(t, dir, fsk_to_string(digits \o <<15>>))
         IN  /\ c.ok
             /\ c.isMT = Value[dir]
             /\ [j \in DOMAIN c.number |-> Value[c.number[j]]] = digits
             /\ c.state = CASE t = "+CLCC:0" -> "ACTIVE"
                            [] t = "+CLCC:2" -> "DIALING"
                            [] OTHER -> "INCOMING"
<1> DEFINE number == fsk_to_string(digits \o <<15>>)
<1> DEFINE c == CallOf(t, dir, number)
<1>1. StateOf(t) \in {"0", "1", "2", "3", "4", "5"}
  BY DEF StateOf
<1>2. /\ number \in Seq(Digits) /\ Len(number) = Len(digits)
      /\ \A i \in 1..Len(digits) : Value[number[i]] = digits[i]
  <2>1. 15 \in 10..15
    OBVIOUS
  <2> QED
    BY <2>1, FskDigits
<1> HIDE DEF number
<1>3. c = [ok |-> TRUE, isMT |-> Value[dir], state |-> CallState(Value[StateOf(t)]),
           number |-> number]
  BY <1>1, <1>2, ClccReadBack DEF CallOf
<1> HIDE DEF c
<1>4. [j \in DOMAIN number |-> Value[number[j]]] = digits
  <2>1. /\ DOMAIN number = 1..Len(digits) /\ DOMAIN digits = 1..Len(digits)
        /\ digits = [j \in 1..Len(digits) |-> digits[j]]
    BY <1>2
  <2> QED
    BY <1>2, <2>1
<1>5. CallState(Value[StateOf(t)]) = CASE t = "+CLCC:0" -> "ACTIVE"
                                       [] t = "+CLCC:2" -> "DIALING"
                                       [] OTHER -> "INCOMING"
  <2>1. Value["0"] = 0 /\ Value["2"] = 2 /\ Value["4"] = 4
    BY DEF Value, Numbers, Digits
  <2>2. CallState(0) = "ACTIVE" /\ CallState(2) = "DIALING" /\ CallState(4) = "INCOMING"
    BY DEF CallState
  <2> QED
    BY <2>1, <2>2 DEF StateOf, ClccTexts
<1>6. /\ c.ok /\ c.isMT = Value[dir] /\ c.number = number
      /\ c.state = CallState(Value[StateOf(t)])
  BY <1>3
<1> QED
  BY <1>4, <1>5, <1>6 DEF c, number

(* What the driver reads in every line under way is the call the daemon wrote it for
   (ClccUnderstood): at_tok.c splits what asprintf of processCommandBuffer and
   fsk_to_string have put together. *)
THEOREM ClccIsUnderstood == Spec => []ClccUnderstood
<1>1. Callers \subseteq Seq(0..9)
  BY DEF Callers
<1>2. ASSUME NEW t \in ClccTexts, NEW dir \in {"0", "1"}, NEW digits \in Callers
      PROVE  CallRead[t][dir][digits] = CallOf(t, dir, fsk_to_string(digits \o <<15>>))
  BY <1>2 DEF CallRead
<1>3. ClccUnderstood
  <2> SUFFICES ASSUME NEW i \in DOMAIN up, NEW dir \in {"0", "1"}, NEW digits \in Callers,
                      up[i].t \in ClccTexts
               PROVE  LET c == CallRead[up[i].t][dir][digits]
                      IN  /\ c.ok
                          /\ c.isMT = Value[dir]
                          /\ [j \in DOMAIN c.number |-> Value[c.number[j]]] = digits
                          /\ c.state = CASE up[i].t = "+CLCC:0" -> "ACTIVE"
                                         [] up[i].t = "+CLCC:2" -> "DIALING"
                                         [] OTHER -> "INCOMING"
    BY DEF ClccUnderstood
  <2>1. digits \in Seq(0..9)
    BY <1>1
  <2>2. CallRead[up[i].t][dir][digits] = CallOf(up[i].t, dir, fsk_to_string(digits \o <<15>>))
    BY <1>2
  <2> QED
    BY <2>1, <2>2, CallOfLine
<1> QED
  BY <1>3, PTL DEF Spec
=============================================================================
