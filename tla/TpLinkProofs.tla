---------------------------- MODULE TpLinkProofs ----------------------------
(***************************************************************************)
(* Proofs about TpLink, for every set of requests and reports and every    *)
(* bound.                                                                  *)
(***************************************************************************)
EXTENDS TpLink, TLAPS

USE LineAssumption, BoundAssumption

(* Cutting into lines: n bytes fill l lines of b, the last one perhaps in part. *)
LEMMA RoundUp ==
  ASSUME NEW n \in Nat, NEW b \in Nat \ {0}
  PROVE  LET l == (n + b - 1) \div b IN l \in Nat /\ n <= l * b /\ l * b < n + b
<1> DEFINE a == n + b - 1
<1>1. a \in Nat /\ b \in Nat \ {0}
  OBVIOUS
<1> HIDE DEF a
<1>2. a = (b * (a \div b)) + (a % b) /\ a % b \in 0..(b - 1) /\ a \div b \in Nat
  BY <1>1
<1> QED
  BY <1>2 DEF a

(* The number of lines make_cmd cuts a request into.                        *)
LEMMA LineCountType == \A p \in ParamSizes : LineCount(p) \in Nat
BY DEF LineCount

(* make_cmd's loop leaves no byte of the request behind and no line empty: the flag,
   the size, the command and p bytes of parameters fit into LineCount(p) lines and
   not into one fewer.  They fit into a buffer of m lines (HIDPUD_LINE_MAX) exactly
   when they are no more than its bytes. *)
THEOREM LinesAreExact ==
  ASSUME NEW p \in Nat, NEW m \in Nat
  PROVE  /\ (LineCount(p) - 1) * TPPDU_LINE_BYTES < p + 3
         /\ p + 3 <= LineCount(p) * TPPDU_LINE_BYTES
         /\ LineCount(p) <= m <=> p + 3 <= m * TPPDU_LINE_BYTES
<1> DEFINE b == TPPDU_LINE_BYTES
           l == LineCount(p)
<1>1. b \in Nat \ {0}
  OBVIOUS
<1>2. l \in Nat /\ p + 3 <= l * b /\ l * b < p + 3 + b
  <2>1. p + 3 \in Nat
    OBVIOUS
  <2> QED
    BY <1>1, <2>1, RoundUp DEF LineCount
<1> HIDE DEF b, l
<1>3. (l - 1) * b = l * b - b
  BY <1>1, <1>2
<1>4. ASSUME l <= m PROVE l * b <= m * b
  <2>1. (m - l) * b \in Nat /\ (m - l) * b = m * b - l * b
    BY <1>1, <1>2, <1>4
  <2> QED
    BY <1>1, <1>2, <2>1
<1>5. ASSUME m < l PROVE m * b <= (l - 1) * b
  <2>1. (l - 1 - m) * b \in Nat /\ (l - 1 - m) * b = (l - 1) * b - m * b
    BY <1>1, <1>2, <1>5
  <2> QED
    BY <1>1, <1>2, <2>1
<1>6. l * b \in Nat /\ m * b \in Nat
  BY <1>1, <1>2
<1>7. l <= m <=> p + 3 <= m * b
  BY <1>1, <1>2, <1>3, <1>4, <1>5, <1>6
<1> QED
  BY <1>1, <1>2, <1>3, <1>6, <1>7 DEF b, l

(* Whatever the device does is one line that it sends.                      *)
LEMMA DeviceLine ==
  ASSUME TypeOK, DeviceStep
  PROVE  /\ noise' \in Nat
         /\ \E l \in Lines :
              /\ Send(l)
              /\ l.before = dev
              /\ \/ /\ l.kind = "part" /\ l.from = 1 /\ l.id = dev.id + 1
                    /\ l.id <= MaxReports /\ 2 <= l.to /\ l.to <= l.of
                 \/ /\ l.id = dev.id /\ l.from = dev.sent + 1 /\ l.of = dev.of
                    /\ \/ l.kind = "part" /\ l.from <= l.to /\ l.to <= l.of
                       \/ l.kind = "empty" /\ l.ack = 1 /\ l.to = dev.sent
                       \/ l.kind = "foreign" /\ l.ack = 0 /\ l.to = dev.sent
<1>1. dev \in Devices /\ noise \in Nat
  BY DEF TypeOK
<1>2. dev.id \in Nat /\ dev.sent \in Nat /\ dev.of \in Nat
  BY <1>1 DEF Devices
<1>3. CASE SendAnswer
  <2> DEFINE l == Line(1, "empty", 0)
  <2>1. l \in Lines
    BY <1>1, <1>2 DEF Line, Lines
  <2>2. /\ l.before = dev /\ l.id = dev.id /\ l.from = dev.sent + 1 /\ l.of = dev.of
        /\ l.kind = "empty" /\ l.ack = 1 /\ l.to = dev.sent
    BY <1>2 DEF Line
  <2>3. Send(l) /\ noise' = noise
    BY <1>3 DEF SendAnswer
  <2> HIDE DEF l
  <2> QED
    BY <1>1, <2>1, <2>2, <2>3
<1>4. ASSUME NEW ack \in {0, 1}, NEW n \in ReportSizes, NEW b \in 2..TPPDU_LINE_BYTES,
             StartReport(ack, n, b)
      PROVE  /\ noise' \in Nat
             /\ \E l \in Lines :
                  /\ Send(l)
                  /\ l.before = dev
                  /\ l.kind = "part" /\ l.from = 1 /\ l.id = dev.id + 1
                  /\ l.id <= MaxReports /\ 2 <= l.to /\ l.to <= l.of
  <2> DEFINE l == FirstLine(ack, n, b)
  <2>1. n \in Nat /\ b \in Nat /\ 2 <= b
    OBVIOUS
  <2>2. l \in Lines
    BY <1>1, <1>2, <2>1 DEF FirstLine, Lines
  <2>3. b <= n /\ dev.id + 1 <= MaxReports
    BY <1>2, <1>4 DEF StartReport
  <2>4. /\ l.before = dev /\ l.kind = "part" /\ l.from = 1 /\ l.id = dev.id + 1
        /\ l.to = b /\ l.of = n
    BY DEF FirstLine
  <2>5. Send(l) /\ noise' = noise
    BY <1>4 DEF StartReport
  <2> HIDE DEF l
  <2> QED
    BY <1>1, <2>1, <2>2, <2>3, <2>4, <2>5
<1>5. ASSUME NEW ack \in {0, 1}, NEW b \in 1..TPPDU_LINE_BYTES, SendPart(ack, b)
      PROVE  /\ noise' \in Nat
             /\ \E l \in Lines :
                  /\ Send(l)
                  /\ l.before = dev
                  /\ l.id = dev.id /\ l.from = dev.sent + 1 /\ l.of = dev.of
                  /\ l.kind = "part" /\ l.from <= l.to /\ l.to <= l.of
  <2> DEFINE l == Line(ack, "part", b)
  <2>1. b \in Nat /\ 1 <= b
    OBVIOUS
  <2>2. l \in Lines
    BY <1>1, <1>2, <2>1 DEF Line, Lines
  <2>3. /\ l.before = dev /\ l.id = dev.id /\ l.from = dev.sent + 1 /\ l.of = dev.of
        /\ l.kind = "part" /\ l.to = dev.sent + b
    BY DEF Line
  <2>4. Send(l) /\ noise' = noise /\ dev.sent + b <= dev.of
    BY <1>5 DEF SendPart
  <2> HIDE DEF l
  <2>5. l.from <= l.to /\ l.to <= l.of
    BY <1>2, <2>1, <2>3, <2>4
  <2> QED
    BY <1>1, <2>2, <2>3, <2>4, <2>5
<1>6. CASE SendForeign
  <2> DEFINE l == Line(0, "foreign", 0)
  <2>1. l \in Lines
    BY <1>1, <1>2 DEF Line, Lines
  <2>2. /\ l.before = dev /\ l.id = dev.id /\ l.from = dev.sent + 1 /\ l.of = dev.of
        /\ l.kind = "foreign" /\ l.ack = 0 /\ l.to = dev.sent
    BY <1>2 DEF Line
  <2>3. Send(l) /\ noise' = noise + 1
    BY <1>6 DEF SendForeign
  <2> HIDE DEF l
  <2> QED
    BY <1>1, <2>1, <2>2, <2>3
<1> QED
  BY <1>3, <1>4, <1>5, <1>6 DEF DeviceStep

(* The device after a line has its type.                                    *)
LEMMA AfterType == \A l \in Lines : After(l) \in Devices
BY DEF After, Lines, Devices

(* The bytes put together have their type.                                  *)
LEMMA JoinedType ==
  ASSUME NEW pdu \in Pdus, NEW l \in Lines
  PROVE  Joined(pdu, l) \in Pdus
<1> DEFINE size == l.to - l.from + 1
<1>1. size \in Nat /\ l.id \in Nat /\ l.from \in Nat /\ l.of \in Nat
  BY DEF Lines
<1>2. pdu.size \in Nat /\ pdu.bytes \in {"own", "mixed"}
  BY DEF Pdus
<1> HIDE DEF size
<1>3. [id |-> l.id, first |-> l.from, of |-> l.of, size |-> size, bytes |-> "own"] \in Pdus
  BY <1>1 DEF Pdus
<1>4. \A b \in {"own", "mixed"} : [pdu EXCEPT !.size = pdu.size + size, !.bytes = b] \in Pdus
  <2> SUFFICES ASSUME NEW b \in {"own", "mixed"}
               PROVE  [pdu EXCEPT !.size = pdu.size + size, !.bytes = b] \in Pdus
    OBVIOUS
  <2>1. [pdu EXCEPT !.size = pdu.size + size] \in Pdus
    BY <1>1, <1>2 DEF Pdus
  <2>2. \A p \in Pdus : [p EXCEPT !.bytes = b] \in Pdus
    BY DEF Pdus
  <2> QED
    BY <2>1, <2>2
<1>5. (IF l.id = pdu.id /\ l.from = pdu.size + 1 THEN pdu.bytes ELSE "mixed") \in {"own", "mixed"}
  BY <1>2
<1>6. Joined(pdu, l) =
        IF pdu.size = 0
        THEN [id |-> l.id, first |-> l.from, of |-> l.of, size |-> size, bytes |-> "own"]
        ELSE [pdu EXCEPT !.size = pdu.size + size,
                         !.bytes = IF l.id = pdu.id /\ l.from = pdu.size + 1 THEN pdu.bytes
                                   ELSE "mixed"]
  BY DEF Joined, size
<1> QED
  BY <1>3, <1>4, <1>5, <1>6

(* Every variable of the link keeps its type.                               *)
THEOREM TypeCorrect == Spec => []TypeOK
<1>1. Init => TypeOK
  BY DEF Init, TypeOK, Devices, Pdus, Empty
<1>2. TypeOK /\ [Next]_vars => TypeOK'
  <2> SUFFICES ASSUME TypeOK, [Next]_vars
               PROVE  TypeOK'
    OBVIOUS
  <2> USE DEF TypeOK
  <2>1. ASSUME NEW p \in ParamSizes, SendCmd(LineCount(p)) PROVE TypeOK'
    BY <2>1, LineCountType DEF SendCmd, devVars, recvVars
  <2>2. CASE SendCmd(0)
    BY <2>2 DEF SendCmd, devVars, recvVars
  <2>3. CASE WriteLine
    BY <2>3 DEF WriteLine, devVars, recvVars
  <2>4. CASE Wait
    BY <2>4 DEF Wait, devVars, recvVars
  <2>5. CASE CmdDone
    BY <2>5 DEF CmdDone, devVars, recvVars
  <2>6. CASE WriteFails
    BY <2>6 DEF WriteFails, devVars, recvVars
  <2>7. CASE Recv
    <3> DEFINE l == Head(in)
               pdu == Joined(Kept(l), l)
               post == [id |-> pdu.id, bytes |-> pdu.bytes]
    <3>1. in # <<>> /\ l \in Lines /\ in' \in Seq(Lines)
      BY <2>7 DEF Recv
    <3>2. Empty \in Pdus
      BY DEF Empty, Pdus
    <3> HIDE DEF l
    <3>3. Kept(l) \in Pdus
      BY <3>2 DEF Kept
    <3>4. pdu \in Pdus
      BY <3>1, <3>3, JoinedType
    <3> HIDE DEF pdu
    <3>5. post \in [id : Nat, bytes : {"own", "mixed"}]
      BY <3>4 DEF Pdus
    <3>6. \/ s_pdu' \in {pdu, Empty} /\ posted' \in {posted, Append(posted, post)}
          \/ s_pdu' \in {Kept(l), Empty} /\ posted' = posted
      BY <2>7 DEF Recv, RecvPart, RecvEmpty, RecvForeign, l, pdu
    <3> HIDE DEF post
    <3>7. s_pdu' \in Pdus /\ posted' \in Seq([id : Nat, bytes : {"own", "mixed"}])
      <4>1. Append(posted, post) \in Seq([id : Nat, bytes : {"own", "mixed"}])
        BY <3>5
      <4> QED
        BY <3>2, <3>3, <3>4, <3>6, <4>1
    <3>8. pc' \in {pc, "write"}
      BY <2>7 DEF Recv, Broadcast
    <3> QED
      BY <2>7, <3>1, <3>7, <3>8 DEF Recv, devVars
  <2>8. CASE ReadFails
    BY <2>8 DEF ReadFails, sendVars, devVars, recvVars
  <2>9. CASE DeviceStep
    <3>1. noise' \in Nat
      BY <2>9, DeviceLine
    <3>2. PICK l \in Lines : Send(l)
      BY <2>9, DeviceLine
    <3>3. After(l) \in Devices /\ l.id \in Nat /\ l.before.id \in Nat /\ l.ack \in {0, 1}
      BY AfterType DEF Lines, Devices
    <3>4. asked' \in Nat
      BY <3>2, <3>3 DEF Send
    <3>5. in' \in Seq(Lines) /\ dev' \in Devices
      BY <3>2, <3>3 DEF Send
    <3>6. whole' \subseteq Nat /\ doubt' \subseteq Nat
      BY <3>2, <3>3 DEF Send
    <3> QED
      BY <3>1, <3>2, <3>4, <3>5, <3>6 DEF Send, sendVars, recvVars
  <2>10. CASE UNCHANGED vars
    BY <2>10 DEF vars, sendVars, devVars, recvVars
  <2> QED
    BY <2>1, <2>2, <2>3, <2>4, <2>5, <2>6, <2>7, <2>8, <2>9, <2>10 DEF Next, SenderStep
<1> QED
  BY <1>1, <1>2, PTL DEF Spec

-----------------------------------------------------------------------------
\* At most one line is unanswered or has its answer under way, and none when
\* the sender is about to write.
OneOutstanding ==
  /\ asked \in {0, 1}
  /\ \A i, j \in 1..Len(in) : in[i].ack = 1 /\ in[j].ack = 1 => i = j
  /\ asked = 1 => \A i \in 1..Len(in) : in[i].ack = 0
  /\ AnswerBeforeNext

(* The lines under way when one is added. *)
LEMMA Added ==
  ASSUME TypeOK, NEW l \in Lines, in' = Append(in, l)
  PROVE  /\ Len(in) \in Nat
         /\ Len(in') = Len(in) + 1
         /\ \A i \in 1..Len(in) : in'[i] = in[i] /\ in[i] \in Lines
         /\ in'[Len(in) + 1] = l
         /\ \A i \in 1..Len(in') : i \in 1..Len(in) \/ i = Len(in) + 1
BY DEF TypeOK

(* The lines under way when the first one is read. *)
LEMMA Taken ==
  ASSUME TypeOK, in # <<>>, in' = Tail(in)
  PROVE  /\ Len(in) \in Nat /\ 1 \in 1..Len(in)
         /\ Head(in) = in[1] /\ in[1] \in Lines
         /\ Len(in') = Len(in) - 1
         /\ \A i \in 1..Len(in') : in'[i] = in[i + 1] /\ i + 1 \in 2..Len(in)
         /\ \A i \in 2..Len(in) : i - 1 \in 1..Len(in') /\ in'[i - 1] = in[i]
         /\ \A i \in 1..Len(in) : in[i] \in Lines
BY DEF TypeOK

(* No step lets a second line under way. *)
LEMMA OneOutstandingKept == TypeOK /\ OneOutstanding /\ [Next]_vars => OneOutstanding'
<1> SUFFICES ASSUME TypeOK, OneOutstanding, [Next]_vars
             PROVE  OneOutstanding'
  OBVIOUS
<1> USE DEF OneOutstanding, AnswerBeforeNext, LinkQuiet
<1>1. ASSUME NEW n, SendCmd(n) PROVE OneOutstanding'
  BY <1>1 DEF SendCmd
<1>2. CASE WriteLine
  BY <1>2 DEF WriteLine
<1>3. CASE Wait
  BY <1>3 DEF Wait
<1>4. CASE CmdDone
  BY <1>4 DEF CmdDone
<1>5. CASE WriteFails
  BY <1>5 DEF WriteFails
<1>6. CASE Recv
  <2>1. in # <<>> /\ in' = Tail(in) /\ asked' = asked
    BY <1>6 DEF Recv
  <2>2. CASE in[1].ack = 1
    <3>1. \A i \in 1..Len(in') : in'[i].ack # 1
      BY <2>1, <2>2, Taken
    <3>2. asked' = 0
      BY <2>1, <2>2, Taken
    <3>3. \A i \in 1..Len(in') : in'[i].ack = 0
      BY <2>1, <3>1, Taken DEF Lines
    <3> QED
      BY <3>1, <3>2, <3>3
  <2>3. CASE in[1].ack # 1
    <3>1. pc' = pc
      BY <1>6, <2>1, <2>3, Taken DEF Recv
    <3> QED
      BY <2>1, <3>1, Taken
  <2> QED
    BY <2>2, <2>3
<1>7. CASE ReadFails
  BY <1>7 DEF ReadFails, sendVars
<1>8. CASE DeviceStep
  <2>1. PICK l \in Lines : Send(l)
    BY <1>8, DeviceLine
  <2>2. l.ack \in {0, 1} /\ in' = Append(in, l) /\ pc' = pc
        /\ asked' = asked - l.ack /\ l.ack <= asked
    BY <2>1 DEF Send, Lines, sendVars
  <2>3. CASE l.ack = 0
    <3>1. \A i \in 1..Len(in') : in'[i].ack = 1 => i \in 1..Len(in) /\ in[i].ack = 1
      BY <2>2, <2>3, Added
    <3>2. asked' = asked
      BY <2>2, <2>3
    <3>3. (\A i \in 1..Len(in) : in[i].ack = 0) => \A i \in 1..Len(in') : in'[i].ack = 0
      BY <2>2, <2>3, Added
    <3> QED
      BY <2>2, <3>1, <3>2, <3>3, Added
  <2>4. CASE l.ack = 1
    <3>1. asked = 1 /\ asked' = 0
      BY <2>2, <2>4
    <3>2. \A i \in 1..Len(in') : in'[i].ack = 1 => i = Len(in) + 1
      BY <2>2, <3>1, Added
    <3>3. pc \notin {"idle", "write"}
      BY <3>1
    <3> QED
      BY <2>2, <3>1, <3>2, <3>3
  <2> QED
    BY <2>2, <2>3, <2>4
<1>9. CASE UNCHANGED vars
  BY <1>9 DEF vars, sendVars
<1> QED
  BY <1>1, <1>2, <1>3, <1>4, <1>5, <1>6, <1>7, <1>8, <1>9 DEF Next, SenderStep

(* The invariant behind AnswersFirst. *)
LEMMA OneOutstandingHolds == Spec => []OneOutstanding
<1>1. Init => OneOutstanding
  BY DEF Init, OneOutstanding, AnswerBeforeNext, LinkQuiet
<1> QED
  BY <1>1, OneOutstandingKept, TypeCorrect, PTL DEF Spec

(* A line of a request is written only when the device has answered every   *)
(* line before it (tpp_send_cmd waits after each write).                    *)
THEOREM AnswersFirst == Spec => []AnswerBeforeNext
<1>1. OneOutstanding => AnswerBeforeNext
  BY DEF OneOutstanding
<1> QED
  BY <1>1, OneOutstandingHolds, PTL
-----------------------------------------------------------------------------
(* The reports.  Each line carries the device's state before it, so the     *)
(* lines under way make a chain from the receiver to the device, and the    *)
(* head of the chain says what the receiver holds.                          *)

\* The fields of a line against the device that sent it.
Sound(l) ==
  \/ /\ l.kind = "part" /\ l.from = 1 /\ l.id = l.before.id + 1
     /\ 2 <= l.to /\ l.to <= l.of
  \/ /\ l.id = l.before.id /\ l.from = l.before.sent + 1 /\ l.of = l.before.of
     /\ l.kind = "part" => 1 < l.from /\ l.from <= l.to /\ l.to <= l.of
     /\ l.kind # "part" => l.to = l.before.sent
     /\ l.kind = "empty" => l.ack = 1

\* The device before the i-th line under way, or as it is now.
At(i) == IF i \in 1..Len(in) THEN in[i].before ELSE dev

Chain == \A i \in 1..Len(in) : Sound(in[i]) /\ After(in[i]) = At(i + 1)

\* The device has begun the report it has a size for.
Begun == dev.id <= MaxReports /\ (dev.of = 0 \/ dev.sent >= 1)

\* What the receiver holds.
Holds ==
  /\ At(1).open = "no" => s_pdu.size = 0
  /\ At(1).open = "yes" =>
       /\ s_pdu.id = At(1).id /\ s_pdu.first = 1 /\ s_pdu.of = At(1).of
       /\ s_pdu.size = At(1).sent /\ 0 < s_pdu.size /\ s_pdu.size < s_pdu.of
       /\ s_pdu.bytes = "own"
  /\ At(1).open = "broken" =>
       \/ s_pdu.size = 0
       \/ /\ s_pdu.id \in doubt /\ s_pdu.id <= At(1).id /\ s_pdu.first = 1
          /\ s_pdu.size < s_pdu.of

\* The reports are numbered as they are sent.
Numbered ==
  /\ \A i, j \in 1..Len(in) : i <= j => in[i].id <= in[j].id
  /\ \A i \in 1..Len(in) : in[i].id <= dev.id

\* The two histories.
Histories ==
  /\ whole \cup doubt \subseteq 1..dev.id
  /\ whole \cap doubt = {}
  /\ dev.open = "yes" => dev.id \in Nat \ {0} /\ dev.id \notin whole \cup doubt
  /\ dev.open = "broken" => dev.id \in doubt

\* The lines that end the reports that are due, and those that spoil reports.
Pending ==
  /\ \A i \in 1..Len(in) : Completes(in[i]) => in[i].id \in whole
  /\ \A i \in 1..Len(in) : Breaks(in[i]) => {in[i].before.id, in[i].id} \subseteq doubt
  /\ \A r \in whole \ Handed : \E i \in 1..Len(in) : Completes(in[i]) /\ in[i].id = r
  /\ \A i, j \in 1..Len(in) :
       i < j /\ Completes(in[i]) /\ Completes(in[j]) => in[i].id < in[j].id

\* The reports posted lie before the one in the buffer and those that are due.
Posted ==
  /\ \A i, j \in 1..Len(posted) : i < j => posted[i].id < posted[j].id
  /\ \A i \in 1..Len(posted) :
       \/ posted[i].id \in whole /\ posted[i].bytes = "own"
       \/ posted[i].id \in doubt
  /\ \A i \in 1..Len(posted) : posted[i].id <= At(1).id
  /\ \A i \in 1..Len(posted) : s_pdu.size > 0 => posted[i].id < s_pdu.id
  /\ \A i \in 1..Len(posted), j \in 1..Len(in) : Completes(in[j]) => posted[i].id < in[j].id

StreamInv == Chain /\ Begun /\ Holds /\ Numbered /\ Histories /\ Pending /\ Posted
(* What the fields of a line are. *)
LEMMA LineFields ==
  ASSUME NEW l \in Lines
  PROVE  /\ l.ack \in {0, 1} /\ l.kind \in {"part", "empty", "foreign"}
         /\ l.id \in Nat /\ l.from \in Nat /\ l.to \in Nat /\ l.of \in Nat
         /\ l.before \in Devices /\ l.before.open \in {"no", "yes", "broken"}
         /\ l.before.id \in Nat /\ l.before.sent \in Nat /\ l.before.of \in Nat
BY DEF Lines, Devices

(* The fields of the device after a line. *)
LEMMA AfterFields ==
  ASSUME NEW l \in Lines
  PROVE  /\ After(l).id = l.id /\ After(l).sent = l.to /\ After(l).of = l.of
         /\ Completes(l) => After(l).open = "no"
         /\ After(l).open = "yes" => Fits(l) /\ ~Completes(l)
         /\ After(l).open = "broken" => l.kind = "part" /\ ~Apart(l) /\ ~Fits(l)
         /\ After(l).open = "no" => Completes(l) \/ l.kind # "part" \/ Apart(l)
BY DEF After, Completes

(* What the device sends, and the histories with it: a report that is completed *)
(* is a new one, and one that is broken off has not been completed.             *)
LEMMA SentLine ==
  ASSUME TypeOK, StreamInv, DeviceStep
  PROVE  \E l \in Lines :
           /\ Send(l) /\ l.before = dev /\ Sound(l) /\ l.id <= MaxReports
           /\ Completes(l) => l.id \notin whole \cup doubt /\ l.id \in Nat \ {0}
           /\ Breaks(l) => /\ ~Completes(l) /\ dev.open \in {"yes", "broken"}
                           /\ l.id = dev.id + 1 /\ dev.id # 0 /\ dev.id \notin whole
<1>1. PICK l \in Lines :
        /\ Send(l) /\ l.before = dev
        /\ \/ /\ l.kind = "part" /\ l.from = 1 /\ l.id = dev.id + 1
              /\ l.id <= MaxReports /\ 2 <= l.to /\ l.to <= l.of
           \/ /\ l.id = dev.id /\ l.from = dev.sent + 1 /\ l.of = dev.of
              /\ \/ l.kind = "part" /\ l.from <= l.to /\ l.to <= l.of
                 \/ l.kind = "empty" /\ l.ack = 1 /\ l.to = dev.sent
                 \/ l.kind = "foreign" /\ l.ack = 0 /\ l.to = dev.sent
  BY DeviceLine
<1>2. /\ dev.id \in Nat /\ dev.sent \in Nat /\ dev.of \in Nat
      /\ dev.open \in {"no", "yes", "broken"}
  BY DEF TypeOK, Devices
<1>3. Sound(l) /\ l.id <= MaxReports
  BY <1>1, <1>2, LineFields DEF Sound, StreamInv, Begun
<1>4. Completes(l) => l.id \notin whole \cup doubt /\ l.id \in Nat \ {0}
  <2>1. CASE Apart(l)
    <3>1. Completes(l) => l.id = dev.id + 1
      BY <1>1, <1>2, <2>1, <1>3 DEF Completes, Fits, Sound
    <3> QED
      BY <1>2, <3>1 DEF StreamInv, Histories
  <2>2. CASE ~Apart(l)
    <3>1. Completes(l) => dev.open = "yes" /\ l.from > 1
      BY <1>1, <2>2 DEF Completes, Fits
    <3>2. Completes(l) => l.id = dev.id
      BY <1>1, <3>1
    <3> QED
      BY <3>1, <3>2 DEF StreamInv, Histories
  <2> QED
    BY <2>1, <2>2
<1>5. Breaks(l) => /\ ~Completes(l) /\ dev.open \in {"yes", "broken"}
                    /\ l.id = dev.id + 1 /\ dev.id # 0 /\ dev.id \notin whole
  BY <1>1, <1>2, <1>3, LineFields DEF Breaks, Completes, Fits, Apart, Sound, StreamInv, Histories
<1> QED
  BY <1>1, <1>3, <1>4, <1>5

(* A line sent by the device. *)
LEMMA SendInv ==
  ASSUME TypeOK, StreamInv, DeviceStep
  PROVE  StreamInv'
<1>1. PICK l \in Lines :
        /\ Send(l) /\ l.before = dev /\ Sound(l) /\ l.id <= MaxReports
        /\ Completes(l) => l.id \notin whole \cup doubt /\ l.id \in Nat \ {0}
        /\ Breaks(l) => /\ ~Completes(l) /\ dev.open \in {"yes", "broken"}
                        /\ l.id = dev.id + 1 /\ dev.id # 0 /\ dev.id \notin whole
  BY SentLine
<1>2. /\ in' = Append(in, l) /\ dev' = After(l)
      /\ whole' = IF Completes(l) THEN whole \cup {l.id} ELSE whole
      /\ doubt' = IF Breaks(l) THEN doubt \cup {dev.id, l.id} ELSE doubt
      /\ s_pdu' = s_pdu /\ posted' = posted
  BY <1>1 DEF Send, recvVars
<1>3. /\ dev.id \in Nat /\ dev.sent \in Nat /\ dev.of \in Nat
      /\ dev.open \in {"no", "yes", "broken"}
  BY DEF TypeOK, Devices
<1>5. dev'.id = l.id /\ dev'.sent = l.to /\ dev'.of = l.of
  BY <1>2, AfterFields
<1>6. dev.id <= l.id
  BY <1>1, <1>3 DEF Sound
<1>7. Begun'
  BY <1>1, <1>3, <1>5, LineFields DEF StreamInv, Begun, Sound
<1>8. \A i \in 1..(Len(in) + 1) : At(i)' = At(i)
  BY <1>1, <1>2, Added DEF At
<1>9. Chain'
  <2>1. ASSUME NEW i \in 1..Len(in) PROVE Sound(in'[i]) /\ After(in'[i]) = At(i + 1)'
    BY <1>2, <1>8, Added DEF StreamInv, Chain
  <2>2. ASSUME NEW n, n = Len(in) + 2 PROVE At(n)' = After(l)
    BY <1>2, <2>2, Added DEF At
  <2>3. ASSUME NEW i \in 1..Len(in') PROVE Sound(in'[i]) /\ After(in'[i]) = At(i + 1)'
    <3>1. CASE i \in 1..Len(in)
      BY <2>1, <3>1
    <3>2. CASE i = Len(in) + 1
      <4>1. i + 1 = Len(in) + 2
        BY <1>2, <3>2, Added
      <4>2. At(i + 1)' = After(l)
        BY <2>2, <4>1
      <4> QED
        BY <1>1, <1>2, <3>2, <4>2, Added
    <3> QED
      BY <1>2, <3>1, <3>2, Added
  <2> QED
    BY <2>3 DEF Chain
<1>10. Numbered'
  <2>1. l.id \in Nat
    BY LineFields
  <2>2. \A i \in 1..Len(in) : in[i].id \in Nat /\ in[i].id <= l.id
    BY <1>1, <1>2, <1>3, <1>6, <2>1, Added, LineFields DEF StreamInv, Numbered
  <2> QED
    BY <1>1, <1>2, <1>5, <2>1, <2>2, Added DEF StreamInv, Numbered
<1>11. At(1)' = At(1)
  BY <1>2, <1>8, Added
<1>12. doubt \subseteq doubt' /\ whole \subseteq whole'
  BY <1>2
<1>13. Holds'
  BY <1>2, <1>11, <1>12 DEF StreamInv, Holds
<1>16. Histories'
  <2>1. l.id \in Nat
    BY LineFields
  <2>2. (whole \cup doubt \subseteq 1..dev.id)'
    BY <1>1, <1>2, <1>3, <1>5, <1>6, <2>1 DEF StreamInv, Histories
  <2>3. (whole \cap doubt = {})'
    <3>1. l.id \notin whole \/ ~Breaks(l)
      BY <1>3, <1>1 DEF StreamInv, Histories
    <3> QED
      BY <1>1, <1>2, <3>1 DEF StreamInv, Histories
  <2>4. ASSUME dev'.open = "yes" PROVE dev'.id \in Nat \ {0} /\ dev'.id \notin whole' \cup doubt'
    <3>1. Fits(l) /\ ~Completes(l)
      BY <1>2, <2>4, AfterFields
    <3>2. ~Breaks(l)
      BY <3>1 DEF Fits, Breaks
    <3>3. CASE l.id = dev.id + 1
      BY <1>2, <1>3, <1>5, <3>1, <3>2, <3>3 DEF StreamInv, Histories
    <3>4. CASE l.id # dev.id + 1
      <4>1. l.from # 1
        BY <1>1, <3>1, <3>4, LineFields DEF Sound, Fits
      <4>2. dev.open = "yes" /\ l.id = dev.id
        BY <1>1, <3>1, <3>4, <4>1 DEF Fits, Sound
      <4> QED
        BY <1>2, <1>5, <3>1, <3>2, <4>2 DEF StreamInv, Histories
    <3> QED
      BY <3>3, <3>4
  <2>5. ASSUME dev'.open = "broken" PROVE dev'.id \in doubt'
    <3>1. l.kind = "part" /\ ~Apart(l) /\ ~Fits(l)
      BY <1>2, <2>5, AfterFields
    <3>2. CASE l.from = 1
      BY <1>2, <1>5, <3>1, <3>2 DEF Breaks
    <3>3. CASE l.from # 1
      <4>1. dev.open = "broken" /\ l.id = dev.id
        BY <1>1, <3>1, <3>3, LineFields DEF Fits, Apart, Sound
      <4> QED
        BY <1>2, <1>5, <4>1 DEF StreamInv, Histories
    <3> QED
      BY <3>2, <3>3
  <2> QED
    BY <2>2, <2>3, <2>4, <2>5 DEF Histories
<1>17. Pending'
  <2>1. \A i \in 1..Len(in') : Completes(in'[i]) => in'[i].id \in whole'
    BY <1>2, <1>12, Added DEF StreamInv, Pending
  <2>2. \A i \in 1..Len(in') : Breaks(in'[i]) => {in'[i].before.id, in'[i].id} \subseteq doubt'
    BY <1>1, <1>2, <1>12, Added DEF StreamInv, Pending
  <2>3. Handed' = Handed
    BY <1>2 DEF Handed
  <2>4. \A r \in whole' \ Handed' : \E i \in 1..Len(in') : Completes(in'[i]) /\ in'[i].id = r
    <3> SUFFICES ASSUME NEW r \in whole' \ Handed'
                 PROVE  \E i \in 1..Len(in') : Completes(in'[i]) /\ in'[i].id = r
      OBVIOUS
    <3>1. CASE r \in whole
      <4>1. PICK i \in 1..Len(in) : Completes(in[i]) /\ in[i].id = r
        BY <2>3, <3>1 DEF StreamInv, Pending
      <4> QED
        BY <1>2, <4>1, Added
    <3>2. CASE r \notin whole
      <4>1. Completes(l) /\ r = l.id
        BY <1>2, <3>2
      <4> QED
        BY <1>2, <4>1, Added
    <3> QED
      BY <3>1, <3>2
  <2>5. \A i \in 1..Len(in) : Completes(l) /\ Completes(in[i]) => in[i].id < l.id
    <3>1. \A i \in 1..Len(in) : Completes(l) /\ Completes(in[i]) => in[i].id # l.id
      BY <1>1 DEF StreamInv, Pending
    <3>2. \A i \in 1..Len(in) : in[i].id \in Nat /\ in[i].id <= l.id
      BY <1>2, <1>3, <1>6, Added, LineFields, SMTT(30) DEF StreamInv, Numbered
    <3> QED
      BY <3>1, <3>2, LineFields
  <2>6. \A i, j \in 1..Len(in') :
          i < j /\ Completes(in'[i]) /\ Completes(in'[j]) => in'[i].id < in'[j].id
    BY <1>2, <2>5, Added DEF StreamInv, Pending
  <2> QED
    BY <2>1, <2>2, <2>4, <2>6 DEF Pending
<1>18. Posted'
  <2>1. \A i \in 1..Len(posted) : posted[i].id \in whole \cup doubt
    BY DEF StreamInv, Posted
  <2>2. \A i \in 1..Len(posted) : Completes(l) => posted[i].id < l.id
    <3> SUFFICES ASSUME NEW i \in 1..Len(posted), Completes(l)
                 PROVE  posted[i].id < l.id
      OBVIOUS
    <3>1. posted[i].id \in 1..dev.id /\ posted[i].id # l.id
      BY <1>1, <2>1 DEF StreamInv, Histories
    <3> QED
      BY <1>3, <1>6, <3>1, LineFields
  <2>3. \A i \in 1..Len(posted), j \in 1..Len(in') :
          Completes(in'[j]) => posted[i].id < in'[j].id
    BY <1>2, <2>2, Added DEF StreamInv, Posted
  <2> QED
    BY <1>2, <1>11, <1>12, <2>3 DEF StreamInv, Posted
<1> QED
  BY <1>7, <1>9, <1>10, <1>13, <1>16, <1>17, <1>18 DEF StreamInv
\* What becomes of the bytes when a line is read: the buffer is empty again and nothing
\* is posted; report x is posted; the buffer holds a report that is not complete.
Drops(l) ==
  /\ s_pdu'.size = 0 /\ posted' = posted
  /\ After(l).open \in {"no", "broken"} /\ ~Completes(l)

Posts(l, x, b) ==
  /\ s_pdu'.size = 0 /\ posted' = Append(posted, [id |-> x, bytes |-> b])
  /\ x <= l.id /\ (x = l.before.id + 1 \/ (s_pdu.size > 0 /\ x = s_pdu.id))
  /\ \/ Completes(l) /\ x = l.id /\ b = "own"
     \/ ~Completes(l) /\ l.ack = 0 /\ After(l).open = "broken" /\ x \in doubt

Keeps(l) ==
  /\ posted' = posted /\ ~Completes(l)
  /\ s_pdu'.id = l.before.id + 1 \/ (s_pdu.size > 0 /\ s_pdu'.id = s_pdu.id)
  /\ s_pdu'.id <= l.id
  /\ s_pdu'.first = 1 /\ 0 < s_pdu'.size /\ s_pdu'.size < s_pdu'.of
  /\ \/ /\ After(l).open = "yes" /\ s_pdu'.id = l.id /\ s_pdu'.of = l.of
        /\ s_pdu'.size = l.to /\ s_pdu'.bytes = "own"
     \/ After(l).open = "broken" /\ s_pdu'.id \in doubt

(* A line read by the receiver: what it makes of the bytes.  Either the     *)
(* buffer is empty again and nothing is posted, or the line completes a     *)
(* report that is due, or it goes on with one, or it may do either with a   *)
(* doubtful one.                                                            *)
LEMMA Outcome ==
  ASSUME NEW l \in Lines, Sound(l), s_pdu \in Pdus,
         RecvPart(l) \/ RecvEmpty(l) \/ RecvForeign(l),
         l.before.open = "no" => s_pdu.size = 0,
         l.before.open = "yes" =>
           /\ s_pdu.id = l.before.id /\ s_pdu.first = 1 /\ s_pdu.of = l.before.of
           /\ s_pdu.size = l.before.sent /\ 0 < s_pdu.size /\ s_pdu.size < s_pdu.of
           /\ s_pdu.bytes = "own",
         l.before.open = "broken" =>
           \/ s_pdu.size = 0
           \/ /\ s_pdu.id \in doubt /\ s_pdu.id <= l.before.id /\ s_pdu.first = 1
              /\ s_pdu.size < s_pdu.of,
         Breaks(l) => {l.before.id, l.id} \subseteq doubt
  PROVE  \/ Drops(l)
         \/ \E x \in Nat, b \in {"own", "mixed"} : Posts(l, x, b)
         \/ Keeps(l)
<1> USE DEF Drops, Posts, Keeps
<1> DEFINE d == l.before
           pdu == Joined(Kept(l), l)
           size == l.to - l.from + 1
<1>1. /\ l.ack \in {0, 1} /\ l.kind \in {"part", "empty", "foreign"}
      /\ l.id \in Nat /\ l.from \in Nat /\ l.to \in Nat /\ l.of \in Nat
      /\ d.open \in {"no", "yes", "broken"}
      /\ d.id \in Nat /\ d.sent \in Nat /\ d.of \in Nat
  BY LineFields
<1>2. /\ s_pdu.id \in Nat /\ s_pdu.first \in Nat /\ s_pdu.of \in Nat /\ s_pdu.size \in Nat
      /\ s_pdu.bytes \in {"own", "mixed"}
  BY DEF Pdus
<1>3. Empty.size = 0
  BY DEF Empty
<1>4. CASE l.kind # "part"
  <2>1. s_pdu' = Empty /\ posted' = posted
    BY <1>4 DEF RecvPart, RecvEmpty, RecvForeign, Kept, Sound
  <2>2. After(l).open = "no" /\ ~Completes(l)
    BY <1>4 DEF After, Fits, Completes
  <2> QED
    BY <1>3, <2>1, <2>2
<1>5. CASE l.kind = "part"
  <2>1. /\ s_pdu' = IF Check(pdu) = "partial" THEN pdu ELSE Empty
        /\ posted' = IF Check(pdu) = "complete"
                     THEN Append(posted, [id |-> pdu.id, bytes |-> pdu.bytes])
                     ELSE posted
    BY <1>5 DEF RecvPart, RecvEmpty, RecvForeign
  <2>2. ASSUME Kept(l).size = 0
        PROVE  /\ pdu.id = l.id /\ pdu.first = l.from /\ pdu.of = l.of
               /\ pdu.size = size /\ pdu.bytes = "own"
    BY <2>2 DEF Joined
  <2>3. ASSUME Kept(l) = s_pdu, s_pdu.size # 0
        PROVE  /\ pdu.id = s_pdu.id /\ pdu.first = s_pdu.first /\ pdu.of = s_pdu.of
               /\ pdu.size = s_pdu.size + size
               /\ pdu.bytes = IF l.id = s_pdu.id /\ l.from = s_pdu.size + 1
                              THEN s_pdu.bytes ELSE "mixed"
    <3>1. pdu = [s_pdu EXCEPT !.size = s_pdu.size + size,
                              !.bytes = IF l.id = s_pdu.id /\ l.from = s_pdu.size + 1
                                        THEN s_pdu.bytes ELSE "mixed"]
      BY <2>3 DEF Joined
    <3>2. s_pdu \in [id : Nat, first : Nat, of : Nat, size : Nat, bytes : {"own", "mixed"}]
      BY DEF Pdus
    <3> QED
      BY <3>1, <3>2
  <2>4. Apart(l) => Kept(l).size = 0
    BY <1>3 DEF Apart, Kept
  <2>5. ~Apart(l) => Kept(l) = s_pdu /\ l.ack = 0 /\ d.open \in {"yes", "broken"}
    BY <1>1 DEF Apart, Kept
  <2>6. /\ l.from <= l.to /\ l.to <= l.of /\ l.from >= 1
        /\ l.from = 1 => l.id = d.id + 1
        /\ l.from > 1 => l.id = d.id /\ l.from = d.sent + 1 /\ l.of = d.of
    BY <1>1, <1>5 DEF Sound
  <2>7. size \in Nat \ {0} /\ (l.from = 1 => size = l.to)
    BY <1>1, <2>6
  <2> HIDE DEF pdu
  <2>8. CASE Apart(l) /\ l.from = 1
    <3>1. Fits(l)
      BY <1>5, <2>8 DEF Fits
    <3>2. pdu.id = l.id /\ pdu.first = 1 /\ pdu.of = l.of /\ pdu.size = l.to /\ pdu.bytes = "own"
      BY <2>2, <2>4, <2>7, <2>8
    <3>3. CASE l.to = l.of
      <4>1. Completes(l) /\ Check(pdu) = "complete"
        BY <1>1, <3>1, <3>2, <3>3 DEF Completes, Check
      <4>2. s_pdu' = Empty /\ posted' = Append(posted, [id |-> l.id, bytes |-> "own"])
        BY <2>1, <3>2, <4>1
      <4> QED
        BY <1>1, <1>3, <2>6, <2>8, <4>1, <4>2
    <3>4. CASE l.to # l.of
      <4>1. ~Completes(l) /\ Check(pdu) = "partial" /\ After(l).open = "yes"
        BY <1>1, <2>6, <3>1, <3>2, <3>4 DEF Completes, Check, After
      <4>2. s_pdu' = pdu /\ posted' = posted
        BY <2>1, <4>1
      <4> QED
        BY <1>1, <2>6, <2>7, <2>8, <3>2, <3>4, <4>1, <4>2
    <3> QED
      BY <3>3, <3>4
  <2>9. CASE Apart(l) /\ l.from # 1
    <3>1. ~Fits(l) /\ ~Completes(l) /\ After(l).open = "no"
      BY <2>9 DEF Fits, Completes, After
    <3>2. Check(pdu) = "bad"
      BY <2>2, <2>4, <2>9 DEF Check
    <3> QED
      BY <1>3, <2>1, <3>1, <3>2
  <2>10. CASE ~Apart(l) /\ l.from > 1 /\ d.open = "yes"
    <3>1. Fits(l)
      BY <1>5, <2>10 DEF Fits
    <3>2. pdu.id = l.id /\ pdu.first = 1 /\ pdu.of = l.of /\ pdu.size = l.to /\ pdu.bytes = "own"
      BY <1>1, <1>2, <2>3, <2>5, <2>6, <2>10
    <3>3. CASE l.to = l.of
      <4>1. Completes(l) /\ Check(pdu) = "complete"
        BY <1>1, <3>1, <3>2, <3>3 DEF Completes, Check
      <4>2. s_pdu' = Empty /\ posted' = Append(posted, [id |-> l.id, bytes |-> "own"])
        BY <2>1, <3>2, <4>1
      <4> QED
        BY <1>1, <1>3, <2>6, <2>10, <4>1, <4>2
    <3>4. CASE l.to # l.of
      <4>1. ~Completes(l) /\ Check(pdu) = "partial" /\ After(l).open = "yes"
        BY <1>1, <2>6, <3>1, <3>2, <3>4 DEF Completes, Check, After
      <4>2. s_pdu' = pdu /\ posted' = posted
        BY <2>1, <4>1
      <4> QED
        BY <1>1, <2>6, <2>10, <3>2, <3>4, <4>1, <4>2
    <3> QED
      BY <3>3, <3>4
  <2>11. CASE ~Apart(l) /\ ~(l.from > 1 /\ d.open = "yes")
    <3>1. ~Completes(l) /\ After(l).open = "broken" /\ l.ack = 0
      BY <1>5, <2>5, <2>11 DEF Completes, Fits, After
    <3>2. CASE s_pdu.size = 0
      <4>1. d.open = "broken"
        BY <2>5, <2>11, <3>2
      <4>2. pdu.id = l.id /\ pdu.first = l.from /\ pdu.of = l.of /\ pdu.size = size /\ pdu.bytes = "own"
        BY <2>2, <2>5, <2>11, <3>2
      <4>3. CASE l.from # 1
        <5>1. Check(pdu) = "bad"
          BY <4>2, <4>3 DEF Check
        <5> QED
          BY <1>3, <2>1, <3>1, <5>1
      <4>4. CASE l.from = 1
        <5>1. l.id \in doubt /\ l.id = d.id + 1
          BY <1>5, <2>6, <2>11, <4>4 DEF Breaks
        <5>2. CASE Check(pdu) = "complete"
          <6>1. s_pdu' = Empty /\ posted' = Append(posted, [id |-> l.id, bytes |-> "own"])
            BY <2>1, <4>2, <5>2
          <6>2. l.id \in Nat /\ l.id <= l.id /\ s_pdu'.size = 0
            BY <1>1, <1>3, <6>1
          <6> QED
            BY <3>1, <5>1, <6>1, <6>2, Zenon
        <5>3. CASE Check(pdu) = "partial"
          <6>1. s_pdu' = pdu /\ posted' = posted
            BY <2>1, <5>3
          <6>2. pdu.size < pdu.of
            BY <1>1, <2>7, <4>2, <5>3 DEF Check
          <6> QED
            BY <1>1, <2>7, <3>1, <4>2, <4>4, <5>1, <6>1, <6>2
        <5>4. CASE Check(pdu) = "bad"
          BY <1>3, <2>1, <3>1, <5>4
        <5> QED
          BY <5>2, <5>3, <5>4 DEF Check
      <4> QED
        BY <4>3, <4>4
    <3>3. CASE s_pdu.size # 0
      <4>1. /\ pdu.id = s_pdu.id /\ pdu.first = s_pdu.first /\ pdu.of = s_pdu.of
            /\ pdu.size = s_pdu.size + size
            /\ pdu.bytes \in {"own", "mixed"}
        BY <1>2, <2>3, <2>5, <2>11, <3>3
      <4>2. s_pdu.id \in doubt /\ s_pdu.id <= d.id /\ d.id <= l.id /\ s_pdu.first = 1
        BY <1>1, <1>2, <1>5, <2>5, <2>6, <2>11, <3>3 DEF Breaks
      <4>3. CASE Check(pdu) = "complete"
        <5>1. s_pdu' = Empty /\ posted' = Append(posted, [id |-> s_pdu.id, bytes |-> pdu.bytes])
          BY <2>1, <4>1, <4>3
        <5>2. s_pdu.id <= l.id /\ s_pdu.size > 0
          BY <1>1, <1>2, <3>3, <4>2
        <5> QED
          BY <1>2, <1>3, <3>1, <4>1, <4>2, <5>1, <5>2
      <4>4. CASE Check(pdu) = "partial"
        <5>1. s_pdu' = pdu /\ posted' = posted
          BY <2>1, <4>4
        <5>2. pdu.size < pdu.of /\ 0 < pdu.size
          BY <1>2, <2>7, <4>1, <4>4 DEF Check
        <5>3. s_pdu.id <= l.id /\ s_pdu.size > 0
          BY <1>1, <1>2, <3>3, <4>2
        <5> QED
          BY <1>2, <3>1, <4>1, <4>2, <5>1, <5>2, <5>3
      <4>5. CASE Check(pdu) = "bad"
        BY <1>3, <2>1, <3>1, <4>5
      <4> QED
        BY <4>3, <4>4, <4>5 DEF Check
    <3> QED
      BY <3>2, <3>3
  <2> QED
    BY <1>1, <2>6, <2>8, <2>9, <2>10, <2>11
<1> QED
  BY <1>4, <1>5
(* The numbers of the reports posted. *)
LEMMA PostedIds ==
  ASSUME TypeOK
  PROVE  \A i \in 1..Len(posted) : posted[i].id \in Nat
<1> DEFINE P == [id : Nat, bytes : {"own", "mixed"}]
<1>1. posted \in Seq(P)
  BY DEF TypeOK
<1>2. \A p \in P : p.id \in Nat
  OBVIOUS
<1> HIDE DEF P
<1>3. \A i \in 1..Len(posted) : posted[i] \in P
  BY <1>1
<1> QED
  BY <1>2, <1>3

(* A report posted behind the others. *)
LEMMA PostedMore ==
  ASSUME TypeOK, NEW x \in Nat, NEW b \in {"own", "mixed"},
         posted' = Append(posted, [id |-> x, bytes |-> b])
  PROVE  /\ Len(posted) \in Nat /\ Len(posted') = Len(posted) + 1
         /\ \A i \in 1..Len(posted) : posted'[i] = posted[i] /\ posted[i].id \in Nat
         /\ posted'[Len(posted) + 1].id = x /\ posted'[Len(posted) + 1].bytes = b
         /\ Handed' = Handed \cup {x}
<1> DEFINE p == [id |-> x, bytes |-> b]
<1>1. p \in [id : Nat, bytes : {"own", "mixed"}] /\ p.id = x /\ p.bytes = b
  OBVIOUS
<1> DEFINE P == [id : Nat, bytes : {"own", "mixed"}]
<1>a. posted \in Seq(P) /\ p \in P /\ posted' = Append(posted, p)
  BY <1>1 DEF TypeOK
<1> HIDE DEF p, P
<1>b. /\ Len(posted) \in Nat /\ Len(posted') = Len(posted) + 1
      /\ \A i \in 1..Len(posted) : posted'[i] = posted[i]
      /\ posted'[Len(posted) + 1] = p
  BY <1>a
<1>2. /\ Len(posted) \in Nat /\ Len(posted') = Len(posted) + 1
      /\ \A i \in 1..Len(posted) : posted'[i] = posted[i] /\ posted[i].id \in Nat
      /\ posted'[Len(posted) + 1] = p
  BY <1>b, PostedIds
<1>3. Handed' = Handed \cup {x}
  <2>1. ASSUME NEW h \in Handed' PROVE h \in Handed \cup {x}
    <3>1. PICK i \in 1..Len(posted') : h = posted'[i].id
      BY DEF Handed
    <3>2. CASE i \in 1..Len(posted)
      BY <1>2, <3>1, <3>2 DEF Handed
    <3>3. CASE i = Len(posted) + 1
      BY <1>1, <1>2, <3>1, <3>3
    <3> QED
      BY <1>2, <3>2, <3>3
  <2>2. x \in Handed'
    BY <1>1, <1>2 DEF Handed
  <2>3. ASSUME NEW h \in Handed PROVE h \in Handed'
    <3>1. PICK i \in 1..Len(posted) : h = posted[i].id
      BY DEF Handed
    <3>2. i \in 1..Len(posted') /\ h = posted'[i].id
      BY <1>2, <3>1
    <3> QED
      BY <3>2 DEF Handed
  <2> QED
    BY <2>1, <2>2, <2>3
<1> QED
  BY <1>1, <1>2, <1>3

(* The line that is read, and what the receiver makes of it. *)
LEMMA RecvOutcome ==
  ASSUME TypeOK, StreamInv, Recv
  PROVE  /\ in # <<>> /\ in' = Tail(in) /\ in[1] \in Lines /\ 1 \in 1..Len(in)
         /\ UNCHANGED <<asked, dev, whole, doubt>>
         /\ Sound(in[1]) /\ After(in[1]) = At(2) /\ in[1].before = At(1)
         /\ \/ Drops(in[1])
            \/ \E x \in Nat, b \in {"own", "mixed"} : Posts(in[1], x, b)
            \/ Keeps(in[1])
<1> DEFINE l == in[1]
<1>1. /\ in # <<>> /\ in' = Tail(in) /\ l = Head(in)
      /\ RecvPart(l) \/ RecvEmpty(l) \/ RecvForeign(l)
      /\ UNCHANGED <<asked, dev, whole, doubt>>
  BY Taken DEF Recv, devVars
<1>2. l \in Lines /\ 1 \in 1..Len(in)
  BY <1>1, Taken
<1>3. Sound(l) /\ After(l) = At(2) /\ l.before = At(1)
  BY <1>2 DEF StreamInv, Chain, At
<1>4. s_pdu \in Pdus
  BY DEF TypeOK
<1>5. Breaks(l) => {l.before.id, l.id} \subseteq doubt
  BY <1>2 DEF StreamInv, Pending
<1>6. /\ l.before.open = "no" => s_pdu.size = 0
      /\ l.before.open = "yes" =>
           /\ s_pdu.id = l.before.id /\ s_pdu.first = 1 /\ s_pdu.of = l.before.of
           /\ s_pdu.size = l.before.sent /\ 0 < s_pdu.size /\ s_pdu.size < s_pdu.of
           /\ s_pdu.bytes = "own"
      /\ l.before.open = "broken" =>
           \/ s_pdu.size = 0
           \/ /\ s_pdu.id \in doubt /\ s_pdu.id <= l.before.id /\ s_pdu.first = 1
              /\ s_pdu.size < s_pdu.of
  BY <1>3 DEF StreamInv, Holds
<1> HIDE DEF l
<1>7. \/ Drops(l)
      \/ \E x \in Nat, b \in {"own", "mixed"} : Posts(l, x, b)
      \/ Keeps(l)
  BY <1>1, <1>2, <1>3, <1>4, <1>5, <1>6, Outcome, Zenon
<1> QED
  BY <1>1, <1>2, <1>3, <1>7 DEF l

(* The report that is posted is later than those before it and earlier than those due. *)
LEMMA PostsBetween ==
  ASSUME TypeOK, StreamInv, Recv, NEW x \in Nat, NEW b, Posts(in[1], x, b)
  PROVE  /\ \A i \in 1..Len(posted) : posted[i].id < x
         /\ \A j \in 2..Len(in) : Completes(in[j]) => x < in[j].id
<1> DEFINE l == in[1]
<1>1. l \in Lines /\ 1 \in 1..Len(in) /\ l.before = At(1) /\ Sound(l) /\ in # <<>> /\ in' = Tail(in)
  BY RecvOutcome
<1>2. l.id \in Nat /\ l.before.id \in Nat
  BY <1>1, LineFields
<1>3. \A i \in 1..Len(posted) : posted[i].id \in Nat /\ posted[i].id <= l.before.id
  BY <1>1, PostedIds DEF StreamInv, Posted
<1>4. \A j \in 2..Len(in) : l.id <= in[j].id /\ in[j].id \in Nat
  BY <1>1, Taken, LineFields DEF StreamInv, Numbered
<1>5. \A i \in 1..Len(posted) : posted[i].id < x
  BY <1>2, <1>3, SMTT(30) DEF StreamInv, Posted, Posts
<1>6. ASSUME NEW j \in 2..Len(in), Completes(in[j])
      PROVE  x < in[j].id
  <2>1. CASE Completes(l) /\ x = l.id
    BY <1>1, <1>6, <2>1 DEF StreamInv, Pending
  <2>2. CASE x \in doubt
    <3>1. in[j].id \in whole
      BY <1>6 DEF StreamInv, Pending
    <3>2. x # in[j].id
      BY <2>2, <3>1 DEF StreamInv, Histories
    <3> QED
      BY <1>2, <1>4, <3>2 DEF Posts
  <2> QED
    BY <2>1, <2>2 DEF Posts
<1> QED
  BY <1>5, <1>6

(* A line read by the receiver. *)
LEMMA RecvInv ==
  ASSUME TypeOK, StreamInv, Recv
  PROVE  StreamInv'
<1> DEFINE l == in[1]
<1>1. /\ in # <<>> /\ in' = Tail(in)
      /\ dev' = dev /\ whole' = whole /\ doubt' = doubt
  BY RecvOutcome
<1>2. l \in Lines /\ 1 \in 1..Len(in)
  BY RecvOutcome
<1>3. Sound(l) /\ After(l) = At(2) /\ l.before = At(1)
  BY RecvOutcome
<1>4. /\ l.id \in Nat /\ l.before.id \in Nat /\ l.before.id <= l.id /\ l.of \in Nat
      /\ l.to \in Nat
  BY <1>2, <1>3, LineFields, SMTT(30) DEF Sound
<1>5. \A i \in Nat \ {0} : At(i)' = At(i + 1)
  BY <1>1, Taken DEF At
<1>6. At(1)' = After(l)
  BY <1>3, <1>5
<1>7. Chain'
  <2> SUFFICES ASSUME NEW i \in 1..Len(in')
               PROVE  Sound(in'[i]) /\ After(in'[i]) = At(i + 1)'
    BY DEF Chain
  <2>1. in'[i] = in[i + 1] /\ i + 1 \in 1..Len(in) /\ i + 1 \in Nat \ {0}
    BY <1>1, Taken
  <2> QED
    BY <1>5, <2>1 DEF StreamInv, Chain
<1>8. Begun' /\ Histories'
  BY <1>1 DEF StreamInv, Begun, Histories
<1>9. Numbered'
  BY <1>1, Taken DEF StreamInv, Numbered
<1>13. /\ Completes(l) => l.id \in whole
       /\ Breaks(l) => {l.before.id, l.id} \subseteq doubt
  BY <1>2 DEF StreamInv, Pending
<1>14. /\ After(l).id = l.id /\ After(l).sent = l.to /\ After(l).of = l.of
       /\ Completes(l) => After(l).open = "no"
  BY <1>2, AfterFields
<1>15. /\ \A i, j \in 1..Len(in') :
            i < j /\ Completes(in'[i]) /\ Completes(in'[j]) => in'[i].id < in'[j].id
       /\ \A i \in 1..Len(in') : Completes(in'[i]) => in'[i].id \in whole'
       /\ \A i \in 1..Len(in') : Breaks(in'[i]) => {in'[i].before.id, in'[i].id} \subseteq doubt'
  BY <1>1, Taken DEF StreamInv, Pending
<1>16. ASSUME ~Completes(l), posted' = posted
       PROVE  Pending'
  <2>1. Handed' = Handed
    BY <1>16 DEF Handed
  <2>2. \A r \in whole' \ Handed' : \E i \in 1..Len(in') : Completes(in'[i]) /\ in'[i].id = r
    <3> SUFFICES ASSUME NEW r \in whole \ Handed
                 PROVE  \E i \in 1..Len(in') : Completes(in'[i]) /\ in'[i].id = r
      BY <1>1, <2>1
    <3>1. PICK i \in 1..Len(in) : Completes(in[i]) /\ in[i].id = r
      BY DEF StreamInv, Pending
    <3>2. i \in 2..Len(in)
      BY <1>16, <3>1
    <3> QED
      BY <1>1, <3>1, <3>2, Taken
  <2> QED
    BY <1>15, <2>2 DEF Pending
<1>17. \A i \in 1..Len(posted) : posted[i].id \in Nat
  BY PostedIds
<1>18. \A i \in 1..Len(posted) : posted[i].id <= l.before.id /\ posted[i].id <= l.id
  BY <1>3, <1>4, <1>17, SMTT(30) DEF StreamInv, Posted
<1>19. \A i \in 1..Len(posted), j \in 1..Len(in') : Completes(in'[j]) => posted[i].id < in'[j].id
  BY <1>1, Taken DEF StreamInv, Posted
<1>20. CASE Drops(l)
  <2> USE DEF Drops
  <2>1. Holds'
    BY <1>6, <1>20 DEF Holds
  <2>2. Posted'
    BY <1>1, <1>6, <1>14, <1>18, <1>19, <1>20 DEF StreamInv, Posted
  <2> QED
    BY <1>7, <1>8, <1>9, <1>16, <1>20, <2>1, <2>2 DEF StreamInv
<1>21. ASSUME NEW x \in Nat, NEW b \in {"own", "mixed"}, Posts(l, x, b)
       PROVE  StreamInv'
  <2> USE DEF Posts
  <2>1. After(l).open \in {"no", "broken"}
    BY <1>14, <1>21
  <2>2. Holds'
    BY <1>6, <1>21, <2>1 DEF Holds
  <2>3. \A i \in 1..Len(posted) : posted[i].id < x
    BY <1>21, PostsBetween
  <2>4. \A j \in 2..Len(in) : Completes(in[j]) => x < in[j].id
    BY <1>21, PostsBetween
  <2>5. (x \in whole /\ b = "own") \/ x \in doubt
    BY <1>13, <1>21
  <2>6. Posted'
    <3>1. \A i, j \in 1..Len(posted') : i < j => posted'[i].id < posted'[j].id
      <4> SUFFICES ASSUME NEW i \in 1..Len(posted'), NEW j \in 1..Len(posted'), i < j
                   PROVE  posted'[i].id < posted'[j].id
        OBVIOUS
      <4>1. i \in 1..Len(posted) /\ (j \in 1..Len(posted) \/ j = Len(posted) + 1)
        BY <1>21, PostedMore
      <4> QED
        BY <1>21, <2>3, <4>1, PostedMore DEF StreamInv, Posted
    <3>2. \A i \in 1..Len(posted') :
            \/ posted'[i].id \in whole' /\ posted'[i].bytes = "own"
            \/ posted'[i].id \in doubt'
      BY <1>1, <1>21, <2>5, PostedMore DEF StreamInv, Posted
    <3>3. \A i \in 1..Len(posted') : posted'[i].id <= At(1)'.id
      BY <1>6, <1>14, <1>18, <1>21, PostedMore
    <3>4. \A i \in 1..Len(posted'), j \in 1..Len(in') :
            Completes(in'[j]) => posted'[i].id < in'[j].id
      <4> SUFFICES ASSUME NEW i \in 1..Len(posted'), NEW j \in 1..Len(in'), Completes(in'[j])
                   PROVE  posted'[i].id < in'[j].id
        OBVIOUS
      <4>1. in'[j] = in[j + 1] /\ j + 1 \in 2..Len(in)
        BY <1>1, Taken
      <4>2. x < in'[j].id
        BY <2>4, <4>1
      <4>3. CASE i \in 1..Len(posted)
        BY <1>19, <1>21, <4>3, PostedMore
      <4>4. CASE i = Len(posted) + 1
        BY <1>21, <4>2, <4>4, PostedMore
      <4> QED
        BY <1>21, <4>3, <4>4, PostedMore
    <3> QED
      BY <1>21, <3>1, <3>2, <3>3, <3>4 DEF Posted
  <2>7. \A r \in whole' \ Handed' : \E i \in 1..Len(in') : Completes(in'[i]) /\ in'[i].id = r
    <3> SUFFICES ASSUME NEW r \in whole \ Handed, r # x
                 PROVE  \E i \in 1..Len(in') : Completes(in'[i]) /\ in'[i].id = r
      <4>1. Handed' = Handed \cup {x}
        BY <1>21, PostedMore
      <4> QED
        BY <1>1, <4>1
    <3>1. PICK i \in 1..Len(in) : Completes(in[i]) /\ in[i].id = r
      BY DEF StreamInv, Pending
    <3>2. i \in 2..Len(in)
      BY <1>21, <3>1
    <3> QED
      BY <1>1, <3>1, <3>2, Taken
  <2>8. Pending'
    BY <1>15, <2>7 DEF Pending
  <2> QED
    BY <1>7, <1>8, <1>9, <2>2, <2>6, <2>8 DEF StreamInv
<1>22. CASE Keeps(l)
  <2> USE DEF Keeps
  <2>1. Holds'
    BY <1>1, <1>6, <1>14, <1>22 DEF Holds
  <2>2. \A i \in 1..Len(posted) : posted[i].id < s_pdu'.id
    BY <1>4, <1>17, <1>18, <1>22 DEF StreamInv, Posted
  <2>3. Posted'
    BY <1>1, <1>6, <1>14, <1>18, <1>19, <1>22, <2>2 DEF StreamInv, Posted
  <2> QED
    BY <1>7, <1>8, <1>9, <1>16, <1>22, <2>1, <2>3 DEF StreamInv
<1> QED
  BY <1>20, <1>21, <1>22, RecvOutcome
(* The chain of lines between the device and the receiver, with what each   *)
(* end makes of it, is kept by every step.                                  *)
THEOREM StreamInvariant == Spec => []StreamInv
<1>1. Init => StreamInv
  BY DEF Init, StreamInv, Chain, Begun, Holds, Numbered, Histories, Pending, Posted, At,
         Empty, Handed
<1>2. TypeOK /\ StreamInv /\ [Next]_vars => StreamInv'
  <2> SUFFICES ASSUME TypeOK, StreamInv, [Next]_vars
               PROVE  StreamInv'
    OBVIOUS
  <2>1. CASE UNCHANGED <<in, dev, whole, doubt, s_pdu, posted>>
    <3>1. \A i : At(i)' = At(i)
      BY <2>1 DEF At
    <3>2. Chain' /\ Holds'
      BY <2>1, <3>1 DEF StreamInv, Chain, Holds
    <3>3. Begun' /\ Numbered' /\ Histories'
      BY <2>1 DEF StreamInv, Begun, Numbered, Histories
    <3>4. Handed' = Handed
      BY <2>1 DEF Handed
    <3>5. Pending'
      BY <2>1, <3>4 DEF StreamInv, Pending
    <3>6. Posted'
      BY <2>1, <3>1 DEF StreamInv, Posted
    <3> QED
      BY <3>2, <3>3, <3>5, <3>6 DEF StreamInv
  <2>2. CASE Recv
    BY <2>2, RecvInv
  <2>3. CASE DeviceStep
    BY <2>3, SendInv
  <2> QED
    BY <2>1, <2>2, <2>3 DEF Next, SendCmd, SenderStep, WriteLine, Wait, CmdDone, WriteFails,
       ReadFails, vars, devVars, recvVars
<1> QED
  BY <1>1, <1>2, TypeCorrect, PTL DEF Spec

(* Whatever the device breaks off, answers in the middle of a report or sends from     *)
(* another protocol: reports are handed over at most once and in order, and one that   *)
(* is sent in order, apart from the others, is handed over as it was sent and before   *)
(* every later one (tpp_recv_event_cb, hidpdu2event, check_tppdu).                     *)
THEOREM ReportsArriveInOrder == Spec => []ReportsArrive
<1>1. TypeOK /\ StreamInv => ReportsArrive
  <2> SUFFICES ASSUME TypeOK, StreamInv
               PROVE  ReportsArrive
    OBVIOUS
  <2>1. ASSUME NEW r \in whole \ Handed PROVE in # <<>> /\ \A h \in Handed : h < r
    <3>1. PICK j \in 1..Len(in) : Completes(in[j]) /\ in[j].id = r
      BY DEF StreamInv, Pending
    <3>2. in # <<>>
      BY <3>1
    <3>3. ASSUME NEW h \in Handed PROVE h < r
      <4>1. PICK i \in 1..Len(posted) : h = posted[i].id
        BY DEF Handed
      <4> QED
        BY <3>1, <4>1 DEF StreamInv, Posted
    <3> QED
      BY <3>2, <3>3
  <2> QED
    BY <2>1 DEF ReportsArrive, StreamInv, Posted, Histories
<1> QED
  BY <1>1, StreamInvariant, TypeCorrect, PTL

-----------------------------------------------------------------------------
(* The refinement.                                                         *)

Out == IF asked > 0 THEN "asked"
       ELSE IF \E i \in 1..Len(in) : in[i].ack = 1 THEN "answered" ELSE "none"

Due == whole \ Handed

(* The whole and the doubtful reports are numbered up to the device's last one. *)
LEMMA Known ==
  ASSUME TypeOK, StreamInv
  PROVE  /\ dev.id \in Nat /\ dev.id <= MaxReports
         /\ Due \cup doubt \cup Handed \subseteq 1..dev.id
         /\ Handed \subseteq whole \cup doubt
<1>1. dev.id \in Nat
  BY DEF TypeOK, Devices
<1>2. Handed \subseteq whole \cup doubt
  BY DEF Handed, StreamInv, Posted
<1> QED
  BY <1>1, <1>2 DEF Due, StreamInv, Histories, Begun

(* A line the device sends is an answer, a report that is completed, one that *)
(* is begun inside another, the end of those, or nothing to see.              *)
LEMMA SendStep ==
  ASSUME TypeOK, StreamInv, OneOutstanding, DeviceStep
  PROVE  [Service!Next]_(Service!tpVars)
<1>1. PICK l \in Lines :
        /\ Send(l) /\ l.before = dev /\ Sound(l) /\ l.id <= MaxReports
        /\ Completes(l) => l.id \notin whole \cup doubt /\ l.id \in Nat \ {0}
        /\ Breaks(l) => /\ ~Completes(l) /\ dev.open \in {"yes", "broken"}
                        /\ l.id = dev.id + 1 /\ dev.id # 0 /\ dev.id \notin whole
  BY SentLine
<1>2. /\ in' = Append(in, l) /\ dev' = After(l)
      /\ whole' = IF Completes(l) THEN whole \cup {l.id} ELSE whole
      /\ doubt' = IF Breaks(l) THEN doubt \cup {dev.id, l.id} ELSE doubt
      /\ posted' = posted /\ asked' = asked - l.ack /\ l.ack <= asked
  BY <1>1 DEF Send, recvVars
<1>3. Handed' = Handed
  BY <1>2 DEF Handed
<1>4. /\ l.ack \in {0, 1} /\ l.id \in Nat /\ dev.id <= l.id
      /\ dev.open \in {"no", "yes", "broken"}
  BY <1>1, LineFields DEF Sound
<1>5. Completes(l) => \A s \in Due \cup doubt \cup Handed : s < l.id
  BY <1>1, <1>4, Known DEF Due
<1>6. Due' = IF Completes(l) THEN Due \cup {l.id} ELSE Due
  BY <1>1, <1>2, <1>3, Known DEF Due
<1>7. l.id <= MaxReports /\ (Completes(l) => l.id \in 1..MaxReports)
  BY <1>1, <1>4
<1>8. CASE l.ack = 1
  <2>1. Out = "asked"
    BY <1>2, <1>8 DEF Out, OneOutstanding
  <2>2. Out' = "answered"
    <3>1. asked' = 0
      BY <1>2, <1>8 DEF OneOutstanding
    <3>2. Len(in) + 1 \in 1..Len(in') /\ in'[Len(in) + 1].ack = 1
      BY <1>2, <1>8, Added
    <3> QED
      BY <3>1, <3>2 DEF Out
  <2>3. ~Breaks(l) /\ dev'.open # "broken"
    BY <1>2, <1>8 DEF Breaks, Apart, After
  <2>4. CASE Completes(l)
    <3>1. Service!Answer({l.id})
      BY <1>2, <1>5, <1>6, <2>1, <2>2, <2>3, <2>4
      DEF Service!Answer, Service!Later, Service!Delivered, Handed, Due, Out
    <3> QED
      BY <1>7, <2>4, <3>1 DEF Service!Next
  <2>5. CASE ~Completes(l)
    <3>1. Service!Answer({})
      BY <1>2, <1>6, <2>1, <2>2, <2>3, <2>5 DEF Service!Answer, Due, Handed, Out
    <3> QED
      BY <3>1 DEF Service!Next
  <2> QED
    BY <2>4, <2>5
<1>9. CASE l.ack = 0
  <2>1. Out' = Out
    <3>1. asked' = asked
      BY <1>2, <1>9 DEF TypeOK
    <3>2. (\E i \in 1..Len(in') : in'[i].ack = 1) <=> (\E i \in 1..Len(in) : in[i].ack = 1)
      BY <1>2, <1>9, Added
    <3> QED
      BY <3>1, <3>2 DEF Out
  <2>2. CASE Completes(l)
    <3>1. dev.open # "broken" /\ dev'.open # "broken" /\ ~Breaks(l)
      BY <1>1, <1>2, <1>9, <2>2 DEF Completes, Fits, Apart, After, Breaks
    <3>2. Service!Report(l.id)
      BY <1>2, <1>5, <1>6, <2>1, <2>2, <3>1
      DEF Service!Report, Service!Later, Service!Delivered, Handed, Due, Out
    <3> QED
      BY <1>7, <2>2, <3>2 DEF Service!Next
  <2>3. CASE Breaks(l)
    <3>1. dev'.open = "broken"
      BY <1>2, <2>3 DEF Breaks, After, Fits
    <3>2. dev.id \in 1..MaxReports /\ l.id \in 1..MaxReports /\ dev.id < l.id
      BY <1>1, <1>4, <2>3, Known
    <3>3. \A s \in Due \cup doubt \cup Handed : s < l.id
      BY <1>1, <2>3, Known
    <3>4. dev.open = "broken" => dev.id \in doubt
      BY DEF StreamInv, Histories
    <3>5. dev.open # "broken" => \A s \in Due \cup doubt \cup Handed : s < dev.id
      <4>1. dev.open = "yes" => dev.id \notin whole \cup doubt
        BY DEF StreamInv, Histories
      <4> QED
        BY <1>1, <2>3, <4>1, Known DEF Due
    <3>6. Service!Tear(dev.id, l.id)
      BY <1>1, <1>2, <1>6, <2>1, <2>3, <3>1, <3>2, <3>3, <3>4, <3>5
      DEF Service!Tear, Service!Later, Service!Delivered, Handed, Due, Out
    <3> QED
      BY <3>2, <3>6 DEF Service!Next
  <2>4. CASE ~Completes(l) /\ ~Breaks(l)
    <3>1. CASE dev'.open = "broken"
      <4>1. dev.open = "broken"
        BY <1>1, <1>2, <1>4, <1>9, <2>4, <3>1, LineFields DEF After, Apart, Fits, Breaks, Sound
      <4> QED
        BY <1>2, <1>6, <2>1, <2>4, <3>1, <4>1 DEF Service!tpVars, Due, Handed, Out
    <3>2. CASE dev'.open # "broken"
      <4>1. Service!Mend
        BY <1>2, <1>6, <2>1, <2>4, <3>2 DEF Service!Mend, Due, Handed, Out
      <4> QED
        BY <4>1 DEF Service!Next
    <3> QED
      BY <3>1, <3>2
  <2> QED
    BY <2>2, <2>3, <2>4
<1> QED
  BY <1>4, <1>8, <1>9
(* A line the receiver reads is the answer, a report handed over, or both. *)
LEMMA RecvStep ==
  ASSUME TypeOK, StreamInv, OneOutstanding, Recv
  PROVE  [Service!Next]_(Service!tpVars)
<1> DEFINE l == in[1]
<1>1. /\ in # <<>> /\ in' = Tail(in) /\ l \in Lines /\ 1 \in 1..Len(in)
      /\ asked' = asked /\ dev' = dev /\ whole' = whole /\ doubt' = doubt
  BY RecvOutcome
<1>2. l.ack \in {0, 1}
  BY <1>1, LineFields
<1>3. l.ack = 1 => Out = "answered" /\ Out' = "none"
  <2> SUFFICES ASSUME l.ack = 1 PROVE Out = "answered" /\ Out' = "none"
    OBVIOUS
  <2>1. asked = 0
    BY <1>1 DEF OneOutstanding
  <2>2. \A i \in 1..Len(in') : in'[i].ack # 1
    BY <1>1, Taken DEF OneOutstanding
  <2> QED
    BY <1>1, <2>1, <2>2 DEF Out
<1>4. l.ack = 0 => Out' = Out
  <2> SUFFICES ASSUME l.ack = 0 PROVE Out' = Out
    OBVIOUS
  <2>1. (\E i \in 1..Len(in') : in'[i].ack = 1) <=> (\E i \in 1..Len(in) : in[i].ack = 1)
    <3>1. ASSUME NEW i \in 1..Len(in), in[i].ack = 1
          PROVE  \E j \in 1..Len(in') : in'[j].ack = 1
      <4>1. i \in 2..Len(in)
        BY <3>1
      <4> QED
        BY <1>1, <3>1, <4>1, Taken
    <3>2. ASSUME NEW i \in 1..Len(in'), in'[i].ack = 1
          PROVE  \E j \in 1..Len(in) : in[j].ack = 1
      BY <1>1, <3>2, Taken
    <3> QED
      BY <3>1, <3>2
  <2> QED
    BY <1>1, <2>1 DEF Out
<1>5. CASE posted' = posted
  <2>1. Handed' = Handed /\ Due' = Due
    BY <1>1, <1>5 DEF Handed, Due
  <2>2. CASE l.ack = 1
    <3>1. Service!Reply
      BY <1>1, <1>3, <1>5, <2>1, <2>2 DEF Service!Reply, Due, Handed, Out
    <3> QED
      BY <3>1 DEF Service!Next
  <2>3. CASE l.ack = 0
    BY <1>1, <1>4, <1>5, <2>1, <2>3 DEF Service!tpVars, Due, Handed, Out
  <2> QED
    BY <1>2, <2>2, <2>3
<1>6. ASSUME NEW x \in Nat, NEW b \in {"own", "mixed"}, Posts(l, x, b)
      PROVE  [Service!Next]_(Service!tpVars)
  <2>1. /\ \A i \in 1..Len(posted) : posted[i].id < x
        /\ \A j \in 2..Len(in) : Completes(in[j]) => x < in[j].id
    BY <1>6, PostsBetween
  <2>2. Handed' = Handed \cup {x} /\ posted' = Append(posted, [id |-> x, bytes |-> b])
    BY <1>6, PostedMore DEF Posts
  <2>3. \A s \in Handed : s < x
    BY <2>1 DEF Handed
  <2>4. x \notin Handed
    BY <2>3
  <2>5. ASSUME NEW s \in Due PROVE x < s \/ (Completes(l) /\ s = l.id)
    <3>1. PICK j \in 1..Len(in) : Completes(in[j]) /\ in[j].id = s
      BY DEF StreamInv, Pending, Due
    <3>2. j = 1 \/ j \in 2..Len(in)
      BY <1>1
    <3> QED
      BY <2>1, <3>1, <3>2
  <2>6. CASE Completes(l) /\ x = l.id /\ b = "own"
    <3>1. x \in whole
      BY <1>1, <2>6 DEF StreamInv, Pending
    <3>2. x \in Due /\ Due' = Due \ {x}
      BY <1>1, <2>2, <2>4, <3>1 DEF Due
    <3>3. \A s \in Due : x <= s
      BY <1>6, <2>5, <2>6, <3>2, Known
    <3>4. Out' = Out \/ (Out = "answered" /\ Out' = "none")
      BY <1>2, <1>3, <1>4
    <3>5. Service!Deliver(x)
      BY <1>1, <2>2, <2>3, <2>6, <3>2, <3>3, <3>4
      DEF Service!Deliver, Service!Delivered, Due, Handed, Out
    <3>6. x \in 1..MaxReports
      BY <3>2, Known
    <3> QED
      BY <3>5, <3>6 DEF Service!Next
  <2>7. CASE ~Completes(l) /\ l.ack = 0 /\ x \in doubt
    <3>1. Due' = Due
      BY <1>1, <2>2, <2>7 DEF Due, StreamInv, Histories
    <3>2. Out' = Out
      BY <1>4, <2>7
    <3>3. \A s \in Due : x < s
      BY <2>5, <2>7
    <3>4. Service!DeliverDoubtful(x, b)
      BY <1>1, <2>2, <2>3, <2>7, <3>1, <3>2, <3>3
      DEF Service!DeliverDoubtful, Service!Delivered, Due, Handed, Out
    <3>5. x \in 1..MaxReports
      BY <2>7, Known
    <3> QED
      BY <1>6, <3>4, <3>5 DEF Service!Next
  <2> QED
    BY <1>6, <2>6, <2>7 DEF Posts
<1>7. posted' = posted \/ \E x \in Nat, b \in {"own", "mixed"} : Posts(l, x, b)
  BY RecvOutcome DEF Drops, Keeps
<1> QED
  BY <1>5, <1>6, <1>7

(* tp_protocol.c keeps what TpService promises: requests and answers take turns, and *)
(* every report sent in order is delivered once, in order and as it was sent, with   *)
(* answers inside reports, reports that break off and foreign lines in between.      *)
THEOREM ImplementsTpService == Spec => TpServiceSpec
<1>1. Init => Service!Init
  BY DEF Init, Service!Init, Handed
<1>2. TypeOK /\ StreamInv /\ OneOutstanding /\ [Next]_vars => [Service!Next]_(Service!tpVars)
  <2> SUFFICES ASSUME TypeOK, StreamInv, OneOutstanding, [Next]_vars
               PROVE  [Service!Next]_(Service!tpVars)
    OBVIOUS
  <2>1. CASE UNCHANGED <<asked, in, dev, whole, doubt, posted>>
    BY <2>1 DEF Service!tpVars, Handed
  <2>2. CASE WriteLine
    <3>1. UNCHANGED <<in, dev, whole, doubt, posted>> /\ pc = "write" /\ asked' = asked + 1
      BY <2>2 DEF WriteLine, devVars, recvVars
    <3>2. Out = "none" /\ Out' = "asked"
      BY <3>1 DEF Out, OneOutstanding, AnswerBeforeNext, LinkQuiet
    <3>3. Service!Ask
      BY <3>1, <3>2 DEF Service!Ask, Out, Handed
    <3> QED
      BY <3>3 DEF Service!Next
  <2>3. CASE Recv
    BY <2>3, RecvStep
  <2>4. CASE DeviceStep
    BY <2>4, SendStep
  <2> QED
    BY <2>1, <2>2, <2>3, <2>4 DEF Next, SendCmd, SenderStep, Wait, CmdDone, WriteFails,
       ReadFails, vars, devVars, recvVars
<1> QED
  BY <1>1, <1>2, TypeCorrect, StreamInvariant, OneOutstandingHolds, PTL
  DEF Spec, TpServiceSpec, Service!Spec
=============================================================================
