------------------------------- MODULE TpLink -------------------------------
(***************************************************************************)
(* The link to the telephone, tp_protocol.c.  The state machine's thread   *)
(* calls tpp_send_cmd, which cuts a request into HID lines and waits for   *)
(* the device's answer to each; the main loop's thread runs                *)
(* tpp_recv_event_cb for each line the device sends, signals the answers   *)
(* and puts the bytes of a report back together in s_pdu_buf.              *)
(*                                                                         *)
(* The device is external.  It answers every line of a request once, with  *)
(* an empty line or with the bit 0x80 of a line that carries bytes of a    *)
(* report, and it may do so in the middle of a report.  It may break a     *)
(* report off and begin the next, and send lines that are not of this      *)
(* protocol.  hidraw hands over one line per read().  What the bytes of a  *)
(* report say is left out, but for the first two: the first one, and no    *)
(* other, is TP_FLAG, the second is the size, and the first line of a      *)
(* report holds both.  A report is no longer than s_pdu_buf.               *)
(***************************************************************************)
EXTENDS Integers, Sequences

CONSTANTS
  TPPDU_LINE_BYTES,  \* bytes of a request or a report that fit in a line
  ParamSizes,        \* the parameter sizes of the requests that are sent
  ReportSizes,       \* the bytes of the reports the device sends
  MaxCmds, MaxReports, MaxNoise  \* bounds

ASSUME LineAssumption ==
  /\ TPPDU_LINE_BYTES \in Nat /\ TPPDU_LINE_BYTES >= 2
  /\ ParamSizes \subseteq Nat
  /\ ReportSizes \subseteq Nat \ {0, 1}

ASSUME BoundAssumption == {MaxCmds, MaxReports, MaxNoise} \subseteq Nat

VARIABLES
  pc,       \* where tpp_send_cmd is
  lines,    \* lines of the request that are still to be written
  asked,    \* lines written that the device has not answered
  in,       \* lines on their way from the device
  dev,      \* the report of the device, and what its lines leave open
  s_pdu,    \* s_pdu_buf up to s_pdu_offset
  posted,   \* the reports handed to upil_sm_send_msg
  whole,    \* history: the reports sent whole and apart from the others
  doubt,    \* history: the reports that were broken off or ran into such a one
  proc,     \* the process: "up" or "killed"
  cmds, noise  \* requests and foreign lines so far

sendVars == <<pc, lines>>
recvVars == <<s_pdu, posted>>
devVars == <<dev, whole, doubt, noise>>
vars == <<sendVars, asked, in, devVars, recvVars, proc, cmds>>

\* The device: the number of its last report, how many bytes it has sent out of how
\* many, and, as a history, whether the lines sent so far leave a report open for the
\* next line to go on with.  "broken": a report was begun before the last one ended,
\* and no answer and no foreign line has come since.
Devices == [open : {"no", "yes", "broken"}, id : Nat, sent : Nat, of : Nat]

\* A line: whether it has the bit 0x80, the report and which of its bytes it carries
\* (none unless it is a "part").  before is a history: the device when it was sent.
Lines ==
  {l \in [ack : {0, 1}, kind : {"part", "empty", "foreign"},
          id : Nat, from : Nat, to : Nat, of : Nat, before : Devices] : l.from <= l.to + 1}

\* The bytes in the buffer: the report and the byte of it that comes first, the size
\* that one gives, and whether all of them are the bytes of that report, in order.
Pdus == [id : Nat, first : Nat, of : Nat, size : Nat, bytes : {"own", "mixed"}]

Empty == [id |-> 0, first |-> 0, of |-> 0, size |-> 0, bytes |-> "own"]

TypeOK ==
  /\ pc \in {"idle", "write", "written", "wait"}
  /\ lines \in Nat
  /\ asked \in Nat
  /\ in \in Seq(Lines)
  /\ dev \in Devices
  /\ s_pdu \in Pdus
  /\ posted \in Seq([id : Nat, bytes : {"own", "mixed"}])
  /\ whole \subseteq Nat
  /\ doubt \subseteq Nat
  /\ proc \in {"up", "killed"}
  /\ cmds \in Nat
  /\ noise \in Nat

Init ==
  /\ pc = "idle"
  /\ lines = 0
  /\ asked = 0
  /\ in = <<>>
  /\ dev = [open |-> "no", id |-> 0, sent |-> 0, of |-> 0]
  /\ s_pdu = Empty
  /\ posted = <<>>
  /\ whole = {}
  /\ doubt = {}
  /\ proc = "up"
  /\ cmds = 0
  /\ noise = 0

-----------------------------------------------------------------------------
(* tpp_send_cmd.                                                           *)

\* make_cmd: flag, size, command and p bytes of parameters, cut into lines (for p below
\* 255: cmd_size, which is p + 1, is a byte).
LineCount(p) == (p + 3 + TPPDU_LINE_BYTES - 1) \div TPPDU_LINE_BYTES

\* request2pdu; a request that it does not know has no lines.
SendCmd(n) ==
  /\ proc = "up"
  /\ pc = "idle"
  /\ cmds < MaxCmds
  /\ cmds' = cmds + 1
  /\ lines' = n
  /\ pc' = "write"
  /\ UNCHANGED <<asked, in, devVars, recvVars, proc>>

\* Variants: one line too many; the next line is written without waiting.
WriteLinePast ==
  /\ proc = "up"
  /\ pc = "write"
  /\ asked' = asked + 1
  /\ lines' = lines - 1
  /\ pc' = "written"
  /\ UNCHANGED <<in, devVars, recvVars, proc, cmds>>

WriteLineOn ==
  /\ proc = "up"
  /\ pc = "write"
  /\ lines > 0
  /\ asked' = asked + 1
  /\ lines' = lines - 1
  /\ UNCHANGED <<pc, in, devVars, recvVars, proc, cmds>>

WriteLine ==
  /\ proc = "up"
  /\ pc = "write"
  /\ lines > 0
  /\ asked' = asked + 1
  /\ lines' = lines - 1
  /\ pc' = "written"
  /\ UNCHANGED <<in, devVars, recvVars, proc, cmds>>

\* write() fails: the rest of the request is dropped.
WriteFails ==
  /\ proc = "up"
  /\ pc = "write"
  /\ lines > 0
  /\ pc' = "idle"
  /\ UNCHANGED <<lines, asked, in, devVars, recvVars, proc, cmds>>

\* pthread_cond_wait, with no mutex and no condition to look at first.
Wait ==
  /\ proc = "up"
  /\ pc = "written"
  /\ pc' = "wait"
  /\ UNCHANGED <<lines, asked, in, devVars, recvVars, proc, cmds>>

CmdDone ==
  /\ proc = "up"
  /\ pc = "write"
  /\ lines = 0
  /\ pc' = "idle"
  /\ UNCHANGED <<lines, asked, in, devVars, recvVars, proc, cmds>>

-----------------------------------------------------------------------------
(* tpp_recv_event_cb and hidpdu2event, one line.                           *)

\* pthread_cond_broadcast wakes the sender if it waits by now.
Broadcast == pc' = IF pc = "wait" THEN "write" ELSE pc

\* Variant: an answer leaves the bytes of the last report where they are.
KeptOn(l) == s_pdu

\* An answer ends the report before it: the buffer is cleared.
Kept(l) == IF l.ack = 1 THEN Empty ELSE s_pdu

\* hidpdu2event: the bytes of the line go behind those that are kept.
Joined(pdu, l) ==
  LET size == l.to - l.from + 1
  IN IF pdu.size = 0
     THEN [id |-> l.id, first |-> l.from, of |-> l.of, size |-> size, bytes |-> "own"]
     ELSE [pdu EXCEPT !.size = pdu.size + size,
                      !.bytes = IF l.id = pdu.id /\ l.from = pdu.size + 1 THEN pdu.bytes
                                ELSE "mixed"]

\* Variant: the first byte is not looked at.
CheckSize(pdu) ==
  IF pdu.size > pdu.of THEN "bad"
  ELSE IF pdu.size = pdu.of THEN "complete" ELSE "partial"

\* check_tppdu.
Check(pdu) ==
  IF pdu.first # 1 \/ pdu.size > pdu.of THEN "bad"
  ELSE IF pdu.size = pdu.of THEN "complete" ELSE "partial"

\* A complete report is posted, and a bad one dropped; both leave an empty buffer.
RecvPart(l) ==
  /\ l.kind = "part"
  /\ LET pdu == Joined(Kept(l), l)
     IN /\ s_pdu' = IF Check(pdu) = "partial" THEN pdu ELSE Empty
        /\ posted' = IF Check(pdu) = "complete"
                     THEN Append(posted, [id |-> pdu.id, bytes |-> pdu.bytes])
                     ELSE posted

\* No byte in the line: nothing is checked.
RecvEmpty(l) ==
  /\ l.kind = "empty"
  /\ s_pdu' = Kept(l)
  /\ UNCHANGED posted

\* The first byte is not HID_FLAG.
RecvForeign(l) ==
  /\ l.kind = "foreign"
  /\ s_pdu' = Empty
  /\ UNCHANGED posted

\* An answer is signalled, and its line is then handled like any other.
Recv ==
  /\ proc = "up"
  /\ in # <<>>
  /\ in' = Tail(in)
  /\ LET l == Head(in)
     IN /\ IF l.ack = 1 THEN Broadcast ELSE UNCHANGED pc
        /\ RecvPart(l) \/ RecvEmpty(l) \/ RecvForeign(l)
  /\ UNCHANGED <<lines, asked, devVars, proc, cmds>>

\* read() fails: the callback returns -1 and eventLoop kills the process.
ReadFails ==
  /\ proc = "up"
  /\ proc' = "killed"
  /\ UNCHANGED <<sendVars, asked, in, devVars, recvVars, cmds>>

-----------------------------------------------------------------------------
(* The device.                                                             *)

\* No bytes of an earlier line are left when those of this one are looked at.
Apart(l) == l.ack = 1 \/ l.before.open = "no"

\* The line is the one to come: a first one, or the next of the report that is open.
Fits(l) ==
  /\ l.kind = "part"
  /\ IF Apart(l) THEN l.from = 1 ELSE l.from > 1 /\ l.before.open = "yes"

Completes(l) == Fits(l) /\ l.to = l.of

\* The line begins a report inside another one.
Breaks(l) == l.kind = "part" /\ l.from = 1 /\ ~Apart(l)

\* The device after the line.
After(l) ==
  [open |-> IF Fits(l) THEN (IF l.to = l.of THEN "no" ELSE "yes")
            ELSE IF l.kind = "part" /\ ~Apart(l) THEN "broken" ELSE "no",
   id |-> l.id, sent |-> l.to, of |-> l.of]

Send(l) ==
  /\ proc = "up"
  /\ l.ack <= asked
  /\ asked' = asked - l.ack
  /\ in' = Append(in, l)
  /\ dev' = After(l)
  /\ whole' = IF Completes(l) THEN whole \cup {l.id} ELSE whole
  /\ doubt' = IF Breaks(l) THEN doubt \cup {l.before.id, l.id} ELSE doubt
  /\ UNCHANGED <<sendVars, recvVars, proc, cmds>>

\* A line that carries the next b bytes of the report, or none.
Line(ack, kind, b) ==
  [ack |-> ack, kind |-> kind, id |-> dev.id, from |-> dev.sent + 1, to |-> dev.sent + b,
   of |-> dev.of, before |-> dev]

\* A line that begins a report of n bytes with the first b of them.
FirstLine(ack, n, b) ==
  [ack |-> ack, kind |-> "part", id |-> dev.id + 1, from |-> 1, to |-> b, of |-> n,
   before |-> dev]

SendAnswer ==
  /\ Send(Line(1, "empty", 0))
  /\ UNCHANGED noise

\* The report before it may be unfinished.
StartReport(ack, n, b) ==
  /\ dev.id < MaxReports
  /\ b <= n
  /\ Send(FirstLine(ack, n, b))
  /\ UNCHANGED noise

SendPart(ack, b) ==
  /\ dev.sent + b <= dev.of
  /\ Send(Line(ack, "part", b))
  /\ UNCHANGED noise

SendForeign ==
  /\ noise < MaxNoise
  /\ noise' = noise + 1
  /\ Send(Line(0, "foreign", 0))

-----------------------------------------------------------------------------
SenderStep == WriteLine \/ Wait \/ CmdDone

DeviceStep ==
  \/ SendAnswer
  \/ \E ack \in {0, 1}, n \in ReportSizes, b \in 2..TPPDU_LINE_BYTES : StartReport(ack, n, b)
  \/ \E ack \in {0, 1}, b \in 1..TPPDU_LINE_BYTES : SendPart(ack, b)
  \/ SendForeign

Next ==
  \/ \E p \in ParamSizes : SendCmd(LineCount(p))
  \/ SendCmd(0)
  \/ SenderStep
  \/ WriteFails
  \/ Recv
  \/ ReadFails
  \/ DeviceStep

Spec == Init /\ [][Next]_vars

\* Both threads run, and the device answers.
Fairness ==
  /\ WF_vars(SenderStep)
  /\ WF_vars(Recv)
  /\ WF_vars(SendAnswer)

FairSpec == Spec /\ Fairness

-----------------------------------------------------------------------------
(* Properties.                                                             *)

\* No line of a request, and no answer to one, is under way.
LinkQuiet == asked = 0 /\ \A i \in 1..Len(in) : in[i].ack = 0

(* The comment of tpp_send_cmd: the next line of a request, or of the next  *)
(* request, is sent only after the device has answered the one before.      *)
AnswerBeforeNext == pc \in {"idle", "write"} => LinkQuiet

\* The reports handed over.
Handed == {posted[i].id : i \in 1..Len(posted)}

(* Reports are handed to the state machine at most once and in order.  A    *)
(* report all of whose lines come together, behind a complete report, an    *)
(* answer or a foreign line, is handed over as it was sent, before any      *)
(* later one, whatever became of the reports before it.  A report that is   *)
(* broken off by the next one may be lost, or filled up with bytes of it,   *)
(* and so may those after it, up to the next answer or foreign line: that   *)
(* is where the code takes the last report to be over.                      *)
ReportsArrive ==
  /\ \A i, j \in 1..Len(posted) : i < j => posted[i].id < posted[j].id
  /\ \A i \in 1..Len(posted) :
       \/ posted[i].id \in whole /\ posted[i].bytes = "own"
       \/ posted[i].id \in doubt
  /\ whole \cap doubt = {}
  /\ \A r \in whole \ Handed : in # <<>> /\ \A h \in Handed : h < r

\* TpLink implements the service of TpService: a request line is open while it is
\* unanswered or its answer is under way, and the whole reports are due until posted.
Service == INSTANCE TpService WITH
  Reports <- 1..MaxReports,
  out <- IF asked > 0 THEN "asked"
         ELSE IF \E i \in 1..Len(in) : in[i].ack = 1 THEN "answered" ELSE "none",
  torn <- dev.open = "broken",
  due <- whole \ Handed,
  doubt <- doubt,
  delivered <- posted

(* The lines of requests and their answers take turns, and every report     *)
(* that is sent in order is delivered once, in order and as it was sent.    *)
TpServiceSpec == Service!Spec

(* tp_protocol.c:552: after each line the sender waits for the answer and   *)
(* then goes on: a request whose lines are all answered comes to its end.   *)
CommandCompletes == pc # "idle" ~> (pc = "idle" \/ proc = "killed")
=============================================================================
