-------------------------------- MODULE GdbStub --------------------------------
(***************************************************************************)
(* The debugger's stub (gdblink.cc), with a debugger at the other end of   *)
(* the link.  A packet to the stub is the characters $, the body, #, and a *)
(* checksum; the stub acknowledges with + or -, executes, and sends its    *)
(* answer until that is acknowledged.                                      *)
(*                                                                         *)
(* A body is Length(c) characters that know which command they are of; the *)
(* two digits of the checksum are one token that fits one body only.  The  *)
(* stub's packets are one token, since the stub never reads them.          *)
(***************************************************************************)
EXTENDS Integers, Sequences, SequencesExt

CONSTANTS
  Commands,    (* [op, arg, high, length]: what the debugger may ask for;  *)
               (* high: at an address of more than 31 bits                 *)
  InBufSize,   (* INBUFSIZE                                                *)
  MaxCommands, (* bound: commands in a behaviour                           *)
  MaxFaults,   (* bound: characters the link damages                       *)
  MaxTimeouts  (* bound: times the debugger loses patience                 *)

Ops  == {"?", "g", "G", "P", "m", "M", "s", "c", "unknown"}
Args == {"good", "syntax", "unmapped", "border", "short", "excess", "nopc", "address"}

ASSUME GdbAssumption ==
  /\ InBufSize \in Nat \ {0, 1}
  /\ MaxCommands \in Nat /\ MaxFaults \in Nat /\ MaxTimeouts \in Nat
  /\ Commands \subseteq [op : Ops, arg : Args, high : BOOLEAN, length : Nat \ {0}]

VARIABLES
  toStub,    (* characters on their way to the stub                        *)
  toGdb,     (* acknowledgements and packets on their way to the debugger  *)
  at,        (* where the stub is                                          *)
  inBuf,     (* the body received so far                                   *)
  outBuf,    (* the answer being sent                                      *)
  target,    (* the hart's registers, its pc, and memory, where a command  *)
             (* says and elsewhere: the number of the command that wrote   *)
             (* each, or how it was left                                   *)
  before,    (* the target before the command executed last                *)
  executed,  (* how many commands have been executed; an s or c that has   *)
             (* reached the stub twice counts once                         *)
  gdb,       (* the debugger: what it waits for, its command, its number,  *)
             (* the last answer it took and the number of its command      *)
  faults, timeouts

stubVars == << at, inBuf, outBuf, target, before, executed >>
vars == << toStub, toGdb, stubVars, gdb, faults, timeouts >>

Places == {"regs", "pc", "mem", "elsewhere"}
Zero == -1   (* valid_memory() has stored zeroes, as far as it got         *)
Part == -2   (* part of the data over zeroes, or of the digits of an address *)

Body(n, length) == [i \in 1 .. length |-> [is |-> "c", n |-> n, i |-> i]]
Char(is) == [is |-> is, n |-> 0, i |-> 0]
CheckSumOf(n, c) == [is |-> "sum", n |-> n, i |-> c.length]
Packet(n, c) == <<Char("$")>> \o Body(n, c.length) \o <<Char("#"), CheckSumOf(n, c)>>

Ack == [is |-> "+", n |-> 0, text |-> "", good |-> TRUE]
Nak == [is |-> "-", n |-> 0, text |-> "", good |-> TRUE]

NoCommand == [op |-> "none", arg |-> "none", high |-> FALSE, length |-> 1]

Init ==
  /\ toStub = <<>> /\ toGdb = <<>>
  /\ at = "hunt" /\ inBuf = <<>> /\ outBuf = Nak
  /\ target = [x \in Places |-> 0] /\ before = target /\ executed = 0
  /\ gdb = [waits |-> "nothing", command |-> NoCommand, n |-> 0, answer |-> "", told |-> 0]
  /\ faults = 0 /\ timeouts = 0

----------------------------------------------------------------------------
(* ReceivePacket().                                                         *)

(* getDebugChar().                                                          *)
Get(ch) == toStub # <<>> /\ ch = Head(toStub) /\ toStub' = Tail(toStub)

Quiet == UNCHANGED << toGdb, outBuf, target, before, executed, gdb, faults, timeouts >>

(* Everything before a $ is noise.                                          *)
Hunt ==
  /\ at = "hunt" /\ Get(Head(toStub))
  /\ at' = IF Head(toStub).is = "$" THEN "body" ELSE "hunt"
  /\ inBuf' = <<>>
  /\ Quiet

(* Mutant: no room is left for the terminating zero.                        *)
BufferFullLate == Len(inBuf) >= InBufSize

BufferFull == Len(inBuf) >= InBufSize - 1

ReadBody ==
  /\ at = "body" /\ Get(Head(toStub))
  /\ Head(toStub).is \notin {"#", "$"} /\ ~BufferFull
  /\ inBuf' = Append(inBuf, Head(toStub))
  /\ UNCHANGED at /\ Quiet

(* Mutant: the $ is taken for a character of the body.                      *)
StartOverNot ==
  /\ at = "body" /\ Get(Head(toStub))
  /\ Head(toStub).is = "$" /\ ~BufferFull
  /\ inBuf' = Append(inBuf, Head(toStub))
  /\ UNCHANGED at /\ Quiet

(* A $ inside a packet begins it anew.                                      *)
StartOver ==
  /\ at = "body" /\ Get(Head(toStub))
  /\ Head(toStub).is = "$" /\ ~BufferFull
  /\ inBuf' = <<>>
  /\ UNCHANGED at /\ Quiet

(* A packet too long is handed on as far as it fits, with no acknowledgement.*)
Overflow ==
  /\ at = "body" /\ Get(Head(toStub))
  /\ Head(toStub).is # "#" /\ BufferFull
  /\ at' = "command"
  /\ UNCHANGED inBuf /\ Quiet

EndBody ==
  /\ at = "body" /\ Get(Head(toStub))
  /\ Head(toStub).is = "#"
  /\ at' = "sum"
  /\ UNCHANGED inBuf /\ Quiet

(* The checksum fits when it is that of the command whose body this is.     *)
SumFits(sum) == sum.is = "sum" /\ inBuf = Body(sum.n, sum.i)

(* Mutant: a good packet is not acknowledged.                               *)
CheckSumSilent ==
  /\ at = "sum" /\ Get(Head(toStub))
  /\ \/ /\ SumFits(Head(toStub))
        /\ toGdb' = toGdb /\ at' = "command"
     \/ /\ ~SumFits(Head(toStub))
        /\ toGdb' = Append(toGdb, Nak) /\ at' = "hunt"
  /\ UNCHANGED << inBuf, outBuf, target, before, executed, gdb, faults, timeouts >>

CheckSum ==
  /\ at = "sum" /\ Get(Head(toStub))
  /\ \/ /\ SumFits(Head(toStub))
        /\ toGdb' = Append(toGdb, Ack) /\ at' = "command"
     \/ /\ ~SumFits(Head(toStub))
        /\ toGdb' = Append(toGdb, Nak) /\ at' = "hunt"
  /\ UNCHANGED << inBuf, outBuf, target, before, executed, gdb, faults, timeouts >>

----------------------------------------------------------------------------
(* ProcessGdbCommand().                                                     *)

(* RcvHexToMemory(): valid_memory() clears the place before the first digit *)
(* is looked at.  What is left of the data when the place is full makes it  *)
(* fail too, after all is stored.                                           *)
Stored(data, n) ==
  CASE data \in {"whole", "excess"} -> n
    [] data = "part"  -> Part
    [] data = "empty" -> Zero

(* Mutant: memory is only tested, not cleared and stored.                   *)
WriteNothing(t, place, data, n) == t

Write(t, place, data, n) == [t EXCEPT ![place] = Stored(data, n)]

Answer(text, t) == [text |-> text, target |-> t]

(* g, ?, and letters the stub does not know, which get an empty answer; m,  *)
(* with its two numbers.                                                    *)
Read(c, t) ==
  CASE c.op = "g" -> Answer("data", t)
    [] c.op = "?" -> Answer("signal", t)
    [] c.op = "m" -> Answer(CASE c.arg = "syntax" -> "E01" [] c.arg = "unmapped" -> "E09"
                              [] OTHER -> "data", t)
    [] OTHER      -> Answer("", t)

(* G: all registers, then the pc.  Either call alone makes the answer OK:   *)
(* the first fails when the data goes on, as it should for the pc.          *)
WriteAll(c, t, n) ==
  LET regs == CASE c.arg = "short" -> "part" [] c.arg = "nopc" -> "whole" [] OTHER -> "excess"
      pc   == CASE c.arg \in {"short", "nopc"} -> "empty" [] c.arg = "excess" -> "excess"
                [] OTHER -> "whole"
  IN  Answer(IF "whole" \in {regs, pc} THEN "OK" ELSE "E02",
             Write(Write(t, "regs", regs, n), "pc", pc, n))

(* Where P and M write.  RcvHexInt() gathers the digits in an int and       *)
(* extends its sign: of a high address it gives another one.                *)
PlaceOf(c) == IF c.op = "P" THEN "regs" ELSE IF c.high THEN "elsewhere" ELSE "mem"

(* P and M: a number or two, then data for a place.  Where the place runs   *)
(* into unmapped memory, valid_memory() has cleared it up to there.         *)
WriteOne(c, t, n) ==
  LET place == PlaceOf(c)
      data  == CASE c.arg = "short" -> "part" [] c.arg = "excess" -> "excess"
                 [] c.arg = "border" -> "empty" [] OTHER -> "whole"
  IN  CASE c.arg = "syntax"   -> Answer("E01", t)
        [] c.arg = "unmapped" -> Answer("E02", t)
        [] OTHER -> Answer(IF data = "whole" THEN "OK" ELSE "E02", Write(t, place, data, n))

(* s and c come back to the top of controlled_by_gdb() without an answer.   *)
Resume(c, t, n) ==
  CASE c.arg = "syntax"  -> Answer("E01", t)
    [] c.arg = "address" -> Answer("none", [t EXCEPT !["pc"] = IF c.high THEN Part ELSE n])
    [] c.arg = "short"   -> Answer("none", [t EXCEPT !["pc"] = Part])
    [] OTHER             -> Answer("none", t)

Effect(c, t, n) ==
  CASE c.op = "G"         -> WriteAll(c, t, n)
    [] c.op \in {"P", "M"} -> WriteOne(c, t, n)
    [] c.op \in {"s", "c"} -> Resume(c, t, n)
    [] OTHER              -> Read(c, t)

(* A packet that was cut ends within its data, and nobody has looked at its *)
(* checksum: where the letter of the command should be there may be another *)
(* character, which is taken to be none that the stub knows.                *)
Received ==
  CASE inBuf = Body(gdb.n, gdb.command.length) -> gdb.command
    [] inBuf[1].is # "c" \/ inBuf[1].i # 1     -> [gdb.command EXCEPT !.op = "unknown"]
    [] OTHER                                   -> [gdb.command EXCEPT !.arg = "short"]

ExecuteCommand ==
  LET n == gdb.n
      e == Effect(Received, target, n)
  IN  /\ at = "command"
      /\ before' = target
      /\ target' = e.target
      /\ executed' = IF gdb.command.op \in {"s", "c"} THEN n ELSE executed + 1
      /\ \/ e.text = "none" /\ at' = "hunt" /\ UNCHANGED outBuf
         \/ e.text # "none" /\ at' = "send"
            /\ outBuf' = [is |-> "packet", n |-> n, text |-> e.text, good |-> TRUE]
      /\ UNCHANGED << toStub, toGdb, inBuf, gdb, faults, timeouts >>

(* SendPacket(): again, until a + comes.                                    *)
Send ==
  /\ at = "send"
  /\ toGdb' = Append(toGdb, outBuf)
  /\ at' = "await"
  /\ UNCHANGED << toStub, inBuf, outBuf, target, before, executed, gdb, faults, timeouts >>

(* Mutant: the command is executed again, not its answer sent again.        *)
AwaitAckRedo ==
  /\ at = "await" /\ Get(Head(toStub))
  /\ at' = IF Head(toStub).is = "+" THEN "hunt" ELSE "command"
  /\ inBuf' = inBuf /\ Quiet

AwaitAck ==
  /\ at = "await" /\ Get(Head(toStub))
  /\ at' = IF Head(toStub).is = "+" THEN "hunt" ELSE "send"
  /\ inBuf' = <<>> /\ Quiet

Stub == Hunt \/ ReadBody \/ StartOver \/ Overflow \/ EndBody \/ CheckSum
          \/ ExecuteCommand \/ Send \/ AwaitAck

----------------------------------------------------------------------------
(* The debugger, as far as the stub depends on it.                          *)

GdbAsk ==
  /\ gdb.waits = "nothing" /\ gdb.n < MaxCommands
  /\ \E c \in Commands :
       /\ gdb' = [gdb EXCEPT !.waits = "ack", !.command = c, !.n = @ + 1]
       /\ toStub' = toStub \o Packet(gdb.n + 1, c)
  /\ UNCHANGED << toGdb, stubVars, faults, timeouts >>

GdbRead(reply) == toGdb # <<>> /\ reply = Head(toGdb) /\ toGdb' = Tail(toGdb)

GdbAcked ==
  /\ GdbRead(Head(toGdb)) /\ Head(toGdb).is = "+" /\ gdb.waits = "ack"
  /\ gdb' = [gdb EXCEPT !.waits = "answer"]
  /\ UNCHANGED << toStub, stubVars, faults, timeouts >>

GdbAskAgain ==
  /\ GdbRead(Head(toGdb)) /\ Head(toGdb).is = "-" /\ gdb.waits = "ack"
  /\ toStub' = toStub \o Packet(gdb.n, gdb.command)
  /\ UNCHANGED << stubVars, gdb, faults, timeouts >>

GdbAnswered ==
  /\ GdbRead(Head(toGdb)) /\ Head(toGdb).is = "packet" /\ gdb.waits = "answer"
  /\ \/ /\ Head(toGdb).good
        /\ toStub' = Append(toStub, Char("+"))
        /\ gdb' = [gdb EXCEPT !.waits = "nothing", !.answer = Head(toGdb).text,
                              !.told = Head(toGdb).n]
     \/ /\ ~Head(toGdb).good
        /\ toStub' = Append(toStub, Char("-"))
        /\ UNCHANGED gdb
  /\ UNCHANGED << stubVars, faults, timeouts >>

(* What it does not wait for is ignored.                                    *)
GdbIgnores ==
  /\ GdbRead(Head(toGdb))
  /\ gdb.waits # IF Head(toGdb).is = "packet" THEN "answer" ELSE "ack"
  /\ UNCHANGED << toStub, stubVars, gdb, faults, timeouts >>

(* Nothing on the link: the debugger sends its packet again, or asks for    *)
(* the answer's.                                                            *)
Stuck ==
  /\ toStub = <<>> /\ toGdb = <<>>
  /\ at \in {"hunt", "body", "sum", "await"}
  /\ gdb.waits # "nothing"
  /\ ~(gdb.waits = "answer" /\ gdb.command.op \in {"s", "c"} /\ gdb.command.arg # "syntax")

GdbTimeout ==
  /\ Stuck /\ timeouts < MaxTimeouts
  /\ timeouts' = timeouts + 1
  /\ toStub' = IF gdb.waits = "ack" THEN Packet(gdb.n, gdb.command) ELSE <<Char("-")>>
  /\ UNCHANGED << toGdb, stubVars, gdb, faults >>

Gdb == GdbAsk \/ GdbAcked \/ GdbAskAgain \/ GdbAnswered \/ GdbIgnores \/ GdbTimeout

----------------------------------------------------------------------------
(* The link loses or changes characters of packets, either way.  What the   *)
(* protocol has no answer to, a damaged acknowledgement, is left out.       *)
DamagePacket ==
  /\ faults < MaxFaults /\ faults' = faults + 1
  /\ \E i \in DOMAIN toStub :
       /\ toStub[i].is \notin {"+", "-"}
       /\ \/ toStub' = RemoveAt(toStub, i)
          \/ \E is \in {"x", "$", "#"} : toStub' = [toStub EXCEPT ![i] = Char(is)]
  /\ UNCHANGED << toGdb, stubVars, gdb, timeouts >>

DamageAnswer ==
  /\ faults < MaxFaults /\ faults' = faults + 1
  /\ \E i \in DOMAIN toGdb :
       /\ toGdb[i].is = "packet"
       /\ \/ toGdb' = RemoveAt(toGdb, i)
          \/ toGdb' = [toGdb EXCEPT ![i].good = FALSE]
  /\ UNCHANGED << toStub, stubVars, gdb, timeouts >>

Next == Stub \/ Gdb \/ DamagePacket \/ DamageAnswer

Spec == Init /\ [][Next]_vars

(* The stub's thread and the debugger go on; the link need not do harm, and *)
(* the debugger need not ask.                                               *)
FairSpec == Spec /\ WF_vars(Stub)
                 /\ WF_vars(GdbAcked \/ GdbAskAgain \/ GdbAnswered \/ GdbIgnores \/ GdbTimeout)

----------------------------------------------------------------------------
TypeOK ==
  /\ at \in {"hunt", "body", "sum", "command", "send", "await"}
  /\ Len(inBuf) < InBufSize
  /\ target \in [Places -> {Zero, Part} \cup 0 .. MaxCommands]
  /\ executed \in 0 .. MaxCommands
  /\ gdb.waits \in {"nothing", "ack", "answer"}
  /\ at = "command" => inBuf # <<>>

(* Through every damage to packets and every retransmission, the stub does  *)
(* each command in the order asked, one that it answers no more than once,  *)
(* and the debugger takes each answer once, as that of the command it asked *)
(* (ReceivePacket(), SendPacket()).  An s or c is not answered, so nothing  *)
(* keeps the stub from taking a second copy of it for a new one.            *)
channel == INSTANCE DebugChannel WITH asked <- gdb.n, done <- executed, told <- gdb.told

ImplementsDebugChannel == channel!ChannelSpec

(* The places that a command that writes is for, as the stub reads it.      *)
Reached(c) ==
  CASE c.op = "G" -> {"regs", "pc"}
    [] c.op \in {"P", "M"} -> {PlaceOf(c)}
    [] OTHER -> {}

(* What an OK says: those places hold the command's data, but for the pc    *)
(* that a G leaves out.  Such a G is answered OK with the pc cleared.       *)
Done(c, u, n) == \A x \in Reached(c) : u[x] = IF x = "pc" /\ c.arg = "nopc" THEN Zero ELSE n

(* The answer tells what command c, the n-th, has made of the target t.     *)
AnswerIsTrue(text, c, t, u, n) ==
  /\ text = "OK" => Done(c, u, n)
  /\ \A x \in Places \ Reached(c) : u[x] = t[x]
  /\ text \notin {"OK", "E02"} => u = t

(* When the debugger has its answer, the answer is true of the target,      *)
(* whatever was damaged, cut or sent again.  OK: the whole of the data is   *)
(* where the stub takes the digits of the command to mean (not always where *)
(* the debugger meant: PlaceOf), or all of it that there was (Done).  E02:  *)
(* at most those places were touched.  Anything else: the target is as it   *)
(* was (ProcessGdbCommand(), RcvHexToMemory(), RcvHexInt()).                *)
AnswersAreTrue ==
  (gdb.waits = "nothing" /\ gdb.n > 0) =>
    AnswerIsTrue(gdb.answer, gdb.command, before, target, gdb.n)

(* Where the link changes a #, or the $ of the packet sent again, what was  *)
(* received before stays in the buffer; a command is ordinary if there is   *)
(* room for that as often as the link does damage.  The longest command of  *)
(* a debugger that keeps to the format, G, leaves room for once.            *)
Ordinary ==
  /\ MaxFaults * (gdb.command.length + 3) < InBufSize
  /\ gdb.command.op \notin {"s", "c"}

(* On a link that does no damage the stub and the debugger never wait for   *)
(* each other, unless for a packet longer than the buffer: no timeout is    *)
(* needed (ReceivePacket(), SendPacket()).                                  *)
NoTimeoutNeeded == (faults = 0 /\ gdb.command.length < InBufSize) => ~Stuck

(* A command other than s and c that fits the buffer is answered, if the    *)
(* link stops doing damage (ReceivePacket(), SendPacket()).                 *)
CommandsAnswered == (gdb.waits = "ack" /\ Ordinary) ~> (gdb.waits = "nothing")
================================================================================
