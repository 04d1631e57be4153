----------------------------- MODULE GdbStubProofs -----------------------------
(***************************************************************************)
(* What the link to the debugger promises, for any commands, any size of   *)
(* the buffer, and however often the link does damage.                     *)
(***************************************************************************)
EXTENDS GdbStub, SequenceTheorems, TLAPS

Chars   == [is : {"$", "#", "c", "x", "+", "-"}, n : Nat, i : Nat]
             \cup [is : {"sum"}, n : Nat, i : Nat \ {0}]
Texts   == {"", "OK", "E01", "E02", "E09", "data", "signal", "none"}
Replies == [is : {"+", "-", "packet"}, n : Nat, text : Texts, good : BOOLEAN]
Askable == [op : Ops \cup {"none"}, arg : Args \cup {"none"}, high : BOOLEAN, length : Nat \ {0}]
Debuggers == [waits : {"nothing", "ack", "answer"}, command : Askable, n : 0 .. MaxCommands,
              answer : Texts, told : 0 .. MaxCommands]
Targets == [Places -> {Zero, Part} \cup 0 .. MaxCommands]

Types ==
  /\ toStub \in Seq(Chars) /\ toGdb \in Seq(Replies)
  /\ at \in {"hunt", "body", "sum", "command", "send", "await"}
  /\ inBuf \in Seq(Chars) /\ Len(inBuf) < InBufSize
  /\ at = "command" => inBuf # <<>>
  /\ outBuf \in Replies
  /\ target \in Targets /\ before \in Targets
  /\ executed \in 0 .. MaxCommands
  /\ gdb \in Debuggers

(* A + is on its way to the stub.                                          *)
Plus(s) == \E i \in 1 .. Len(s) : s[i].is = "+"

(* One + at most.  What is of a command before the n-th comes before it.   *)
StubLine(s, n) ==
  /\ \A i, j \in 1 .. Len(s) : s[i].is = "+" /\ s[j].is = "+" => i = j
  /\ \A j \in 1 .. Len(s) : s[j].is \in {"c", "sum"} /\ s[j].n # n =>
       \E i \in 1 .. Len(s) : j =< i /\ s[i].is = "+"

Ended(s) == s = <<>> \/ s[Len(s)].is = "+"

IsPacket(r, n) == r.is = "packet" /\ r.n = n

(* First come the answers to the command before the n-th, then the         *)
(* acknowledgements of the n-th, then the answers to it.                   *)
GdbLine(s, n, text) ==
  /\ \A i, j \in 1 .. Len(s) : i < j /\ s[i].is = "+" /\ s[j].is = "packet" => s[j].n = n
  /\ \A i, j \in 1 .. Len(s) : i < j /\ IsPacket(s[i], n) => IsPacket(s[j], n)
  /\ \A i \in 1 .. Len(s) : IsPacket(s[i], n) => s[i].text = text

AllOf(s, n) == \A i \in 1 .. Len(s) : IsPacket(s[i], n)
NoneOf(s, n) == \A i \in 1 .. Len(s) : ~IsPacket(s[i], n)

(* The answer says what has become of the target.                          *)
IsTrue(text) == AnswerIsTrue(text, gdb.command, before, target, gdb.n)

Busy == at \in {"send", "await"}

Lines ==
  /\ StubLine(toStub, gdb.n)
  /\ GdbLine(toGdb, gdb.n, outBuf.text)
  /\ \A i \in 1 .. Len(inBuf) : at \in {"body", "sum", "command"} /\ inBuf[i].is = "c" => inBuf[i].n = gdb.n
  /\ Busy => outBuf.is = "packet"

(* The debugger has the answer to its command, and has acknowledged it.    *)
Told ==
  gdb.waits = "nothing" =>
    /\ gdb.told = gdb.n /\ executed = gdb.n
    /\ Ended(toStub) /\ AllOf(toGdb, gdb.n)
    /\ ~Plus(toStub) => at = "hunt"
    /\ gdb.n > 0 => IsTrue(gdb.answer)

(* It waits, while its last acknowledgement has not been read,             *)
Acknowledged ==
  Plus(toStub) =>
    /\ Busy /\ outBuf.n = gdb.told /\ executed = gdb.told
    /\ AllOf(toGdb, gdb.told) /\ gdb.waits # "answer"

(* while the command has not been executed, or is one that is executed as  *)
(* often as it comes,                                                      *)
Asked ==
  gdb.waits # "nothing" =>
    /\ gdb.n > 0 /\ gdb.told = gdb.n - 1
    /\ executed \in {gdb.n - 1, gdb.n}
    /\ ~Busy => /\ NoneOf(toGdb, gdb.n)
                /\ executed = gdb.n => gdb.command.op \in {"s", "c"}

(* and while it has, and is being answered.                                *)
Answered ==
  /\ ~Plus(toStub) /\ Busy =>
       /\ gdb.waits # "nothing" /\ outBuf.n = gdb.n /\ executed = gdb.n
       /\ IsTrue(outBuf.text)
  /\ gdb.waits = "answer" =>
       \A i \in 1 .. Len(toGdb) : toGdb[i].is = "packet" => toGdb[i].n = gdb.n

GdbInv == Types /\ Lines /\ Told /\ Acknowledged /\ Asked /\ Answered

----------------------------------------------------------------------------
(* Characters that are read, lost, damaged, or put on a line.               *)

LEMMA TailIs ==
  ASSUME NEW S, NEW s \in Seq(S), s # <<>>
  PROVE  /\ Len(s) \in Nat \ {0} /\ Len(Tail(s)) = Len(s) - 1 /\ Tail(s) \in Seq(S)
         /\ Head(s) = s[1] /\ Head(s) \in S
         /\ \A i \in 1 .. Len(Tail(s)) : Tail(s)[i] = s[i + 1]
BY HeadTailProperties

LEMMA AppendIs ==
  ASSUME NEW S, NEW s \in Seq(S), NEW x \in S
  PROVE  /\ Len(s) \in Nat /\ Len(Append(s, x)) = Len(s) + 1 /\ Append(s, x) \in Seq(S)
         /\ \A i \in 1 .. Len(s) : Append(s, x)[i] = s[i]
         /\ Append(s, x)[Len(s) + 1] = x
BY AppendProperties

LEMMA ConcatIs ==
  ASSUME NEW S, NEW s \in Seq(S), NEW t \in Seq(S)
  PROVE  /\ Len(s) \in Nat /\ Len(t) \in Nat
         /\ Len(s \o t) = Len(s) + Len(t) /\ s \o t \in Seq(S)
         /\ \A i \in 1 .. Len(s) : (s \o t)[i] = s[i]
         /\ \A i \in Len(s) + 1 .. Len(s) + Len(t) : (s \o t)[i] = t[i - Len(s)]
         /\ \A i \in 1 .. Len(t) : (s \o t)[Len(s) + i] = t[i]
BY ConcatProperties

LEMMA RemoveIs ==
  ASSUME NEW S, NEW s \in Seq(S), NEW k \in 1 .. Len(s)
  PROVE  /\ Len(s) \in Nat /\ Len(RemoveAt(s, k)) = Len(s) - 1 /\ RemoveAt(s, k) \in Seq(S)
         /\ \A i \in 1 .. Len(s) - 1 : RemoveAt(s, k)[i] = IF i < k THEN s[i] ELSE s[i + 1]
<1> DEFINE a == SubSeq(s, 1, k - 1)
           b == SubSeq(s, k + 1, Len(s))
<1>1. Len(s) \in Nat
  OBVIOUS
<1>2. a \in Seq(S) /\ Len(a) = k - 1 /\ \A i \in 1 .. k - 1 : a[i] = s[i]
  BY <1>1, SubSeqProperties
<1>3. b \in Seq(S) /\ Len(b) = Len(s) - k /\ \A i \in 1 .. Len(s) - k : b[i] = s[k + i]
  BY <1>1, SubSeqProperties
<1>4. RemoveAt(s, k) = a \o b
  BY DEF RemoveAt
<1> HIDE DEF a, b
<1>5. Len(a \o b) = Len(s) - 1 /\ a \o b \in Seq(S)
  <2>1. Len(a \o b) = Len(a) + Len(b) /\ a \o b \in Seq(S)
    BY <1>2, <1>3, ConcatIs
  <2> QED
    BY <1>1, <1>2, <1>3, <2>1
<1>6. ASSUME NEW i \in 1 .. Len(s) - 1
      PROVE  (a \o b)[i] = IF i < k THEN s[i] ELSE s[i + 1]
  <2>1. CASE i < k
    <3>1. i \in 1 .. Len(a)
      BY <2>1, <1>1, <1>2
    <3> QED
      BY <2>1, <3>1, <1>2, <1>3, ConcatIs
  <2>2. CASE ~(i < k)
    <3>1. i \in Len(a) + 1 .. Len(a) + Len(b) /\ i - Len(a) \in 1 .. Len(s) - k /\ k + (i - Len(a)) = i + 1
      BY <2>2, <1>1, <1>2, <1>3
    <3>2. (a \o b)[i] = b[i - Len(a)]
      BY <3>1, <1>2, <1>3, ConcatIs
    <3> QED
      BY <2>2, <3>1, <3>2, <1>3
  <2> QED
    BY <2>1, <2>2
<1> QED
  BY <1>1, <1>4, <1>5, <1>6 DEF a, b

(* What the stub reads.                                                     *)
LEMMA StubLineRead ==
  ASSUME NEW s \in Seq(Chars), s # <<>>, NEW n \in Nat, StubLine(s, n)
  PROVE  /\ Tail(s) \in Seq(Chars) /\ StubLine(Tail(s), n) /\ Head(s) \in Chars
         /\ Plus(Tail(s)) => Plus(s) /\ Head(s).is # "+"
         /\ Plus(s) => Plus(Tail(s)) \/ Head(s).is = "+"
         /\ Ended(s) => Ended(Tail(s))
         /\ ~Plus(s) /\ Head(s).is = "c" => Head(s).n = n
<1> DEFINE t == Tail(s)
<1>1. /\ Len(s) \in Nat \ {0} /\ Len(t) = Len(s) - 1 /\ t \in Seq(Chars)
      /\ Head(s) = s[1] /\ Head(s) \in Chars
      /\ \A i \in 1 .. Len(t) : t[i] = s[i + 1]
  BY TailIs
<1> HIDE DEF t
<1>2. \A i \in 1 .. Len(t) : i + 1 \in 2 .. Len(s)
  BY <1>1
<1>3. \A i \in 2 .. Len(s) : i - 1 \in 1 .. Len(t) /\ t[i - 1] = s[i]
  BY <1>1
<1>4. StubLine(t, n)
  <2>1. ASSUME NEW i \in 1 .. Len(t), NEW j \in 1 .. Len(t), t[i].is = "+", t[j].is = "+"
        PROVE  i = j
    <3>1. i + 1 \in 1 .. Len(s) /\ j + 1 \in 1 .. Len(s) /\ s[i + 1].is = "+" /\ s[j + 1].is = "+"
      BY <2>1, <1>1, <1>2
    <3>2. i + 1 = j + 1
      BY <3>1 DEF StubLine
    <3> QED
      BY <3>2
  <2>2. ASSUME NEW j \in 1 .. Len(t), t[j].is \in {"c", "sum"}, t[j].n # n
        PROVE  \E i \in 1 .. Len(t) : j =< i /\ t[i].is = "+"
    <3>1. PICK i \in 1 .. Len(s) : j + 1 =< i /\ s[i].is = "+"
      BY <2>2, <1>1, <1>2 DEF StubLine
    <3>2. i - 1 \in 1 .. Len(t) /\ j =< i - 1 /\ t[i - 1].is = "+"
      BY <3>1, <1>3
    <3> QED
      BY <3>2
  <2> QED
    BY <2>1, <2>2 DEF StubLine
<1>5. Plus(t) => Plus(s) /\ Head(s).is # "+"
  <2> SUFFICES ASSUME NEW i \in 1 .. Len(t), t[i].is = "+"
               PROVE  Plus(s) /\ Head(s).is # "+"
    BY DEF Plus
  <2>1. i + 1 \in 1 .. Len(s) /\ s[i + 1].is = "+" /\ i + 1 # 1 /\ 1 \in 1 .. Len(s)
    BY <1>1, <1>2
  <2> QED
    BY <2>1, <1>1 DEF Plus, StubLine
<1>6. Plus(s) => Plus(t) \/ Head(s).is = "+"
  <2> SUFFICES ASSUME NEW i \in 1 .. Len(s), s[i].is = "+", i # 1
               PROVE  Plus(t)
    BY <1>1 DEF Plus
  <2> QED
    BY <1>3 DEF Plus
<1>7. Ended(s) => Ended(t)
  <2>1. CASE Len(s) = 1
    BY <2>1, <1>1, EmptySeq DEF Ended
  <2>2. CASE Len(s) # 1
    BY <2>2, <1>1 DEF Ended
  <2> QED
    BY <2>1, <2>2
<1>8. ~Plus(s) /\ Head(s).is = "c" => Head(s).n = n
  <2>1. 1 \in 1 .. Len(s)
    BY <1>1
  <2> QED
    BY <2>1, <1>1 DEF Plus, StubLine
<1> QED
  BY <1>1, <1>4, <1>5, <1>6, <1>7, <1>8 DEF t

(* What the link does to a packet on its way to the stub.                   *)
LEMMA StubLineDamaged ==
  ASSUME NEW s \in Seq(Chars), NEW k \in 1 .. Len(s), s[k].is \notin {"+", "-"},
         NEW is \in {"x", "$", "#"}, NEW n \in Nat, StubLine(s, n),
         NEW t, t \in {RemoveAt(s, k), [s EXCEPT ![k] = Char(is)]}
  PROVE  /\ t \in Seq(Chars) /\ StubLine(t, n)
         /\ Plus(t) <=> Plus(s)
         /\ Ended(s) => Ended(t)
<1>1. CASE t = RemoveAt(s, k)
  <2>1. /\ Len(s) \in Nat /\ Len(t) = Len(s) - 1 /\ t \in Seq(Chars)
        /\ \A i \in 1 .. Len(s) - 1 : t[i] = IF i < k THEN s[i] ELSE s[i + 1]
    BY <1>1, RemoveIs
  <2> DEFINE from(i) == IF i < k THEN i ELSE i + 1
             to(i) == IF i < k THEN i ELSE i - 1
  <2>2. \A i \in 1 .. Len(t) : from(i) \in 1 .. Len(s) /\ t[i] = s[from(i)]
    BY <2>1
  <2>3. \A i \in 1 .. Len(s) : i # k => to(i) \in 1 .. Len(t) /\ t[to(i)] = s[i] /\ from(to(i)) = i
    BY <2>1
  <2>4. \A i, j \in 1 .. Len(t) : from(i) = from(j) => i = j
    BY <2>1
  <2>5. \A j \in 1 .. Len(t), i \in 1 .. Len(s) : from(j) =< i /\ i # k => j =< to(i)
    BY <2>1
  <2>9. Ended(s) => Ended(t)
    <3> SUFFICES ASSUME s[Len(s)].is = "+", Len(s) # 0
                 PROVE  t[Len(t)].is = "+"
      BY <2>1, EmptySeq DEF Ended
    <3>1. Len(s) # k /\ to(Len(s)) = Len(t) /\ Len(s) \in 1 .. Len(s)
      BY <2>1
    <3> QED
      BY <3>1, <2>3
  <2> HIDE DEF from, to
  <2>6. Plus(t) <=> Plus(s)
    BY <2>2, <2>3 DEF Plus
  <2>7. \A i, j \in 1 .. Len(t) : t[i].is = "+" /\ t[j].is = "+" => i = j
    BY <2>2, <2>4 DEF StubLine
  <2>8. ASSUME NEW j \in 1 .. Len(t), t[j].is \in {"c", "sum"}, t[j].n # n
        PROVE  \E i \in 1 .. Len(t) : j =< i /\ t[i].is = "+"
    <3>1. PICK i \in 1 .. Len(s) : from(j) =< i /\ s[i].is = "+"
      BY <2>8, <2>2 DEF StubLine
    <3>2. i # k
      BY <3>1
    <3> QED
      BY <3>1, <3>2, <2>3, <2>5
  <2> QED
    BY <2>1, <2>6, <2>7, <2>8, <2>9 DEF StubLine
<1>2. CASE t = [s EXCEPT ![k] = Char(is)]
  <2>1. Char(is) \in Chars /\ Char(is).is = is
    BY DEF Char, Chars
  <2>2. /\ Len(s) \in Nat /\ Len(t) = Len(s) /\ t \in Seq(Chars)
        /\ \A i \in 1 .. Len(s) : t[i] = IF i = k THEN Char(is) ELSE s[i]
    BY <1>2, <2>1
  <2>3. \A i \in 1 .. Len(s) : t[i].is = "+" <=> s[i].is = "+"
    BY <2>1, <2>2
  <2>4. \A i \in 1 .. Len(s) : t[i].is \in {"c", "sum"} => t[i] = s[i]
    BY <2>1, <2>2
  <2>5. Ended(s) => Ended(t)
    <3>1. Len(s) \in 1 .. Len(s) \/ s = <<>>
      BY <2>2, EmptySeq
    <3> QED
      BY <2>2, <2>3, <3>1, EmptySeq DEF Ended
  <2> QED
    BY <2>2, <2>3, <2>4, <2>5 DEF StubLine, Plus
<1> QED
  BY <1>1, <1>2

(* What the debugger sends: an acknowledgement,                             *)
LEMMA StubLineAck ==
  ASSUME NEW s \in Seq(Chars), NEW n \in Nat, StubLine(s, n),
         NEW is \in {"+", "-"}, is = "+" => ~Plus(s),
         NEW t, t = Append(s, Char(is))
  PROVE  /\ t \in Seq(Chars) /\ StubLine(t, n)
         /\ Plus(t) <=> (is = "+" \/ Plus(s))
         /\ is = "+" => Ended(t)
<1>1. Char(is) \in Chars /\ Char(is).is = is
  BY DEF Char, Chars
<1>2. /\ Len(s) \in Nat /\ Len(t) = Len(s) + 1 /\ t \in Seq(Chars)
      /\ \A i \in 1 .. Len(s) : t[i] = s[i]
      /\ t[Len(t)] = Char(is)
  BY <1>1, AppendIs
<1>3. \A i \in 1 .. Len(t) : i \in 1 .. Len(s) \/ i = Len(t)
  BY <1>2
<1>4. \A i \in 1 .. Len(s) : i \in 1 .. Len(t)
  BY <1>2
<1>5. Len(t) \in 1 .. Len(t)
  BY <1>2
<1>6. Plus(t) <=> (is = "+" \/ Plus(s))
  BY <1>1, <1>2, <1>3, <1>4, <1>5 DEF Plus
<1>7. \A i, j \in 1 .. Len(t) : t[i].is = "+" /\ t[j].is = "+" => i = j
  BY <1>1, <1>2, <1>3 DEF StubLine, Plus
<1>8. ASSUME NEW j \in 1 .. Len(t), t[j].is \in {"c", "sum"}, t[j].n # n
      PROVE  \E i \in 1 .. Len(t) : j =< i /\ t[i].is = "+"
  <2>1. j \in 1 .. Len(s) /\ t[j] = s[j]
    BY <1>1, <1>2, <1>3, <1>8
  <2>2. PICK i \in 1 .. Len(s) : j =< i /\ s[i].is = "+"
    BY <1>8, <2>1 DEF StubLine
  <2> QED
    BY <2>2, <1>2, <1>4
<1> QED
  BY <1>1, <1>2, <1>6, <1>7, <1>8 DEF StubLine, Ended

(* and packets.                                                             *)
LEMMA PacketIs ==
  ASSUME NEW n \in Nat, NEW c \in Askable
  PROVE  /\ Packet(n, c) \in Seq(Chars)
         /\ \A i \in 1 .. Len(Packet(n, c)) :
              /\ Packet(n, c)[i].is \notin {"+", "-"}
              /\ Packet(n, c)[i].is \in {"c", "sum"} => Packet(n, c)[i].n = n
<1> DEFINE a == <<Char("$")>>
           b == Body(n, c.length)
           e == <<Char("#"), CheckSumOf(n, c)>>
           good(s) == /\ s \in Seq(Chars)
                      /\ \A i \in 1 .. Len(s) :
                           s[i].is \notin {"+", "-"} /\ (s[i].is \in {"c", "sum"} => s[i].n = n)
<1>1. c.length \in Nat \ {0}
  BY DEF Askable
<1>2. good(a)
  BY DEF Char, Chars
<1>3. good(b)
  <2>1. b \in [1 .. c.length -> Chars] /\ Len(b) = c.length
    BY <1>1 DEF Body, Chars
  <2>2. \A i \in 1 .. c.length : b[i].is = "c" /\ b[i].n = n
    BY <1>1 DEF Body
  <2> HIDE DEF b
  <2>3. b \in Seq(Chars)
    BY <1>1, <2>1
  <2> QED
    BY <2>1, <2>2, <2>3
<1>4. good(e)
  <2>1. Char("#") \in Chars /\ CheckSumOf(n, c) \in Chars
    BY <1>1 DEF Char, CheckSumOf, Chars
  <2>2. e \in Seq(Chars) /\ Len(e) = 2 /\ e[1] = Char("#") /\ e[2] = CheckSumOf(n, c)
    BY <2>1
  <2>3. Char("#").is = "#" /\ CheckSumOf(n, c).is = "sum" /\ CheckSumOf(n, c).n = n
    BY DEF Char, CheckSumOf
  <2> HIDE DEF e
  <2>4. \A i \in 1 .. Len(e) : i = 1 \/ i = 2
    BY <2>2
  <2> QED
    BY <2>2, <2>3, <2>4
<1> HIDE DEF a, b, e
<1>5. ASSUME NEW s, NEW t, good(s), good(t)
      PROVE  good(s \o t)
  <2>1. /\ Len(s) \in Nat /\ Len(t) \in Nat
        /\ Len(s \o t) = Len(s) + Len(t) /\ s \o t \in Seq(Chars)
        /\ \A i \in 1 .. Len(s) : (s \o t)[i] = s[i]
        /\ \A i \in Len(s) + 1 .. Len(s) + Len(t) : (s \o t)[i] = t[i - Len(s)]
    BY <1>5, ConcatIs
  <2>2. \A i \in 1 .. Len(s \o t) :
          \/ i \in 1 .. Len(s)
          \/ i \in Len(s) + 1 .. Len(s) + Len(t) /\ i - Len(s) \in 1 .. Len(t)
    BY <2>1
  <2> QED
    BY <1>5, <2>1, <2>2
<1> HIDE DEF good
<1>6. good(a \o b \o e)
  BY <1>2, <1>3, <1>4, <1>5
<1> QED
  BY <1>6 DEF good, a, b, e, Packet

LEMMA StubLinePacket ==
  ASSUME NEW s \in Seq(Chars), NEW n \in Nat, NEW c \in Askable,
         NEW m, StubLine(s, m), m = n \/ Ended(s)
  PROVE  /\ s \o Packet(n, c) \in Seq(Chars) /\ StubLine(s \o Packet(n, c), n)
         /\ Plus(s \o Packet(n, c)) <=> Plus(s)
<1> DEFINE p == Packet(n, c)
           t == s \o p
<1>1. /\ p \in Seq(Chars)
      /\ \A i \in 1 .. Len(p) : p[i].is # "+" /\ (p[i].is \in {"c", "sum"} => p[i].n = n)
  BY PacketIs
<1> HIDE DEF p
<1>2. /\ Len(s) \in Nat /\ Len(p) \in Nat
      /\ Len(t) = Len(s) + Len(p) /\ t \in Seq(Chars)
      /\ \A i \in 1 .. Len(s) : t[i] = s[i]
      /\ \A i \in Len(s) + 1 .. Len(s) + Len(p) : t[i] = p[i - Len(s)]
  BY <1>1, ConcatIs
<1> HIDE DEF t
<1>3. \A i \in 1 .. Len(t) :
        \/ i \in 1 .. Len(s)
        \/ i \in Len(s) + 1 .. Len(s) + Len(p) /\ i - Len(s) \in 1 .. Len(p)
  BY <1>2
<1>4. \A i \in 1 .. Len(s) : i \in 1 .. Len(t)
  BY <1>2
<1>5. \A i \in 1 .. Len(t) : t[i].is = "+" => i \in 1 .. Len(s) /\ s[i].is = "+"
  BY <1>1, <1>2, <1>3
<1>6. Plus(t) <=> Plus(s)
  BY <1>2, <1>4, <1>5 DEF Plus
<1>7. \A i, j \in 1 .. Len(t) : t[i].is = "+" /\ t[j].is = "+" => i = j
  BY <1>5 DEF StubLine
<1>8. ASSUME NEW j \in 1 .. Len(t), t[j].is \in {"c", "sum"}, t[j].n # n
      PROVE  \E i \in 1 .. Len(t) : j =< i /\ t[i].is = "+"
  <2>1. j \in 1 .. Len(s) /\ t[j] = s[j]
    BY <1>1, <1>2, <1>3, <1>8
  <2>2. PICK i \in 1 .. Len(s) : j =< i /\ s[i].is = "+"
    <3>1. CASE m = n
      BY <1>8, <2>1, <3>1 DEF StubLine
    <3>2. CASE Ended(s)
      <4>1. Len(s) \in 1 .. Len(s) /\ j =< Len(s) /\ s # <<>>
        BY <1>2, <2>1
      <4> QED
        BY <3>2, <4>1 DEF Ended
    <3> QED
      BY <3>1, <3>2
  <2> QED
    BY <2>2, <1>2, <1>4
<1> QED
  <2>1. t \in Seq(Chars) /\ StubLine(t, n) /\ (Plus(t) <=> Plus(s))
    BY <1>2, <1>6, <1>7, <1>8 DEF StubLine
  <2> QED
    BY <2>1 DEF t, p

(* What the debugger reads.                                                 *)
LEMMA GdbLineRead ==
  ASSUME NEW s \in Seq(Replies), s # <<>>, NEW n, NEW text, GdbLine(s, n, text)
  PROVE  /\ Tail(s) \in Seq(Replies) /\ GdbLine(Tail(s), n, text) /\ Head(s) \in Replies
         /\ \A m : AllOf(s, m) => AllOf(Tail(s), m) /\ IsPacket(Head(s), m)
         /\ NoneOf(s, n) => NoneOf(Tail(s), n)
         /\ Head(s).is = "+" =>
              \A i \in 1 .. Len(Tail(s)) : Tail(s)[i].is = "packet" => Tail(s)[i].n = n
         /\ IsPacket(Head(s), n) =>
              AllOf(Tail(s), n) /\ Head(s).text = text /\ ~NoneOf(s, n)
         /\ (\A i \in 1 .. Len(s) : s[i].is = "packet" => s[i].n = n) =>
              /\ \A i \in 1 .. Len(Tail(s)) : Tail(s)[i].is = "packet" => Tail(s)[i].n = n
              /\ Head(s).is = "packet" => Head(s).n = n
<1> DEFINE t == Tail(s)
<1>1. /\ Len(s) \in Nat \ {0} /\ Len(t) = Len(s) - 1 /\ t \in Seq(Replies)
      /\ Head(s) = s[1] /\ Head(s) \in Replies
      /\ \A i \in 1 .. Len(t) : t[i] = s[i + 1]
  BY TailIs
<1> HIDE DEF t
<1>2. \A i \in 1 .. Len(t) : i + 1 \in 1 .. Len(s) /\ 1 < i + 1 /\ t[i] = s[i + 1]
  BY <1>1
<1>3. 1 \in 1 .. Len(s)
  BY <1>1
<1>4. \A i, j \in 1 .. Len(t) : i < j => i + 1 < j + 1
  BY <1>1
<1>5. \A i, j \in 1 .. Len(t) : i < j /\ t[i].is = "+" /\ t[j].is = "packet" => t[j].n = n
  BY <1>2, <1>4 DEF GdbLine
<1>6. \A i, j \in 1 .. Len(t) : i < j /\ IsPacket(t[i], n) => IsPacket(t[j], n)
  BY <1>2, <1>4 DEF GdbLine
<1>7. \A i \in 1 .. Len(t) : IsPacket(t[i], n) => t[i].text = text
  BY <1>2 DEF GdbLine
<1>8. \A m : AllOf(s, m) => AllOf(t, m) /\ IsPacket(s[1], m)
  BY <1>2, <1>3 DEF AllOf
<1>9. NoneOf(s, n) => NoneOf(t, n)
  BY <1>2 DEF NoneOf
<1>10. s[1].is = "+" => \A i \in 1 .. Len(t) : t[i].is = "packet" => t[i].n = n
  BY <1>2, <1>3 DEF GdbLine
<1>11. IsPacket(s[1], n) => AllOf(t, n) /\ s[1].text = text /\ ~NoneOf(s, n)
  BY <1>2, <1>3 DEF GdbLine, AllOf, NoneOf
<1>12. (\A i \in 1 .. Len(s) : s[i].is = "packet" => s[i].n = n) =>
         /\ \A i \in 1 .. Len(t) : t[i].is = "packet" => t[i].n = n
         /\ s[1].is = "packet" => s[1].n = n
  BY <1>2, <1>3
<1>13. GdbLine(t, n, text)
  BY <1>5, <1>6, <1>7 DEF GdbLine
<1> QED
  BY <1>1, <1>8, <1>9, <1>10, <1>11, <1>12, <1>13 DEF t

(* What the link does to an answer.                                         *)
LEMMA GdbLineDamaged ==
  ASSUME NEW s \in Seq(Replies), NEW k \in 1 .. Len(s),
         NEW n, NEW text, GdbLine(s, n, text),
         NEW t, t \in {RemoveAt(s, k), [s EXCEPT ![k].good = FALSE]}
  PROVE  /\ t \in Seq(Replies) /\ GdbLine(t, n, text)
         /\ \A m : AllOf(s, m) => AllOf(t, m)
         /\ NoneOf(s, n) => NoneOf(t, n)
         /\ (\A i \in 1 .. Len(s) : s[i].is = "packet" => s[i].n = n) =>
              \A i \in 1 .. Len(t) : t[i].is = "packet" => t[i].n = n
<1>1. \E from \in [1 .. Len(t) -> 1 .. Len(s)] :
        /\ t \in Seq(Replies)
        /\ \A i \in 1 .. Len(t) :
             t[i].is = s[from[i]].is /\ t[i].n = s[from[i]].n /\ t[i].text = s[from[i]].text
        /\ \A i, j \in 1 .. Len(t) : i < j => from[i] < from[j]
  <2>1. CASE t = RemoveAt(s, k)
    <3>1. /\ Len(s) \in Nat /\ Len(t) = Len(s) - 1 /\ t \in Seq(Replies)
          /\ \A i \in 1 .. Len(s) - 1 : t[i] = IF i < k THEN s[i] ELSE s[i + 1]
      BY <2>1, RemoveIs
    <3> DEFINE from == [i \in 1 .. Len(t) |-> IF i < k THEN i ELSE i + 1]
    <3>2. \A i \in 1 .. Len(t) : (IF i < k THEN i ELSE i + 1) \in 1 .. Len(s) /\ t[i] = s[IF i < k THEN i ELSE i + 1]
      BY <3>1
    <3>3. from \in [1 .. Len(t) -> 1 .. Len(s)]
      BY <3>2
    <3>4. \A i, j \in 1 .. Len(t) : i < j => from[i] < from[j]
      BY <3>1
    <3> QED
      BY <3>1, <3>2, <3>3, <3>4
  <2>2. CASE t = [s EXCEPT ![k].good = FALSE]
    <3>1. s[k] \in Replies
      OBVIOUS
    <3>2. [s[k] EXCEPT !.good = FALSE] \in Replies
      BY <3>1 DEF Replies
    <3>3. /\ Len(s) \in Nat /\ Len(t) = Len(s) /\ t \in Seq(Replies)
          /\ \A i \in 1 .. Len(s) : t[i] = IF i = k THEN [s[k] EXCEPT !.good = FALSE] ELSE s[i]
      BY <2>2, <3>2
    <3>4. \A i \in 1 .. Len(t) : t[i].is = s[i].is /\ t[i].n = s[i].n /\ t[i].text = s[i].text
      BY <3>1, <3>3 DEF Replies
    <3> DEFINE from == [i \in 1 .. Len(t) |-> i]
    <3>5. from \in [1 .. Len(t) -> 1 .. Len(s)] /\ \A i, j \in 1 .. Len(t) : i < j => from[i] < from[j]
      BY <3>3
    <3> QED
      BY <3>3, <3>4, <3>5
  <2> QED
    BY <2>1, <2>2
<1>2. PICK from \in [1 .. Len(t) -> 1 .. Len(s)] :
        /\ t \in Seq(Replies)
        /\ \A i \in 1 .. Len(t) :
             t[i].is = s[from[i]].is /\ t[i].n = s[from[i]].n /\ t[i].text = s[from[i]].text
        /\ \A i, j \in 1 .. Len(t) : i < j => from[i] < from[j]
  BY <1>1
<1>3. \A i \in 1 .. Len(t) : from[i] \in 1 .. Len(s)
  OBVIOUS
<1>4. \A i \in 1 .. Len(t) : \A m : IsPacket(t[i], m) <=> IsPacket(s[from[i]], m)
  BY <1>2 DEF IsPacket
<1>5. \A i, j \in 1 .. Len(t) : i < j /\ t[i].is = "+" /\ t[j].is = "packet" => t[j].n = n
  BY <1>2, <1>3 DEF GdbLine
<1>6. \A i, j \in 1 .. Len(t) : i < j /\ IsPacket(t[i], n) => IsPacket(t[j], n)
  BY <1>2, <1>3, <1>4 DEF GdbLine
<1>7. \A i \in 1 .. Len(t) : IsPacket(t[i], n) => t[i].text = text
  BY <1>2, <1>3, <1>4 DEF GdbLine
<1>8. GdbLine(t, n, text)
  BY <1>5, <1>6, <1>7 DEF GdbLine
<1>9. \A m : AllOf(s, m) => AllOf(t, m)
  BY <1>3, <1>4 DEF AllOf
<1>10. NoneOf(s, n) => NoneOf(t, n)
  BY <1>3, <1>4 DEF NoneOf
<1> QED
  BY <1>2, <1>3, <1>8, <1>9, <1>10

(* What the stub sends: an acknowledgement of the n-th command, while it    *)
(* has not been answered, or an answer.                                     *)
LEMMA GdbLineSent ==
  ASSUME NEW s \in Seq(Replies), NEW r \in Replies, NEW n, NEW text, GdbLine(s, n, text),
         \/ r.is # "packet" /\ NoneOf(s, n)
         \/ IsPacket(r, n) /\ r.text = text
         \/ r.is = "packet" /\ r.n # n /\ NoneOf(s, n) /\ \A i \in 1 .. Len(s) : s[i].is # "+"
  PROVE  /\ Append(s, r) \in Seq(Replies) /\ GdbLine(Append(s, r), n, text)
         /\ \A m : AllOf(s, m) /\ IsPacket(r, m) => AllOf(Append(s, r), m)
         /\ NoneOf(s, n) /\ r.is # "packet" => NoneOf(Append(s, r), n)
         /\ (\A i \in 1 .. Len(s) : s[i].is = "packet" => s[i].n = n) /\ (r.is # "packet" \/ r.n = n) =>
              \A i \in 1 .. Len(Append(s, r)) : Append(s, r)[i].is = "packet" => Append(s, r)[i].n = n
<1> DEFINE t == Append(s, r)
<1>1. /\ Len(s) \in Nat /\ Len(t) = Len(s) + 1 /\ t \in Seq(Replies)
      /\ \A i \in 1 .. Len(s) : t[i] = s[i]
      /\ t[Len(t)] = r
  BY AppendIs
<1> HIDE DEF t
<1>2. \A i \in 1 .. Len(t) : \/ i \in 1 .. Len(s) /\ t[i] = s[i]
                             \/ i = Len(t) /\ t[i] = r
  BY <1>1
<1>3. \A i, j \in 1 .. Len(t) : i < j => i \in 1 .. Len(s) /\ t[i] = s[i]
  BY <1>1
<1>4. \A i, j \in 1 .. Len(t) : i < j /\ t[i].is = "+" /\ t[j].is = "packet" => t[j].n = n
  BY <1>2, <1>3 DEF GdbLine, IsPacket
<1>5. \A i, j \in 1 .. Len(t) : i < j /\ IsPacket(t[i], n) => IsPacket(t[j], n)
  BY <1>2, <1>3 DEF GdbLine, NoneOf
<1>6. \A i \in 1 .. Len(t) : IsPacket(t[i], n) => t[i].text = text
  BY <1>2 DEF GdbLine, IsPacket
<1>7. \A m : AllOf(s, m) /\ IsPacket(r, m) => AllOf(t, m)
  BY <1>2 DEF AllOf
<1>8. NoneOf(s, n) /\ r.is # "packet" => NoneOf(t, n)
  BY <1>2 DEF NoneOf, IsPacket
<1>9. (\A i \in 1 .. Len(s) : s[i].is = "packet" => s[i].n = n) /\ (r.is # "packet" \/ r.n = n) =>
        \A i \in 1 .. Len(t) : t[i].is = "packet" => t[i].n = n
  BY <1>2
<1>10. GdbLine(t, n, text)
  BY <1>4, <1>5, <1>6 DEF GdbLine
<1> QED
  BY <1>1, <1>7, <1>8, <1>9, <1>10 DEF t

LEMMA NextCommandsLine ==
  ASSUME NEW s, NEW n, NEW text, NEW m, m # n, AllOf(s, m)
  PROVE  GdbLine(s, n, text) /\ NoneOf(s, n) /\ \A i \in 1 .. Len(s) : s[i].is # "+"
BY DEF AllOf, NoneOf, GdbLine, IsPacket

LEMMA EndedIs ==
  ASSUME NEW s \in Seq(Chars), Ended(s), ~Plus(s)
  PROVE  s = <<>>
BY EmptySeq DEF Ended, Plus

LEMMA AddCurrent ==
  ASSUME NEW s \in Seq(Chars), NEW x \in Chars, NEW n,
         \A i \in 1 .. Len(s) : s[i].is = "c" => s[i].n = n,
         x.is = "c" => x.n = n
  PROVE  \A i \in 1 .. Len(Append(s, x)) : Append(s, x)[i].is = "c" => Append(s, x)[i].n = n
<1>1. \A i \in 1 .. Len(Append(s, x)) : i \in 1 .. Len(s) \/ i = Len(s) + 1
  BY AppendIs
<1> QED
  BY <1>1, AppendIs

----------------------------------------------------------------------------
(* The answer e.text to command c leaves target e.target of t.              *)
IsFair(e, c, t, n) ==
  /\ e.target \in Targets /\ e.text \in Texts
  /\ e.text = "none" => c.op \in {"s", "c"}
  /\ e.text # "none" => AnswerIsTrue(e.text, c, t, e.target, n)

(* What a command, as asked or as damaged, does and answers.                *)
LEMMA EffectIs ==
  ASSUME NEW c \in Askable,
         NEW r \in {c, [c EXCEPT !.op = "unknown"], [c EXCEPT !.arg = "short"]},
         NEW t \in Targets, NEW n \in 0 .. MaxCommands
  PROVE  IsFair(Effect(r, t, n), c, t, n)
<1> DEFINE e == Effect(r, t, n)
<1>1. /\ r.op = c.op \/ r.op = "unknown"
      /\ r.arg = c.arg \/ r.arg = "short"
      /\ r.high = c.high
  <2>1. CASE r = c
    BY <2>1 DEF Askable
  <2>2. CASE r = [c EXCEPT !.op = "unknown"]
    BY <2>2 DEF Askable
  <2>3. CASE r = [c EXCEPT !.arg = "short"]
    BY <2>3 DEF Askable
  <2> QED
    BY <2>1, <2>2, <2>3
<1>2. \A d \in {"whole", "excess", "part", "empty"} : Stored(d, n) \in {Zero, Part} \cup 0 .. MaxCommands
  BY DEF Stored
<1>3. \A u \in Targets, x \in Places, d \in {"whole", "excess", "part", "empty"} :
        /\ Write(u, x, d, n) \in Targets
        /\ \A y \in Places : Write(u, x, d, n)[y] = IF y = x THEN Stored(d, n) ELSE u[y]
  <2> SUFFICES ASSUME NEW u \in Targets, NEW x \in Places, NEW d \in {"whole", "excess", "part", "empty"}
               PROVE  /\ Write(u, x, d, n) \in Targets
                      /\ \A y \in Places : Write(u, x, d, n)[y] = IF y = x THEN Stored(d, n) ELSE u[y]
    OBVIOUS
  <2>1. Stored(d, n) \in {Zero, Part} \cup 0 .. MaxCommands
    BY <1>2
  <2> QED
    BY <2>1 DEF Write, Targets
<1>4. Stored("whole", n) = n /\ Stored("excess", n) = n /\ Stored("empty", n) = Zero
  BY DEF Stored
<1>5. \A text, u : Answer(text, u).text = text /\ Answer(text, u).target = u
  BY DEF Answer
<1>6. CASE r.op = "G"
  <2> DEFINE regs == CASE r.arg = "short" -> "part" [] r.arg = "nopc" -> "whole" [] OTHER -> "excess"
             pc == CASE r.arg \in {"short", "nopc"} -> "empty" [] r.arg = "excess" -> "excess"
                     [] OTHER -> "whole"
             u == Write(t, "regs", regs, n)
             v == Write(u, "pc", pc, n)
  <2>1. e = Answer(IF "whole" \in {regs, pc} THEN "OK" ELSE "E02", v)
    BY <1>6 DEF Effect, WriteAll
  <2>2. regs \in {"whole", "excess", "part", "empty"} /\ pc \in {"whole", "excess", "part", "empty"}
    OBVIOUS
  <2>3. "whole" \in {regs, pc} =>
          \/ r.arg \notin {"nopc", "short"} /\ regs = "excess" /\ pc = "whole"
          \/ r.arg = "nopc" /\ regs = "whole" /\ pc = "empty"
    OBVIOUS
  <2> HIDE DEF regs, pc
  <2>4. u \in Targets /\ \A y \in Places : u[y] = IF y = "regs" THEN Stored(regs, n) ELSE t[y]
    BY <1>3, <2>2 DEF Places
  <2>5. v \in Targets /\ \A y \in Places : v[y] = IF y = "pc" THEN Stored(pc, n) ELSE u[y]
    BY <1>3, <2>2, <2>4 DEF Places
  <2> HIDE DEF u, v
  <2>6. c.op = "G" /\ Reached(c) = {"regs", "pc"}
    BY <1>1, <1>6 DEF Reached
  <2>7. e.text \in {"OK", "E02"} /\ e.target = v
    BY <1>5, <2>1
  <2>8. e.text = "OK" => Done(c, v, n)
    <3> SUFFICES ASSUME e.text = "OK"
                 PROVE  v["regs"] = n /\ v["pc"] = IF c.arg = "nopc" THEN Zero ELSE n
      BY <2>6 DEF Done
    <3>1. "whole" \in {regs, pc}
      BY <1>5, <2>1
    <3>2. /\ Stored(regs, n) = n
          /\ Stored(pc, n) = IF c.arg = "nopc" THEN Zero ELSE n
      BY <1>1, <3>1, <2>3, <1>4
    <3> QED
      BY <3>2, <2>4, <2>5 DEF Places
  <2>9. \A x \in Places \ Reached(c) : v[x] = t[x]
    BY <2>4, <2>5, <2>6
  <2>10. AnswerIsTrue(e.text, c, t, v, n)
    BY <2>7, <2>8, <2>9 DEF AnswerIsTrue
  <2> QED
    BY <2>5, <2>6, <2>7, <2>10 DEF Texts, IsFair
<1>7. CASE r.op \in {"P", "M"}
  <2> DEFINE place == PlaceOf(r)
             data == CASE r.arg = "short" -> "part" [] r.arg = "excess" -> "excess"
                       [] r.arg = "border" -> "empty" [] OTHER -> "whole"
             v == Write(t, place, data, n)
  <2>1. \/ e \in {Answer("E01", t), Answer("E02", t)}
        \/ e = Answer(IF data = "whole" THEN "OK" ELSE "E02", v)
    BY <1>7 DEF Effect, WriteOne
  <2>2. place \in Places /\ data \in {"whole", "excess", "part", "empty"}
    BY DEF Places, PlaceOf
  <2>3. Reached(c) = {place} /\ place # "pc"
    BY <1>1, <1>7 DEF Reached, PlaceOf
  <2> HIDE DEF place, data
  <2>4. v \in Targets /\ \A y \in Places : v[y] = IF y = place THEN Stored(data, n) ELSE t[y]
    <3>1. \A x \in Places, d \in {"whole", "excess", "part", "empty"} :
            /\ Write(t, x, d, n) \in Targets
            /\ \A y \in Places : Write(t, x, d, n)[y] = IF y = x THEN Stored(d, n) ELSE t[y]
      BY <1>3
    <3> QED
      BY <3>1, <2>2, Zenon
  <2> HIDE DEF v
  <2>5. CASE e \in {Answer("E01", t), Answer("E02", t)}
    <3>1. e.target = t /\ e.text \in {"E01", "E02"}
      BY <2>5, <1>5
    <3> QED
      BY <3>1 DEF Texts, IsFair, AnswerIsTrue
  <2>6. CASE e = Answer(IF data = "whole" THEN "OK" ELSE "E02", v)
    <3>1. e.target = v /\ e.text \in {"OK", "E02"} /\ (e.text = "OK" => data = "whole")
      BY <2>6, <1>5
    <3> HIDE DEF e
    <3>2. e.text = "OK" => Done(c, v, n)
      BY <3>1, <2>2, <2>3, <2>4, <1>4 DEF Done
    <3>3. \A x \in Places \ Reached(c) : v[x] = t[x]
      BY <2>3, <2>4
    <3>4. AnswerIsTrue(e.text, c, t, e.target, n)
      BY <3>1, <3>2, <3>3 DEF AnswerIsTrue
    <3>5. IsFair(e, c, t, n)
      BY <3>1, <3>4, <2>4 DEF Texts, IsFair
    <3> QED
      BY <3>5 DEF e
  <2> QED
    BY <2>1, <2>5, <2>6
<1>8. CASE r.op \in {"s", "c"}
  <2>1. c.op \in {"s", "c"}
    BY <1>1, <1>8
  <2>2. PICK u \in {t, [t EXCEPT !["pc"] = n], [t EXCEPT !["pc"] = Part]} :
          e = Answer("E01", t) \/ e = Answer("none", u)
    BY <1>8 DEF Effect, Resume
  <2>3. u \in Targets
    BY <2>2 DEF Targets
  <2>4. e.target \in Targets /\ (e.text = "none" \/ (e.text = "E01" /\ e.target = t))
    <3> HIDE DEF e
    <3> QED
      BY <1>5, <2>2, <2>3
  <2>5. e.text \in Texts /\ (e.text = "none" => c.op \in {"s", "c"})
    BY <2>1, <2>4 DEF Texts
  <2>6. e.text # "none" => e.target = t /\ e.text # "OK"
    BY <2>4
  <2>7. IsFair(e, c, t, n)
    <3> HIDE DEF e
    <3> QED
      BY <2>4, <2>5, <2>6 DEF IsFair, AnswerIsTrue
  <2> QED
    BY <2>7
<1>9. CASE r.op \notin {"G", "P", "M", "s", "c"}
  <2>1. PICK text \in {"data", "signal", "E01", "E09", ""} : e = Answer(text, t)
    BY <1>9 DEF Effect, Read
  <2>2. e.target = t /\ e.text = text
    <3>1. Answer(text, t).text = text /\ Answer(text, t).target = t
      BY <1>5
    <3> HIDE DEF e
    <3> QED
      BY <2>1, <3>1
  <2> QED
    BY <2>2 DEF Texts, IsFair, AnswerIsTrue
<1> QED
  BY <1>6, <1>7, <1>8, <1>9

----------------------------------------------------------------------------
LEMMA GdbInvInit == Init => GdbInv
<1> SUFFICES ASSUME Init
             PROVE  GdbInv
  OBVIOUS
<1>1. Types
  <2>1. NoCommand \in Askable
    BY DEF NoCommand, Askable, Ops, Args
  <2>2. gdb \in Debuggers
    <3>1. 0 \in 0 .. MaxCommands
      BY GdbAssumption
    <3> QED
      BY <2>1, <3>1 DEF Init, Debuggers, Texts
  <2>3. Nak \in Replies
    BY DEF Nak, Replies, Texts
  <2>4. target \in Targets
    <3>1. 0 \in 0 .. MaxCommands
      BY GdbAssumption
    <3> QED
      BY <3>1 DEF Init, Targets
  <2>5. <<>> \in Seq(Chars) /\ <<>> \in Seq(Replies) /\ Len(<<>>) = 0
    OBVIOUS
  <2>6. inBuf = <<>> /\ executed = 0
    BY DEF Init
  <2>7. Len(inBuf) < InBufSize /\ executed \in 0 .. MaxCommands
    BY <2>5, <2>6, GdbAssumption
  <2> QED
    BY <2>2, <2>3, <2>4, <2>5, <2>7 DEF Init, Types
<1>2. Len(toStub) = 0 /\ Len(toGdb) = 0 /\ Len(inBuf) = 0
  BY DEF Init
<1>3. Ended(toStub) /\ AllOf(toGdb, gdb.n) /\ ~Plus(toStub)
  <2>1. Ended(toStub)
    BY DEF Init, Ended
  <2>2. AllOf(toGdb, gdb.n)
    BY <1>2 DEF AllOf
  <2>3. ~Plus(toStub)
    BY <1>2 DEF Plus
  <2> QED
    BY <2>1, <2>2, <2>3
<1>5. StubLine(toStub, gdb.n) /\ GdbLine(toGdb, gdb.n, outBuf.text)
  BY <1>2 DEF StubLine, GdbLine
<1>6. Lines
  BY <1>2, <1>5 DEF Lines, Init, Busy
<1>4. gdb.waits = "nothing" /\ gdb.n = 0 /\ gdb.told = 0 /\ executed = 0 /\ at = "hunt"
  BY DEF Init
<1> QED
  BY <1>1, <1>3, <1>4, <1>6 DEF GdbInv, Told, Acknowledged, Asked, Answered, Busy

(* The stub reads on, while no acknowledgement is expected.                *)
LEMMA GdbInvReceive ==
  ASSUME GdbInv, Hunt \/ ReadBody \/ StartOver \/ Overflow \/ EndBody
  PROVE  GdbInv'
<1> DEFINE x == Head(toStub)
<1>1. /\ toStub \in Seq(Chars) /\ toStub # <<>> /\ gdb.n \in Nat /\ StubLine(toStub, gdb.n)
      /\ toStub' = Tail(toStub) /\ ~Busy /\ ~Busy'
  BY DEF GdbInv, Types, Lines, Debuggers, Hunt, ReadBody, StartOver, Overflow, EndBody, Get, Busy
<1>2. /\ toStub' \in Seq(Chars) /\ StubLine(toStub', gdb.n) /\ x \in Chars
      /\ Plus(toStub') => Plus(toStub)
      /\ Ended(toStub) => Ended(toStub')
      /\ ~Plus(toStub) /\ x.is = "c" => x.n = gdb.n
  BY <1>1, StubLineRead
<1>3. ~Plus(toStub) /\ ~Plus(toStub')
  BY <1>1, <1>2 DEF GdbInv, Acknowledged
<1>4. UNCHANGED << toGdb, outBuf, target, before, executed, gdb >>
  BY DEF Hunt, ReadBody, StartOver, Overflow, EndBody, Quiet
<1>5. /\ inBuf' \in Seq(Chars) /\ Len(inBuf') < InBufSize
      /\ at' \in {"hunt", "body", "sum", "command"}
      /\ at' = "command" => inBuf' # <<>>
      /\ \A i \in 1 .. Len(inBuf') : at' \in {"body", "sum", "command"} /\ inBuf'[i].is = "c" => inBuf'[i].n = gdb.n
      /\ gdb.waits = "nothing" => at' = "hunt"
  <2>1. \A i \in 1 .. Len(inBuf) : at = "body" /\ inBuf[i].is = "c" => inBuf[i].n = gdb.n
    BY DEF GdbInv, Lines
  <2>2. gdb.waits = "nothing" => at = "hunt" /\ Ended(toStub)
    BY <1>3 DEF GdbInv, Told
  <2>3. gdb.waits = "nothing" => FALSE
    BY <1>1, <1>3, <2>2, EndedIs
  <2>4. inBuf \in Seq(Chars) /\ Len(inBuf) < InBufSize
    BY DEF GdbInv, Types
  <2>5. CASE Hunt \/ StartOver
    <3>1. inBuf' = <<>> /\ at' \in {"hunt", "body"}
      BY <2>5 DEF Hunt, StartOver
    <3>2. inBuf' \in Seq(Chars) /\ Len(inBuf') = 0 /\ Len(inBuf') < InBufSize
      BY <3>1, GdbAssumption
    <3>3. \A i \in 1 .. Len(inBuf') : FALSE
      BY <3>2
    <3> QED
      BY <3>1, <3>2, <3>3, <2>3
  <2>6. CASE ReadBody
    <3>1. inBuf' = Append(inBuf, x) /\ at' = "body" /\ at = "body" /\ Len(inBuf) < InBufSize - 1
      BY <2>4, <2>6, GdbAssumption DEF ReadBody, BufferFull
    <3>2. \A i \in 1 .. Len(inBuf') : inBuf'[i].is = "c" => inBuf'[i].n = gdb.n
      BY <1>2, <1>3, <2>1, <2>4, <3>1, AddCurrent
    <3>3. inBuf' \in Seq(Chars) /\ Len(inBuf') = Len(inBuf) + 1
      BY <1>2, <2>4, <3>1
    <3>4. Len(inBuf') < InBufSize
      BY <2>4, <3>1, <3>3, GdbAssumption
    <3>5. at' \in {"hunt", "body", "sum", "command"} /\ at' # "command"
      BY <3>1
    <3> QED
      BY <2>3, <3>2, <3>3, <3>4, <3>5
  <2>7. CASE Overflow
    <3>1. inBuf' = inBuf /\ at' = "command" /\ at = "body" /\ Len(inBuf) >= InBufSize - 1
      BY <2>7 DEF Overflow, BufferFull
    <3>2. inBuf # <<>>
      BY <3>1, GdbAssumption
    <3> QED
      BY <2>1, <2>3, <2>4, <3>1, <3>2
  <2>8. CASE EndBody
    <3>1. inBuf' = inBuf /\ at' = "sum" /\ at = "body"
      BY <2>8 DEF EndBody
    <3> QED
      BY <2>1, <2>3, <2>4, <3>1
  <2> QED
    BY <2>5, <2>6, <2>7, <2>8
<1> HIDE DEF x
<1>6. Types'
  BY <1>2, <1>4, <1>5 DEF GdbInv, Types
<1>7. Lines'
  BY <1>1, <1>2, <1>4, <1>5 DEF GdbInv, Lines
<1>8. Told'
  BY <1>2, <1>3, <1>4, <1>5 DEF GdbInv, Told, IsTrue
<1>9. Acknowledged'
  BY <1>3 DEF Acknowledged
<1>10. Asked' 
  BY <1>1, <1>4 DEF GdbInv, Asked
<1>11. Answered'
  BY <1>1, <1>4 DEF GdbInv, Answered
<1> QED
  BY <1>6, <1>7, <1>8, <1>9, <1>10, <1>11 DEF GdbInv

(* The stub acknowledges a packet, or asks for it again.                   *)
LEMMA GdbInvCheckSum ==
  ASSUME GdbInv, CheckSum
  PROVE  GdbInv'
<1> DEFINE x == Head(toStub)
           r == IF SumFits(x) THEN Ack ELSE Nak
<1>1. /\ toStub \in Seq(Chars) /\ toStub # <<>> /\ gdb.n \in Nat /\ StubLine(toStub, gdb.n)
      /\ toGdb \in Seq(Replies) /\ GdbLine(toGdb, gdb.n, outBuf.text)
      /\ toStub' = Tail(toStub) /\ at = "sum" /\ ~Busy /\ ~Busy'
  BY DEF GdbInv, Types, Lines, Debuggers, CheckSum, Get, Busy
<1>2. /\ toStub' \in Seq(Chars) /\ StubLine(toStub', gdb.n) /\ x \in Chars
      /\ Plus(toStub') => Plus(toStub)
      /\ Ended(toStub) => Ended(toStub')
  BY <1>1, StubLineRead
<1>3. ~Plus(toStub) /\ ~Plus(toStub')
  BY <1>1, <1>2 DEF GdbInv, Acknowledged
<1>4. UNCHANGED << inBuf, outBuf, target, before, executed, gdb >>
  BY DEF CheckSum
<1>5. gdb.waits # "nothing"
  BY <1>1, <1>3, EndedIs DEF GdbInv, Told
<1>6. r \in Replies /\ r.is # "packet"
  BY DEF Replies, Texts, Ack, Nak
<1>7. toGdb' = Append(toGdb, r) /\ at' \in {"hunt", "command"} /\ (at' = "command" => SumFits(x))
  BY DEF CheckSum
<1>8. NoneOf(toGdb, gdb.n)
  BY <1>1, <1>5 DEF GdbInv, Asked
<1> HIDE DEF r
<1>9. /\ toGdb' \in Seq(Replies) /\ GdbLine(toGdb', gdb.n, outBuf.text)
      /\ NoneOf(toGdb', gdb.n)
      /\ gdb.waits = "answer" => \A i \in 1 .. Len(toGdb') : toGdb'[i].is = "packet" => toGdb'[i].n = gdb.n
  BY <1>1, <1>6, <1>7, <1>8, GdbLineSent DEF GdbInv, Answered
<1>10. at' = "command" => inBuf # <<>>
  <2> SUFFICES ASSUME SumFits(x)
               PROVE  inBuf # <<>>
    BY <1>7
  <2>1. x.is = "sum" /\ inBuf = Body(x.n, x.i)
    BY DEF SumFits
  <2>2. x.i \in Nat \ {0}
    BY <1>2, <2>1 DEF Chars
  <2>3. 1 \in 1 .. x.i /\ DOMAIN inBuf = 1 .. x.i
    BY <2>1, <2>2 DEF Body
  <2>4. inBuf \in Seq(Chars)
    BY DEF GdbInv, Types
  <2>5. DOMAIN inBuf = 1 .. Len(inBuf) /\ Len(inBuf) \in Nat
    BY <2>4
  <2>6. 1 \in 1 .. Len(inBuf)
    BY <2>3, <2>5
  <2> QED
    BY <2>5, <2>6
<1> HIDE DEF x
<1>11. Types'
  BY <1>2, <1>4, <1>7, <1>9, <1>10 DEF GdbInv, Types
<1>12. Lines'
  BY <1>1, <1>2, <1>4, <1>7, <1>9 DEF GdbInv, Lines
<1>13. Told'
  BY <1>4, <1>5 DEF Told
<1>14. Acknowledged'
  BY <1>3 DEF Acknowledged
<1>15. Asked'
  BY <1>1, <1>4, <1>9 DEF GdbInv, Asked
<1>16. Answered'
  BY <1>1, <1>4, <1>9 DEF GdbInv, Answered
<1> QED
  BY <1>11, <1>12, <1>13, <1>14, <1>15, <1>16 DEF GdbInv

(* The stub executes a command.                                             *)
LEMMA GdbInvExecute ==
  ASSUME GdbInv, ExecuteCommand
  PROVE  GdbInv'
<1> DEFINE c == gdb.command
           n == gdb.n
           e == Effect(Received, target, n)
<1>1. /\ toStub \in Seq(Chars) /\ gdb.n \in Nat /\ StubLine(toStub, n)
      /\ toGdb \in Seq(Replies) /\ at = "command" /\ ~Busy
      /\ c \in Askable /\ n \in 0 .. MaxCommands /\ target \in Targets
      /\ gdb \in Debuggers
  BY GdbAssumption DEF GdbInv, Types, Lines, Debuggers, ExecuteCommand, Busy
<1>2. ~Plus(toStub)
  BY <1>1 DEF GdbInv, Acknowledged
<1>3. UNCHANGED << toStub, toGdb, inBuf, gdb >> /\ before' = target /\ target' = e.target
  BY DEF ExecuteCommand
<1>4. gdb.waits # "nothing" /\ gdb.n > 0 /\ gdb.told = n - 1 /\ NoneOf(toGdb, n)
  BY <1>1, <1>2 DEF GdbInv, Told, Asked
<1>5. IsFair(e, c, target, n)
  BY <1>1, EffectIs DEF Received
<1>6. executed' = n
  <2>1. executed \in {n - 1, n} /\ (executed = n => c.op \in {"s", "c"})
    BY <1>1, <1>4 DEF GdbInv, Asked
  <2> QED
    BY <1>1, <2>1 DEF ExecuteCommand
<1>7. \/ e.text = "none" /\ at' = "hunt" /\ outBuf' = outBuf
      \/ /\ e.text # "none" /\ at' = "send"
         /\ outBuf' = [is |-> "packet", n |-> n, text |-> e.text, good |-> TRUE]
  BY DEF ExecuteCommand
<1>8. e.text = "none" => c.op \in {"s", "c"}
  BY <1>5 DEF IsFair
<1> HIDE DEF e
<1>9. outBuf' \in Replies
  <2>1. outBuf \in Replies /\ e.text \in Texts
    BY <1>5 DEF GdbInv, Types, IsFair
  <2>2. [is |-> "packet", n |-> n, text |-> e.text, good |-> TRUE] \in Replies
    BY <1>1, <2>1 DEF Replies
  <2> QED
    BY <1>7, <2>1, <2>2
<1>10. Types'
  BY <1>1, <1>3, <1>5, <1>6, <1>7, <1>9 DEF GdbInv, Types, IsFair
<1>11. GdbLine(toGdb, n, (outBuf').text)
  BY <1>4 DEF GdbInv, Lines, GdbLine, NoneOf
<1>12. Lines'
  BY <1>1, <1>3, <1>7, <1>11 DEF Lines, Busy
<1>13. Told'
  BY <1>3, <1>4 DEF Told
<1>14. Acknowledged'
  BY <1>2, <1>3 DEF Acknowledged
<1>15. Asked'
  BY <1>1, <1>3, <1>4, <1>6, <1>7, <1>8 DEF Asked, Busy
<1>16. at' = "send" => IsTrue(outBuf.text)'
  BY <1>3, <1>5, <1>7 DEF IsTrue, IsFair
<1>17. Answered'
  BY <1>1, <1>3, <1>4, <1>6, <1>7, <1>16 DEF GdbInv, Answered, Busy
<1> QED
  BY <1>10, <1>12, <1>13, <1>14, <1>15, <1>17 DEF GdbInv

(* It sends its answer.                                                    *)
LEMMA GdbInvSend ==
  ASSUME GdbInv, Send
  PROVE  GdbInv'
<1> DEFINE n == gdb.n
<1>1. /\ toGdb \in Seq(Replies) /\ GdbLine(toGdb, n, outBuf.text) /\ n \in Nat
      /\ toGdb' = Append(toGdb, outBuf) /\ outBuf \in Replies /\ outBuf.is = "packet"
      /\ Busy /\ Busy'
      /\ UNCHANGED << toStub, inBuf, outBuf, target, before, executed, gdb >>
  BY GdbAssumption DEF GdbInv, Types, Lines, Debuggers, Send, Busy
<1>2. CASE ~Plus(toStub)
  <2>1. IsPacket(outBuf, n) /\ gdb.waits # "nothing"
    BY <1>1, <1>2 DEF GdbInv, Answered, IsPacket
  <2>2. /\ toGdb' \in Seq(Replies) /\ GdbLine(toGdb', n, outBuf.text)
        /\ gdb.waits = "answer" => \A i \in 1 .. Len(toGdb') : toGdb'[i].is = "packet" => toGdb'[i].n = n
    BY <1>1, <2>1, GdbLineSent DEF GdbInv, Answered, IsPacket
  <2>3. Types' /\ Lines'
    BY <1>1, <2>2 DEF GdbInv, Types, Lines, Send
  <2>4. Told' /\ Acknowledged'
    BY <1>1, <1>2, <2>1 DEF Told, Acknowledged
  <2>5. Asked'
    BY <1>1 DEF GdbInv, Asked
  <2>6. Answered'
    BY <1>1, <2>2 DEF GdbInv, Answered, IsTrue
  <2> QED
    BY <2>3, <2>4, <2>5, <2>6 DEF GdbInv
<1>3. CASE Plus(toStub)
  <2>1. outBuf.n = gdb.told /\ executed = gdb.told /\ AllOf(toGdb, gdb.told) /\ gdb.waits # "answer"
    BY <1>3 DEF GdbInv, Acknowledged
  <2>2. gdb.told # n => NoneOf(toGdb, n) /\ \A i \in 1 .. Len(toGdb) : toGdb[i].is # "+"
    BY <2>1, NextCommandsLine
  <2>3. /\ toGdb' \in Seq(Replies) /\ GdbLine(toGdb', n, outBuf.text)
        /\ AllOf(toGdb', gdb.told)
    BY <1>1, <2>1, <2>2, GdbLineSent DEF IsPacket
  <2>4. Types' /\ Lines'
    BY <1>1, <2>3 DEF GdbInv, Types, Lines, Send
  <2>5. Told' 
    BY <1>1, <1>3, <2>3 DEF GdbInv, Told, IsTrue
  <2>6. Acknowledged'
    BY <1>1, <2>1, <2>3 DEF Acknowledged
  <2>7. Asked'
    BY <1>1 DEF GdbInv, Asked
  <2>8. Answered'
    BY <1>1, <1>3, <2>1 DEF Answered
  <2> QED
    BY <2>4, <2>5, <2>6, <2>7, <2>8 DEF GdbInv
<1> QED
  BY <1>2, <1>3

(* It is acknowledged, or sends again.                                     *)
LEMMA GdbInvAwait ==
  ASSUME GdbInv, AwaitAck
  PROVE  GdbInv'
<1> DEFINE x == Head(toStub)
           n == gdb.n
<1>1. /\ toStub \in Seq(Chars) /\ toStub # <<>> /\ n \in Nat /\ StubLine(toStub, n)
      /\ toStub' = Tail(toStub) /\ Busy /\ outBuf.is = "packet"
      /\ inBuf' = <<>> /\ at' = IF x.is = "+" THEN "hunt" ELSE "send"
      /\ UNCHANGED << toGdb, outBuf, target, before, executed, gdb >>
      /\ gdb \in Debuggers
  BY GdbAssumption DEF GdbInv, Types, Lines, Debuggers, AwaitAck, Get, Quiet, Busy
<1>2. /\ toStub' \in Seq(Chars) /\ StubLine(toStub', n) /\ x \in Chars
      /\ Plus(toStub') => Plus(toStub) /\ x.is # "+"
      /\ Plus(toStub) => Plus(toStub') \/ x.is = "+"
      /\ Ended(toStub) => Ended(toStub')
  BY <1>1, StubLineRead
<1>3. x.is = "+" => Plus(toStub)
  <2>1. 1 \in 1 .. Len(toStub) /\ x = toStub[1]
    BY <1>1, TailIs
  <2> QED
    BY <2>1 DEF Plus
<1>4. <<>> \in Seq(Chars) /\ Len(<<>>) < InBufSize /\ \A i \in 1 .. Len(<<>>) : FALSE
  <2>1. Len(<<>>) = 0 /\ <<>> \in Seq(Chars)
    OBVIOUS
  <2> QED
    BY <2>1, GdbAssumption
<1> HIDE DEF x
<1>5. Types'
  BY <1>1, <1>2, <1>4 DEF GdbInv, Types
<1>6. Lines'
  BY <1>1, <1>2, <1>4 DEF GdbInv, Lines
<1>7. Told'
  BY <1>1, <1>2 DEF GdbInv, Told, Answered, IsTrue
<1>8. Acknowledged'
  BY <1>1, <1>2 DEF GdbInv, Acknowledged, Busy
<1>9. Asked'
  <2>1. CASE x.is = "+"
    <3>1. gdb.waits # "nothing" => NoneOf(toGdb, n) /\ executed # n
      <4> SUFFICES ASSUME gdb.waits # "nothing"
                   PROVE  NoneOf(toGdb, n) /\ executed # n
        OBVIOUS
      <4>1. AllOf(toGdb, gdb.told) /\ executed = gdb.told
        BY <1>3, <2>1 DEF GdbInv, Acknowledged
      <4>2. gdb.told # n
        BY <1>1 DEF GdbInv, Asked
      <4> QED
        BY <4>1, <4>2, NextCommandsLine
    <3> QED
      BY <1>1, <3>1 DEF GdbInv, Asked
  <2>2. CASE x.is # "+"
    BY <1>1, <2>2 DEF GdbInv, Asked, Busy
  <2> QED
    BY <2>1, <2>2
<1>10. Answered'
  BY <1>1, <1>2 DEF GdbInv, Answered, Busy, IsTrue
<1> QED
  BY <1>5, <1>6, <1>7, <1>8, <1>9, <1>10 DEF GdbInv

(* The debugger.                                                            *)
LEMMA GdbInvAsk ==
  ASSUME GdbInv, GdbAsk
  PROVE  GdbInv'
<1> DEFINE n == gdb.n
<1>1. /\ toStub \in Seq(Chars) /\ n \in 0 .. MaxCommands /\ StubLine(toStub, n) /\ n < MaxCommands
      /\ MaxCommands \in Nat
      /\ gdb \in Debuggers /\ gdb.waits = "nothing" /\ Ended(toStub) /\ AllOf(toGdb, n)
      /\ gdb.told = n /\ executed = n
      /\ UNCHANGED << toGdb, stubVars >>
  BY GdbAssumption DEF GdbInv, Types, Lines, Told, Debuggers, GdbAsk
<1>2. PICK c \in Commands : /\ gdb' = [gdb EXCEPT !.waits = "ack", !.command = c, !.n = @ + 1]
                            /\ toStub' = toStub \o Packet(n + 1, c)
  BY DEF GdbAsk
<1>3. c \in Askable
  BY GdbAssumption DEF Askable
<1>15. n \in Nat /\ n + 1 \in Nat /\ n + 1 \in 0 .. MaxCommands /\ n # n + 1 /\ n + 1 > 0 /\ (n + 1) - 1 = n
  BY <1>1
<1>4. /\ gdb' \in Debuggers /\ gdb'.waits = "ack" /\ gdb'.n = n + 1 /\ gdb'.command = c
      /\ gdb'.told = n
  <2>1. gdb' = [gdb EXCEPT !.waits = "ack", !.command = c, !.n = n + 1]
    BY <1>2
  <2> QED
    BY <1>1, <1>3, <1>15, <2>1 DEF Debuggers
<1>5. toStub' \in Seq(Chars) /\ StubLine(toStub', n + 1) /\ (Plus(toStub') <=> Plus(toStub))
  <2> HIDE DEF n
  <2> QED
    BY <1>1, <1>2, <1>3, <1>15, StubLinePacket
<1>6. GdbLine(toGdb, n + 1, outBuf.text) /\ NoneOf(toGdb, n + 1)
  BY <1>1, <1>15, NextCommandsLine
<1>7. Busy \/ at = "hunt"
  BY <1>1 DEF GdbInv, Told, Acknowledged
<1>8. ~Busy => ~Plus(toStub)
  BY DEF GdbInv, Acknowledged
<1>9. Types'
  BY <1>1, <1>4, <1>5 DEF GdbInv, Types, stubVars
<1>10. Lines'
  BY <1>1, <1>4, <1>5, <1>6, <1>7 DEF GdbInv, Lines, stubVars, Busy
<1>11. Told'
  BY <1>4 DEF Told
<1>12. Acknowledged'
  BY <1>1, <1>4, <1>5 DEF GdbInv, Acknowledged, stubVars, Busy
<1>13. Asked'
  BY <1>1, <1>4, <1>6, <1>15 DEF Asked, stubVars, Busy
<1>14. Answered'
  BY <1>1, <1>4, <1>5, <1>7 DEF GdbInv, Answered, stubVars, Busy
<1> QED
  BY <1>9, <1>10, <1>11, <1>12, <1>13, <1>14 DEF GdbInv

(* It reads what does not change what it waits for, or its patience ends.  *)
LEMMA GdbInvAgain ==
  ASSUME GdbInv, GdbAskAgain \/ GdbIgnores \/ GdbTimeout \/ GdbAcked
  PROVE  GdbInv'
<1> DEFINE n == gdb.n
           x == Head(toGdb)
<1>1. /\ toStub \in Seq(Chars) /\ toGdb \in Seq(Replies) /\ n \in Nat /\ StubLine(toStub, n)
      /\ GdbLine(toGdb, n, outBuf.text) /\ gdb \in Debuggers /\ gdb.command \in Askable
      /\ UNCHANGED stubVars
  BY GdbAssumption DEF GdbInv, Types, Lines, Debuggers, GdbAskAgain, GdbIgnores, GdbTimeout, GdbAcked
<1>2. /\ toStub' \in Seq(Chars) /\ StubLine(toStub', n) /\ (Plus(toStub') <=> Plus(toStub))
      /\ toStub' = toStub \/ gdb.waits # "nothing"
  <2>1. CASE GdbAskAgain
    <3>1. toStub' = toStub \o Packet(n, gdb.command) /\ gdb.waits # "nothing"
      BY <2>1 DEF GdbAskAgain
    <3> QED
      BY <3>1, <1>1, StubLinePacket
  <2>2. CASE GdbTimeout
    <3>1. toStub' = toStub \o Packet(n, gdb.command) \/ toStub' = Append(toStub, Char("-"))
      <4>1. toStub = <<>> /\ Packet(n, gdb.command) \in Seq(Chars) /\ Char("-") \in Chars
        BY <2>2, <1>1, PacketIs DEF GdbTimeout, Stuck, Char, Chars
      <4>2. toStub' = Packet(n, gdb.command) \/ toStub' = <<Char("-")>>
        BY <2>2 DEF GdbTimeout
      <4> QED
        BY <4>1, <4>2
    <3>2. gdb.waits # "nothing"
      BY <2>2 DEF GdbTimeout, Stuck
    <3> QED
      BY <1>1, <3>1, <3>2, StubLinePacket, StubLineAck
  <2>3. CASE GdbIgnores \/ GdbAcked
    BY <2>3, <1>1 DEF GdbIgnores, GdbAcked
  <2> QED
    BY <2>1, <2>2, <2>3
<1>3. /\ toGdb' \in Seq(Replies) /\ GdbLine(toGdb', n, outBuf.text)
      /\ \A m : AllOf(toGdb, m) => AllOf(toGdb', m)
      /\ NoneOf(toGdb, n) => NoneOf(toGdb', n)
      /\ gdb.waits = "answer" \/ GdbAcked =>
           \A i \in 1 .. Len(toGdb') : toGdb'[i].is = "packet" => toGdb'[i].n = n
      /\ GdbAcked => \A m : ~AllOf(toGdb, m)
  <2>1. CASE GdbTimeout
    <3>1. toGdb' = toGdb /\ ~GdbAcked
      BY <2>1 DEF GdbTimeout, Stuck, GdbAcked, GdbRead
    <3> QED
      BY <1>1, <3>1 DEF GdbInv, Answered
  <2>2. CASE GdbAskAgain \/ GdbIgnores \/ GdbAcked
    <3>1. toGdb # <<>> /\ toGdb' = Tail(toGdb) /\ (GdbAcked => x.is = "+")
      BY <2>2 DEF GdbAskAgain, GdbIgnores, GdbAcked, GdbRead
    <3>2. /\ toGdb' \in Seq(Replies) /\ GdbLine(toGdb', n, outBuf.text)
          /\ \A m : AllOf(toGdb, m) => AllOf(toGdb', m) /\ IsPacket(x, m)
          /\ NoneOf(toGdb, n) => NoneOf(toGdb', n)
          /\ x.is = "+" => \A i \in 1 .. Len(toGdb') : toGdb'[i].is = "packet" => toGdb'[i].n = n
          /\ (\A i \in 1 .. Len(toGdb) : toGdb[i].is = "packet" => toGdb[i].n = n) =>
               \A i \in 1 .. Len(toGdb') : toGdb'[i].is = "packet" => toGdb'[i].n = n
      BY <1>1, <3>1, GdbLineRead
    <3> HIDE DEF x
    <3>3. x.is = "+" => \A m : ~AllOf(toGdb, m)
      BY <3>2 DEF IsPacket
    <3> QED
      BY <3>1, <3>2, <3>3 DEF GdbInv, Answered
  <2> QED
    BY <2>1, <2>2
<1>4. /\ gdb' \in Debuggers /\ gdb'.command = gdb.command /\ gdb'.n = n /\ gdb'.told = gdb.told
      /\ gdb'.answer = gdb.answer
      /\ gdb' = gdb \/ (gdb.waits = "ack" /\ gdb'.waits = "answer" /\ ~Plus(toStub) /\ GdbAcked)
  <2>1. CASE GdbAcked
    <3>1. gdb' = [gdb EXCEPT !.waits = "answer"] /\ gdb.waits = "ack"
      BY <2>1 DEF GdbAcked
    <3>2. ~Plus(toStub)
      BY <2>1, <1>3 DEF GdbInv, Acknowledged
    <3> QED
      BY <1>1, <2>1, <3>1, <3>2 DEF Debuggers
  <2>2. CASE GdbAskAgain \/ GdbIgnores \/ GdbTimeout
    BY <1>1, <2>2 DEF GdbAskAgain, GdbIgnores, GdbTimeout
  <2> QED
    BY <2>1, <2>2
<1>9. Types'
  BY <1>1, <1>2, <1>3, <1>4 DEF GdbInv, Types, stubVars
<1>10. Lines'
  BY <1>1, <1>2, <1>3, <1>4 DEF GdbInv, Lines, stubVars, Busy
<1>11. Told'
  BY <1>1, <1>2, <1>3, <1>4 DEF GdbInv, Told, stubVars, IsTrue
<1>12. Acknowledged'
  BY <1>1, <1>2, <1>3, <1>4 DEF GdbInv, Acknowledged, stubVars, Busy
<1>13. Asked'
  BY <1>1, <1>3, <1>4 DEF GdbInv, Asked, stubVars, Busy
<1>14. Answered'
  BY <1>1, <1>2, <1>3, <1>4 DEF GdbInv, Answered, stubVars, Busy, IsTrue
<1> QED
  BY <1>9, <1>10, <1>11, <1>12, <1>13, <1>14 DEF GdbInv

(* It takes the answer, or asks for it again.                              *)
LEMMA GdbInvAnswered ==
  ASSUME GdbInv, GdbAnswered
  PROVE  GdbInv'
<1> DEFINE n == gdb.n
           x == Head(toGdb)
<1>1. /\ toStub \in Seq(Chars) /\ toGdb \in Seq(Replies) /\ n \in Nat /\ StubLine(toStub, n)
      /\ GdbLine(toGdb, n, outBuf.text) /\ gdb \in Debuggers
      /\ toGdb # <<>> /\ toGdb' = Tail(toGdb) /\ x.is = "packet" /\ gdb.waits = "answer"
      /\ UNCHANGED stubVars
  BY GdbAssumption DEF GdbInv, Types, Lines, Debuggers, GdbAnswered, GdbRead
<1>2. ~Plus(toStub)
  BY <1>1 DEF GdbInv, Acknowledged
<1>3. /\ toGdb' \in Seq(Replies) /\ GdbLine(toGdb', n, outBuf.text)
      /\ \A i \in 1 .. Len(toGdb') : toGdb'[i].is = "packet" => toGdb'[i].n = n
      /\ x.n = n /\ x \in Replies
      /\ IsPacket(x, n) => AllOf(toGdb', n) /\ x.text = outBuf.text /\ ~NoneOf(toGdb, n)
  BY <1>1, GdbLineRead DEF GdbInv, Answered
<1>4. AllOf(toGdb', n) /\ x.text = outBuf.text /\ ~NoneOf(toGdb, n) /\ x.text \in Texts
  BY <1>1, <1>3 DEF IsPacket, Replies
<1>5. Busy /\ outBuf.n = n /\ executed = n /\ IsTrue(outBuf.text)
  BY <1>1, <1>2, <1>4 DEF GdbInv, Asked, Answered
<1>6. /\ toStub' \in Seq(Chars) /\ StubLine(toStub', n)
      /\ \/ /\ Plus(toStub') /\ Ended(toStub')
            /\ gdb' = [gdb EXCEPT !.waits = "nothing", !.answer = x.text, !.told = n]
         \/ ~Plus(toStub') /\ gdb' = gdb
  <2>1. CASE x.good
    <3>1. /\ toStub' = Append(toStub, Char("+"))
          /\ gdb' = [gdb EXCEPT !.waits = "nothing", !.answer = x.text, !.told = n]
      BY <2>1, <1>3 DEF GdbAnswered
    <3> QED
      BY <1>1, <1>2, <3>1, StubLineAck
  <2>2. CASE ~x.good
    <3>1. toStub' = Append(toStub, Char("-")) /\ gdb' = gdb
      BY <2>2 DEF GdbAnswered
    <3> QED
      BY <1>1, <1>2, <3>1, StubLineAck
  <2> QED
    BY <2>1, <2>2
<1> HIDE DEF x
<1>7. CASE ~Plus(toStub') /\ gdb' = gdb
  <2>1. Types' /\ Lines'
    BY <1>1, <1>3, <1>6, <1>7 DEF GdbInv, Types, Lines, stubVars, Busy
  <2>2. Told' /\ Acknowledged' /\ Answered'
    BY <1>1, <1>3, <1>5, <1>7 DEF Told, Acknowledged, Answered, stubVars, Busy, IsTrue
  <2>3. Asked'
    BY <1>1, <1>5, <1>7 DEF GdbInv, Asked, stubVars, Busy
  <2> QED
    BY <2>1, <2>2, <2>3 DEF GdbInv
<1>8. CASE /\ Plus(toStub') /\ Ended(toStub')
           /\ gdb' = [gdb EXCEPT !.waits = "nothing", !.answer = x.text, !.told = n]
  <2>1. /\ gdb' \in Debuggers /\ gdb'.waits = "nothing" /\ gdb'.answer = outBuf.text /\ gdb'.told = n
        /\ gdb'.n = n /\ gdb'.command = gdb.command
    BY <1>1, <1>4, <1>8 DEF Debuggers
  <2>2. Types' /\ Lines'
    BY <1>1, <1>3, <1>6, <2>1 DEF GdbInv, Types, Lines, stubVars, Busy
  <2>3. Told'
    BY <1>1, <1>4, <1>5, <1>8, <2>1 DEF Told, stubVars, IsTrue
  <2>4. Acknowledged' /\ Asked' /\ Answered'
    BY <1>1, <1>4, <1>5, <1>8, <2>1 DEF Acknowledged, Asked, Answered, stubVars, Busy
  <2> QED
    BY <2>2, <2>3, <2>4 DEF GdbInv
<1> QED
  BY <1>6, <1>7, <1>8

(* The link.                                                                *)
LEMMA GdbInvDamage ==
  ASSUME GdbInv, DamagePacket \/ DamageAnswer
  PROVE  GdbInv'
<1> DEFINE n == gdb.n
<1>1. /\ toStub \in Seq(Chars) /\ toGdb \in Seq(Replies) /\ n \in Nat /\ StubLine(toStub, n)
      /\ GdbLine(toGdb, n, outBuf.text) /\ gdb \in Debuggers
      /\ UNCHANGED << stubVars, gdb >>
  BY GdbAssumption DEF GdbInv, Types, Lines, Debuggers, DamagePacket, DamageAnswer
<1>2. /\ toStub' \in Seq(Chars) /\ StubLine(toStub', n)
      /\ Plus(toStub') <=> Plus(toStub)
      /\ Ended(toStub) => Ended(toStub')
  <2>1. CASE DamagePacket
    <3>1. PICK i \in DOMAIN toStub :
            /\ toStub[i].is \notin {"+", "-"}
            /\ \/ toStub' = RemoveAt(toStub, i)
               \/ \E is \in {"x", "$", "#"} : toStub' = [toStub EXCEPT ![i] = Char(is)]
      BY <2>1 DEF DamagePacket
    <3>2. i \in 1 .. Len(toStub)
      BY <1>1
    <3>3. PICK is \in {"x", "$", "#"} : toStub' \in {RemoveAt(toStub, i), [toStub EXCEPT ![i] = Char(is)]}
      BY <3>1
    <3> QED
      BY <1>1, <3>1, <3>2, <3>3, StubLineDamaged
  <2>2. CASE DamageAnswer
    BY <2>2, <1>1 DEF DamageAnswer
  <2> QED
    BY <2>1, <2>2
<1>3. /\ toGdb' \in Seq(Replies) /\ GdbLine(toGdb', n, outBuf.text)
      /\ \A m : AllOf(toGdb, m) => AllOf(toGdb', m)
      /\ NoneOf(toGdb, n) => NoneOf(toGdb', n)
      /\ (\A i \in 1 .. Len(toGdb) : toGdb[i].is = "packet" => toGdb[i].n = n) =>
           \A i \in 1 .. Len(toGdb') : toGdb'[i].is = "packet" => toGdb'[i].n = n
  <2>1. CASE DamageAnswer
    <3>1. PICK i \in DOMAIN toGdb : toGdb' \in {RemoveAt(toGdb, i), [toGdb EXCEPT ![i].good = FALSE]}
      BY <2>1 DEF DamageAnswer
    <3>2. i \in 1 .. Len(toGdb)
      BY <1>1
    <3> DEFINE s == toGdb
               t == toGdb'
               text == outBuf.text
    <3>3. s \in Seq(Replies) /\ i \in 1 .. Len(s) /\ GdbLine(s, n, text)
          /\ t \in {RemoveAt(s, i), [s EXCEPT ![i].good = FALSE]}
      BY <1>1, <3>1, <3>2
    <3> HIDE DEF n, s, t, text
    <3>4. /\ t \in Seq(Replies) /\ GdbLine(t, n, text)
          /\ \A m : AllOf(s, m) => AllOf(t, m)
          /\ NoneOf(s, n) => NoneOf(t, n)
          /\ (\A j \in 1 .. Len(s) : s[j].is = "packet" => s[j].n = n) =>
               \A j \in 1 .. Len(t) : t[j].is = "packet" => t[j].n = n
      BY <3>3, GdbLineDamaged
    <3> QED
      BY <3>4, Zenon DEF s, t, text
  <2>2. CASE DamagePacket
    BY <2>2, <1>1 DEF DamagePacket
  <2> QED
    BY <2>1, <2>2
<1>4. Types' /\ Lines'
  BY <1>1, <1>2, <1>3 DEF GdbInv, Types, Lines, stubVars, Busy
<1>5. Told' /\ Acknowledged'
  BY <1>1, <1>2, <1>3 DEF GdbInv, Told, Acknowledged, stubVars, Busy, IsTrue
<1>6. Asked' /\ Answered'
  BY <1>1, <1>2, <1>3 DEF GdbInv, Asked, Answered, stubVars, Busy, IsTrue
<1> QED
  BY <1>4, <1>5, <1>6 DEF GdbInv

LEMMA GdbInvNext == GdbInv /\ [Next]_vars => GdbInv'
<1> SUFFICES ASSUME GdbInv, [Next]_vars
             PROVE  GdbInv'
  OBVIOUS
<1>1. CASE Stub
  BY <1>1, GdbInvReceive, GdbInvCheckSum, GdbInvExecute, GdbInvSend, GdbInvAwait DEF Stub
<1>2. CASE Gdb
  BY <1>2, GdbInvAsk, GdbInvAgain, GdbInvAnswered DEF Gdb
<1>3. CASE DamagePacket \/ DamageAnswer
  BY <1>3, GdbInvDamage
<1>4. CASE UNCHANGED vars
  BY <1>4 DEF GdbInv, Types, Lines, Told, Acknowledged, Asked, Answered, Busy, IsTrue, vars, stubVars
<1> QED
  BY <1>1, <1>2, <1>3, <1>4 DEF Next

(* Where the bytes of a command and of its answer are while the stub and    *)
(* the debugger take turns, whatever the line does to them.                 *)
THEOREM GdbInvAlways == Spec => []GdbInv
BY GdbInvInit, GdbInvNext, PTL DEF Spec

(* Numbers, buffer and target stay in their types; the buffer never fills   *)
(* (ReceivePacket()).                                                       *)
THEOREM GdbStubTypeCorrect == Spec => []TypeOK
<1>1. GdbInv => TypeOK
  BY DEF GdbInv, Types, TypeOK, Debuggers, Targets
<1> QED
  BY <1>1, GdbInvAlways, PTL

(* Every answer the debugger takes is true of the target, also when the     *)
(* link has cut or changed the command (ProcessGdbCommand()).               *)
THEOREM AnswersTrue == Spec => []AnswersAreTrue
<1>1. GdbInv => AnswersAreTrue
  BY DEF GdbInv, Told, IsTrue, AnswersAreTrue
<1> QED
  BY <1>1, GdbInvAlways, PTL

(* What the stub is about to execute is of the command the debugger waits   *)
(* for, though copies of earlier ones may have been on the line             *)
(* (ReceivePacket(), SendPacket()).                                         *)
CommandIsCurrent ==
  at = "command" =>
    /\ gdb.waits # "nothing" /\ gdb.told = gdb.n - 1
    /\ \A i \in 1 .. Len(inBuf) : inBuf[i].is = "c" => inBuf[i].n = gdb.n

(* So it never executes a command twice on the strength of an old copy      *)
(* (ReceivePacket(), SendPacket()).                                         *)
THEOREM CommandsCurrent == Spec => []CommandIsCurrent
<1>1. GdbInv => CommandIsCurrent
  BY DEF GdbInv, Lines, Told, Acknowledged, Asked, CommandIsCurrent, Busy
<1> QED
  BY <1>1, GdbInvAlways, PTL

(* The link keeps the promise of a channel that loses and doubles nothing:  *)
(* each command is done in the order asked, once, or as often as it comes   *)
(* if it is an s or c, and each answer is taken once (gdblink.cc).          *)
THEOREM DebugChannelImplemented == Spec => ImplementsDebugChannel
<1>1. Init => channel!ChannelInit
  <2> SUFFICES ASSUME Init
               PROVE  gdb.n = 0 /\ executed = 0 /\ gdb.told = 0
    BY DEF channel!ChannelInit
  <2> QED
    BY DEF Init
<1>2. GdbInv /\ [Next]_vars => [channel!ChannelNext]_(channel!channelVars)
  <2> SUFFICES ASSUME GdbInv, [Next]_vars
               PROVE  channel!ChannelNext \/ UNCHANGED << gdb.n, executed, gdb.told >>
    BY DEF channel!channelVars
  <2>1. GdbInv'
    BY GdbInvNext
  <2>2. /\ gdb.n \in Nat /\ executed \in Nat /\ gdb.told \in Nat /\ gdb \in Debuggers
        /\ executed' \in Nat /\ gdb'.told \in Nat
    BY <2>1, GdbAssumption DEF GdbInv, Types, Debuggers
  <2>3. CASE GdbAsk
    <3>1. gdb.told = gdb.n /\ UNCHANGED executed
      BY <2>3 DEF GdbAsk, GdbInv, Told, stubVars
    <3>2. gdb'.n = gdb.n + 1 /\ gdb'.told = gdb.told
      BY <2>2, <2>3 DEF GdbAsk, Debuggers
    <3> QED
      BY <3>1, <3>2 DEF channel!ChannelNext, channel!Ask
  <2>4. CASE ExecuteCommand
    <3>1. ~Plus(toStub) /\ ~Busy /\ at # "hunt"
      BY <2>4 DEF GdbInv, Acknowledged, ExecuteCommand, Busy
    <3>2. gdb.waits # "nothing"
      BY <3>1 DEF GdbInv, Told
    <3>3. /\ executed \in {gdb.n - 1, gdb.n}
          /\ executed = gdb.n => gdb.command.op \in {"s", "c"}
      BY <3>1, <3>2 DEF GdbInv, Asked
    <3>4. executed' = gdb.n /\ gdb' = gdb
      BY <2>2, <2>4, <3>3 DEF ExecuteCommand
    <3> QED
      BY <2>2, <3>3, <3>4 DEF channel!ChannelNext, channel!Do
  <2>5. CASE GdbAnswered
    <3>1. gdb.waits = "answer" /\ UNCHANGED executed
      BY <2>5 DEF GdbAnswered, stubVars
    <3>2. gdb' = gdb \/ (gdb'.waits = "nothing" /\ gdb'.n = gdb.n)
      BY <2>2, <2>5 DEF GdbAnswered, Debuggers
    <3>3. gdb'.waits = "nothing" => gdb'.told = gdb'.n /\ executed' = gdb'.n
      BY <2>1 DEF GdbInv, Told
    <3>4. gdb.told = gdb.n - 1
      BY <3>1 DEF GdbInv, Asked
    <3> QED
      BY <2>2, <3>1, <3>2, <3>3, <3>4 DEF channel!ChannelNext, channel!Tell
  <2>6. CASE GdbAcked
    BY <2>2, <2>6 DEF GdbAcked, stubVars, Debuggers
  <2>7. CASE \/ Hunt \/ ReadBody \/ StartOver \/ Overflow \/ EndBody \/ CheckSum \/ Send \/ AwaitAck
             \/ GdbAskAgain \/ GdbIgnores \/ GdbTimeout \/ DamagePacket \/ DamageAnswer
             \/ UNCHANGED vars
    BY <2>7 DEF Hunt, ReadBody, StartOver, Overflow, EndBody, CheckSum, Send, AwaitAck, Quiet,
                GdbAskAgain, GdbIgnores, GdbTimeout, DamagePacket, DamageAnswer, vars, stubVars
  <2> QED
    BY <2>3, <2>4, <2>5, <2>6, <2>7 DEF Next, Stub, Gdb
<1> QED
  BY <1>1, <1>2, GdbInvAlways, PTL DEF Spec, ImplementsDebugChannel, channel!ChannelSpec

----------------------------------------------------------------------------
(* A link that does no damage.                                              *)

Long == gdb.command.length >= InBufSize

(* The i-th character of a packet.                                          *)
CharOf(n, c, i) ==
  IF i = 1 THEN Char("$")
  ELSE IF i < c.length + 2 THEN [is |-> "c", n |-> n, i |-> i - 1]
  ELSE IF i = c.length + 2 THEN Char("#") ELSE CheckSumOf(n, c)

(* s is the packet without its first k characters, b the first k of its     *)
(* body.                                                                    *)
Coming(s, n, c, k) ==
  /\ Len(s) = c.length + 3 - k
  /\ \A i \in 1 .. Len(s) : s[i] = CharOf(n, c, i + k)

Gathered(b, n, k) == Len(b) = k /\ \A i \in 1 .. k : b[i] = [is |-> "c", n |-> n, i |-> i]

Unasked ==
  /\ gdb.waits = "nothing" /\ toGdb = <<>>
  /\ \/ at = "hunt" /\ toStub = <<>>
     \/ at = "await" /\ toStub = <<Char("+")>>

Arriving ==
  /\ gdb.waits = "ack" /\ toGdb = <<>>
  /\ \/ /\ at = "await" /\ toStub # <<>> /\ Head(toStub).is = "+"
        /\ Coming(Tail(toStub), gdb.n, gdb.command, 0)
     \/ at = "hunt" /\ Coming(toStub, gdb.n, gdb.command, 0)
     \/ /\ at = "body" /\ Len(inBuf) =< gdb.command.length
        /\ Gathered(inBuf, gdb.n, Len(inBuf))
        /\ Coming(toStub, gdb.n, gdb.command, Len(inBuf) + 1)
     \/ /\ at = "sum" /\ Gathered(inBuf, gdb.n, gdb.command.length)
        /\ Coming(toStub, gdb.n, gdb.command, gdb.command.length + 2)

(* The acknowledgement that the debugger has not read.                      *)
Acks == IF gdb.waits = "ack" THEN <<Ack>> ELSE <<>>

Arrived ==
  /\ gdb.waits \in {"ack", "answer"} /\ toStub = <<>>
  /\ \/ at = "command" /\ toGdb = Acks /\ Gathered(inBuf, gdb.n, gdb.command.length)
     \/ at = "send" /\ toGdb = Acks /\ outBuf.is = "packet" /\ outBuf.good
     \/ at = "await" /\ toGdb = Append(Acks, outBuf) /\ outBuf.is = "packet" /\ outBuf.good
     \/ /\ at = "hunt" /\ toGdb = Acks
        /\ gdb.command.op \in {"s", "c"} /\ gdb.command.arg # "syntax"

(* A packet longer than the buffer is not acknowledged, however often it is *)
(* sent.                                                                    *)
Unheard ==
  /\ Long /\ gdb.waits = "ack"
  /\ \A i \in 1 .. Len(toGdb) : toGdb[i].is # "+"
  /\ \A i \in 1 .. Len(toStub) : toStub[i].is = "sum" => toStub[i].i = gdb.command.length

(* A command that fits the buffer is, with all that belongs to it, in one   *)
(* place at a time.                                                         *)
Undisturbed ==
  /\ faults \in Nat
  /\ faults = 0 => Unasked \/ (~Long /\ (Arriving \/ Arrived)) \/ Unheard

LEMMA CharsConcat ==
  ASSUME NEW s \in Seq(Chars), NEW t \in Seq(Chars)
  PROVE  /\ Len(s) \in Nat /\ Len(t) \in Nat
         /\ Len(s \o t) = Len(s) + Len(t) /\ s \o t \in Seq(Chars)
         /\ \A i \in 1 .. Len(s) : (s \o t)[i] = s[i]
         /\ \A i \in 1 .. Len(t) : (s \o t)[Len(s) + i] = t[i]
<1> HIDE DEF Chars
<1> QED
  BY ConcatIs

LEMMA PacketComing ==
  ASSUME NEW n \in Nat, NEW c \in Askable
  PROVE  Packet(n, c) \in Seq(Chars) /\ Coming(Packet(n, c), n, c, 0)
<1> DEFINE a == <<Char("$")>>
           b == Body(n, c.length)
           e == <<Char("#"), CheckSumOf(n, c)>>
           l == c.length
<1>1. l \in Nat \ {0}
  BY DEF Askable
<1>2. a \in Seq(Chars) /\ Len(a) = 1 /\ a[1] = Char("$")
  BY DEF Char, Chars
<1>3. /\ b \in Seq(Chars) /\ Len(b) = l
      /\ \A i \in 1 .. l : b[i] = [is |-> "c", n |-> n, i |-> i]
  <2>1. b \in [1 .. l -> Chars] /\ \A i \in 1 .. l : b[i] = [is |-> "c", n |-> n, i |-> i]
    BY <1>1 DEF Body, Chars
  <2> HIDE DEF b
  <2> QED
    BY <1>1, <2>1
<1>4. e \in Seq(Chars) /\ Len(e) = 2 /\ e[1] = Char("#") /\ e[2] = CheckSumOf(n, c)
  BY <1>1 DEF Char, CheckSumOf, Chars
<1>5. Packet(n, c) = (a \o b) \o e
  BY DEF Packet
<1> HIDE DEF a, b, e
<1>6. /\ Len(a \o b) = l + 1 /\ a \o b \in Seq(Chars)
      /\ (a \o b)[1] = Char("$")
      /\ \A i \in 2 .. l + 1 : (a \o b)[i] = [is |-> "c", n |-> n, i |-> i - 1]
  <2>1. /\ Len(a \o b) = Len(a) + Len(b) /\ a \o b \in Seq(Chars)
        /\ \A i \in 1 .. Len(a) : (a \o b)[i] = a[i]
        /\ \A i \in 1 .. Len(b) : (a \o b)[Len(a) + i] = b[i]
    BY <1>2, <1>3, CharsConcat
  <2>2. ASSUME NEW i \in 2 .. l + 1 PROVE (a \o b)[i] = [is |-> "c", n |-> n, i |-> i - 1]
    <3>1. i - 1 \in 1 .. Len(b) /\ Len(a) + (i - 1) = i
      BY <1>1, <1>2, <1>3
    <3>2. (a \o b)[Len(a) + (i - 1)] = b[i - 1]
      BY <2>1, <3>1
    <3> QED
      BY <1>3, <3>1, <3>2
  <2>3. 1 \in 1 .. Len(a) /\ l + 1 = 1 + l
    BY <1>1, <1>2
  <2> QED
    BY <1>2, <1>3, <2>1, <2>2, <2>3
<1>7. /\ Len((a \o b) \o e) = l + 3 /\ (a \o b) \o e \in Seq(Chars)
      /\ \A i \in 1 .. l + 1 : ((a \o b) \o e)[i] = (a \o b)[i]
      /\ ((a \o b) \o e)[l + 2] = Char("#") /\ ((a \o b) \o e)[l + 3] = CheckSumOf(n, c)
  <2> DEFINE d == a \o b
  <2>0. d \in Seq(Chars) /\ Len(d) = l + 1
    BY <1>6
  <2> HIDE DEF d
  <2>1. /\ Len(d \o e) = Len(d) + Len(e) /\ d \o e \in Seq(Chars)
        /\ \A i \in 1 .. Len(d) : (d \o e)[i] = d[i]
        /\ \A i \in 1 .. Len(e) : (d \o e)[Len(d) + i] = e[i]
    BY <2>0, <1>4, CharsConcat
  <2>2. (d \o e)[(l + 1) + 1] = e[1] /\ (d \o e)[(l + 1) + 2] = e[2]
    BY <2>0, <2>1, <1>4
  <2>3. (l + 1) + 1 = l + 2 /\ (l + 1) + 2 = l + 3
    BY <1>1
  <2> DEFINE f == d \o e
  <2>4. f[l + 2] = Char("#") /\ f[l + 3] = CheckSumOf(n, c)
    BY <2>2, <2>3, <1>4
  <2>5. Len(f) = l + 3 /\ f \in Seq(Chars) /\ \A i \in 1 .. l + 1 : f[i] = d[i]
    BY <2>0, <2>1, <2>3, <1>1, <1>4
  <2> HIDE DEF f
  <2>6. /\ Len(f) = l + 3 /\ f \in Seq(Chars) /\ \A i \in 1 .. l + 1 : f[i] = d[i]
        /\ f[l + 2] = Char("#") /\ f[l + 3] = CheckSumOf(n, c)
    BY <2>4, <2>5
  <2> QED
    BY <2>6, Zenon DEF d, f
<1> DEFINE p == (a \o b) \o e
<1> HIDE DEF p
<1>8. /\ Len(p) = l + 3 /\ p \in Seq(Chars) /\ p[1] = Char("$")
      /\ \A i \in 2 .. l + 1 : p[i] = [is |-> "c", n |-> n, i |-> i - 1]
      /\ p[l + 2] = Char("#") /\ p[l + 3] = CheckSumOf(n, c)
  <2>1. 1 \in 1 .. l + 1 /\ \A i \in 2 .. l + 1 : i \in 1 .. l + 1
    BY <1>1
  <2> QED
    <3> DEFINE d == a \o b
    <3>1. /\ Len(p) = l + 3 /\ p \in Seq(Chars) /\ \A i \in 1 .. l + 1 : p[i] = d[i]
          /\ p[l + 2] = Char("#") /\ p[l + 3] = CheckSumOf(n, c)
      BY <1>7, Zenon DEF p
    <3>2. d[1] = Char("$") /\ \A i \in 2 .. l + 1 : d[i] = [is |-> "c", n |-> n, i |-> i - 1]
      BY <1>6
    <3> HIDE DEF d
    <3> QED
      BY <2>1, <3>1, <3>2
<1>9. ASSUME NEW i \in 1 .. l + 3 PROVE p[i] = CharOf(n, c, i)
  <2>1. i = 1 \/ i \in 2 .. l + 1 \/ i = l + 2 \/ i = l + 3
    BY <1>1
  <2>2. CASE i = 1
    BY <1>8, <2>2 DEF CharOf
  <2>3. CASE i \in 2 .. l + 1
    <3>1. i # 1 /\ i < c.length + 2
      BY <1>1, <2>3
    <3> QED
      BY <1>8, <2>3, <3>1 DEF CharOf
  <2>4. CASE i = l + 2
    <3>1. i # 1 /\ ~(i < c.length + 2) /\ i = c.length + 2
      BY <1>1, <2>4
    <3> QED
      BY <1>8, <2>4, <3>1 DEF CharOf
  <2>5. CASE i = l + 3
    <3>1. i # 1 /\ ~(i < c.length + 2) /\ i # c.length + 2
      BY <1>1, <2>5
    <3> QED
      BY <1>8, <2>5, <3>1 DEF CharOf
  <2> QED
    BY <2>1, <2>2, <2>3, <2>4, <2>5
<1>10. Packet(n, c) = p
  BY <1>5 DEF p
<1> QED
  BY <1>1, <1>8, <1>9, <1>10 DEF Coming

LEMMA ComingRead ==
  ASSUME NEW s \in Seq(Chars), NEW n \in Nat, NEW c \in Askable, NEW k \in 0 .. c.length + 2,
         Coming(s, n, c, k)
  PROVE  /\ s # <<>> /\ Head(s) = CharOf(n, c, k + 1)
         /\ Tail(s) \in Seq(Chars) /\ Coming(Tail(s), n, c, k + 1)
<1>1. c.length \in Nat /\ Len(s) = c.length + 3 - k /\ k \in Nat
  BY DEF Askable, Coming
<1>2. s # <<>>
  BY <1>1, EmptySeq
<1>3. /\ Len(Tail(s)) = Len(s) - 1 /\ Tail(s) \in Seq(Chars) /\ Head(s) = s[1]
      /\ \A i \in 1 .. Len(Tail(s)) : Tail(s)[i] = s[i + 1]
  BY <1>2, TailIs
<1>4. ASSUME NEW i \in 1 .. Len(s) - 1
      PROVE  s[i + 1] = CharOf(n, c, i + (k + 1))
  <2>1. i + 1 \in 1 .. Len(s) /\ (i + 1) + k = i + (k + 1)
    BY <1>1
  <2>2. s[i + 1] = CharOf(n, c, (i + 1) + k)
    BY <2>1 DEF Coming
  <2> QED
    BY <2>1, <2>2
<1>5. s[1] = CharOf(n, c, k + 1)
  <2>1. 1 \in 1 .. Len(s) /\ 1 + k = k + 1
    BY <1>1
  <2>2. s[1] = CharOf(n, c, 1 + k)
    BY <2>1 DEF Coming
  <2> QED
    BY <2>1, <2>2
<1> QED
  BY <1>1, <1>2, <1>3, <1>4, <1>5 DEF Coming

(* The characters of a packet, one by one.                                  *)
LEMMA CharsOf ==
  ASSUME NEW n \in Nat, NEW c \in Askable
  PROVE  /\ CharOf(n, c, 1).is = "$" /\ CharOf(n, c, c.length + 2).is = "#"
         /\ CharOf(n, c, c.length + 3) = CheckSumOf(n, c)
         /\ \A k \in 0 .. c.length - 1 : CharOf(n, c, k + 2) = [is |-> "c", n |-> n, i |-> k + 1]
<1>1. c.length \in Nat \ {0}
  BY DEF Askable
<1>2. CharOf(n, c, 1) = Char("$")
  BY DEF CharOf
<1>3. CharOf(n, c, c.length + 2) = Char("#") /\ CharOf(n, c, c.length + 3) = CheckSumOf(n, c)
  BY <1>1 DEF CharOf
<1>4. ASSUME NEW k \in 0 .. c.length - 1
      PROVE  CharOf(n, c, k + 2) = [is |-> "c", n |-> n, i |-> k + 1]
  <2>1. k + 2 # 1 /\ k + 2 < c.length + 2 /\ (k + 2) - 1 = k + 1
    BY <1>1
  <2> QED
    BY <2>1 DEF CharOf
<1> QED
  BY <1>2, <1>3, <1>4 DEF Char

LEMMA GatheredMore ==
  ASSUME NEW b \in Seq(Chars), NEW n \in Nat, NEW k \in Nat, Gathered(b, n, k)
  PROVE  Gathered(Append(b, [is |-> "c", n |-> n, i |-> k + 1]), n, k + 1)
<1> DEFINE x == [is |-> "c", n |-> n, i |-> k + 1]
<1>1. x \in Chars
  BY DEF Chars
<1> HIDE DEF x
<1>2. /\ Len(Append(b, x)) = Len(b) + 1 /\ \A i \in 1 .. Len(b) : Append(b, x)[i] = b[i]
      /\ Append(b, x)[Len(b) + 1] = x
  BY <1>1, AppendIs
<1>3. \A i \in 1 .. k + 1 : i \in 1 .. k \/ i = k + 1
  OBVIOUS
<1> QED
  BY <1>2, <1>3 DEF Gathered, x

LEMMA GatheredBody ==
  ASSUME NEW b \in Seq(Chars), NEW n \in Nat, NEW l \in Nat
  PROVE  Gathered(b, n, l) <=> b = Body(n, l)
<1> DEFINE d == Body(n, l)
<1>1. d \in [1 .. l -> Chars] /\ \A i \in 1 .. l : d[i] = [is |-> "c", n |-> n, i |-> i]
  <2>1. \A i \in 1 .. l : [is |-> "c", n |-> n, i |-> i] \in Chars
    BY DEF Chars
  <2> QED
    BY <2>1 DEF Body
<1> HIDE DEF d
<1>2. d \in Seq(Chars) /\ Len(d) = l
  BY <1>1
<1>3. ASSUME Gathered(b, n, l) PROVE b = d
  <2>1. Len(b) = Len(d) /\ \A i \in 1 .. Len(b) : b[i] = d[i]
    BY <1>1, <1>2, <1>3 DEF Gathered
  <2> QED
    BY <2>1, <1>2, SeqEqual
<1> QED
  BY <1>1, <1>2, <1>3 DEF Gathered, d

(* Every checksum on the line is of a body of length l.                     *)
SumsOf(s, l) == \A i \in 1 .. Len(s) : s[i].is = "sum" => s[i].i = l

LEMMA SumsOfPacket ==
  ASSUME NEW n \in Nat, NEW c \in Askable
  PROVE  SumsOf(Packet(n, c), c.length)
<1>1. c.length \in Nat /\ Len(Packet(n, c)) = c.length + 3
  BY PacketComing DEF Coming, Askable
<1>2. ASSUME NEW i \in 1 .. c.length + 3, CharOf(n, c, i).is = "sum"
      PROVE  CharOf(n, c, i).i = c.length
  BY <1>1, <1>2 DEF CharOf, Char, CheckSumOf
<1>3. \A i \in 1 .. Len(Packet(n, c)) : Packet(n, c)[i] = CharOf(n, c, i)
  <2>1. \A i \in 1 .. Len(Packet(n, c)) : Packet(n, c)[i] = CharOf(n, c, i + 0)
    BY PacketComing DEF Coming
  <2>2. \A i \in 1 .. Len(Packet(n, c)) : i + 0 = i
    BY <1>1
  <2> QED
    BY <2>1, <2>2
<1> QED
  BY <1>1, <1>2, <1>3 DEF SumsOf

LEMMA SumsOfConcat ==
  ASSUME NEW s \in Seq(Chars), NEW t \in Seq(Chars), NEW l \in Nat, SumsOf(s, l), SumsOf(t, l)
  PROVE  SumsOf(s \o t, l) /\ s \o t \in Seq(Chars)
<1>1. /\ Len(s) \in Nat /\ Len(t) \in Nat
      /\ Len(s \o t) = Len(s) + Len(t) /\ s \o t \in Seq(Chars)
      /\ \A i \in 1 .. Len(s) : (s \o t)[i] = s[i]
      /\ \A i \in 1 .. Len(t) : (s \o t)[Len(s) + i] = t[i]
  BY CharsConcat
<1>2. ASSUME NEW i \in 1 .. Len(s \o t), (s \o t)[i].is = "sum"
      PROVE  (s \o t)[i].i = l
  <2>1. CASE i \in 1 .. Len(s)
    BY <1>1, <1>2, <2>1 DEF SumsOf
  <2>2. CASE i \notin 1 .. Len(s)
    <3>1. i - Len(s) \in 1 .. Len(t) /\ Len(s) + (i - Len(s)) = i
      BY <1>1, <2>2
    <3>2. (s \o t)[i] = t[i - Len(s)]
      BY <1>1, <3>1
    <3> QED
      BY <1>2, <3>1, <3>2 DEF SumsOf
  <2> QED
    BY <2>1, <2>2
<1> QED
  BY <1>1, <1>2 DEF SumsOf

LEMMA SumsOfTail ==
  ASSUME NEW s \in Seq(Chars), s # <<>>, NEW l, SumsOf(s, l)
  PROVE  SumsOf(Tail(s), l) /\ (Head(s).is = "sum" => Head(s).i = l)
<1>1. /\ Len(s) \in Nat \ {0} /\ Len(Tail(s)) = Len(s) - 1 /\ Head(s) = s[1]
      /\ \A i \in 1 .. Len(Tail(s)) : Tail(s)[i] = s[i + 1]
  BY TailIs
<1>2. 1 \in 1 .. Len(s) /\ \A i \in 1 .. Len(s) - 1 : i + 1 \in 1 .. Len(s)
  BY <1>1
<1> QED
  BY <1>1, <1>2 DEF SumsOf

(* A character that the packet follows.                                     *)
LEMMA AfterOne ==
  ASSUME NEW x \in Chars, NEW s \in Seq(Chars)
  PROVE  /\ <<x>> \o s # <<>> /\ Head(<<x>> \o s) = x /\ Tail(<<x>> \o s) = s
         /\ <<x>> \in Seq(Chars) /\ <<x>> \o s \in Seq(Chars)
<1> DEFINE o == <<x>>
           t == o \o s
<1>1. o \in Seq(Chars) /\ Len(o) = 1 /\ o[1] = x
  BY IsASeq
<1> HIDE DEF o
<1>2. /\ Len(s) \in Nat /\ Len(t) = 1 + Len(s) /\ t \in Seq(Chars) /\ t[1] = x
      /\ \A i \in 1 .. Len(s) : t[1 + i] = s[i]
  <2>1. /\ Len(s) \in Nat /\ Len(t) = Len(o) + Len(s) /\ t \in Seq(Chars)
        /\ \A i \in 1 .. Len(o) : t[i] = o[i]
        /\ \A i \in 1 .. Len(s) : t[Len(o) + i] = s[i]
    BY <1>1, CharsConcat
  <2> QED
    BY <1>1, <2>1
<1> HIDE DEF t
<1>3. t # <<>>
  BY <1>2, EmptySeq
<1>4. /\ Len(Tail(t)) = Len(t) - 1 /\ Tail(t) \in Seq(Chars) /\ Head(t) = t[1]
      /\ \A i \in 1 .. Len(Tail(t)) : Tail(t)[i] = t[i + 1]
  BY <1>2, <1>3, TailIs
<1>5. Len(Tail(t)) = Len(s) /\ \A i \in 1 .. Len(Tail(t)) : Tail(t)[i] = s[i]
  BY <1>2, <1>4
<1>6. Tail(t) = s
  BY <1>4, <1>5, SeqEqual
<1> QED
  BY <1>1, <1>2, <1>3, <1>4, <1>6 DEF t, o

(* What every step needs of the types.                                      *)
Shapes ==
  /\ toStub \in Seq(Chars) /\ toGdb \in Seq(Replies) /\ inBuf \in Seq(Chars) /\ Len(inBuf) < InBufSize
  /\ gdb.n \in Nat /\ gdb.command \in Askable /\ gdb.command.length \in Nat \ {0}
  /\ outBuf \in Replies /\ (Busy => outBuf.is = "packet") /\ gdb \in Debuggers
  /\ InBufSize \in Nat /\ target \in Targets

LEMMA ShapesHold == GdbInv => Shapes
<1> SUFFICES ASSUME GdbInv PROVE Shapes
  OBVIOUS
<1>1. gdb \in Debuggers /\ gdb.n \in 0 .. MaxCommands /\ gdb.command \in Askable
  BY DEF GdbInv, Types, Debuggers
<1>2. gdb.n \in Nat /\ gdb.command.length \in Nat \ {0}
  BY <1>1, GdbAssumption DEF Askable
<1> QED
  BY <1>1, <1>2, GdbAssumption DEF GdbInv, Types, Lines, Shapes

(* The debugger asks.                                                       *)
LEMMA UnaskedStep ==
  ASSUME Shapes, Unasked, Stub \/ Gdb
  PROVE  Unasked' \/ (~Long /\ Arriving)' \/ Unheard'
<1>1. Char("+") \in Chars /\ Char("+").is = "+"
  BY DEF Char, Chars
<1>2. CASE Stub
  <2>1. at = "await" /\ toStub = <<Char("+")>> /\ AwaitAck
    BY <1>2 DEF Unasked, Stub, Hunt, ReadBody, StartOver, Overflow, EndBody, CheckSum,
                ExecuteCommand, Send, Get, AwaitAck
  <2>2. Head(toStub) = Char("+") /\ Tail(toStub) = <<>>
    BY <2>1
  <2> QED
    BY <1>1, <2>1, <2>2 DEF Unasked, AwaitAck, Get, Quiet
<1>3. CASE Gdb
  <2>1. GdbAsk
    BY <1>3 DEF Unasked, Gdb, GdbAcked, GdbAskAgain, GdbAnswered, GdbIgnores, GdbTimeout, GdbRead, Stuck
  <2>2. PICK c \in Commands :
          /\ gdb' = [gdb EXCEPT !.waits = "ack", !.command = c, !.n = @ + 1]
          /\ toStub' = toStub \o Packet(gdb.n + 1, c)
    BY <2>1 DEF GdbAsk
  <2>3. c \in Askable /\ c.length \in Nat \ {0}
    BY GdbAssumption DEF Askable
  <2> DEFINE p == Packet(gdb.n + 1, c)
  <2>4. gdb.n + 1 \in Nat
    BY DEF Shapes
  <2>5. p \in Seq(Chars) /\ Coming(p, gdb.n + 1, c, 0) /\ SumsOf(p, c.length)
    BY <2>3, <2>4, PacketComing, SumsOfPacket
  <2>6. gdb'.waits = "ack" /\ gdb'.command = c /\ gdb'.n = gdb.n + 1
    BY <2>2, <2>3 DEF Shapes, Debuggers
  <2>7. UNCHANGED << toGdb, stubVars >> /\ toGdb = <<>>
    BY <2>1 DEF GdbAsk, Unasked
  <2> HIDE DEF p
  <2>8. \/ at = "hunt" /\ toStub' = p
        \/ at = "await" /\ toStub' = <<Char("+")>> \o p
    <3>1. <<>> \o p = p
      BY <2>5, ConcatEmptySeq
    <3> QED
      BY <2>2, <3>1 DEF Unasked, p
  <2>9. CASE c.length >= InBufSize
    <3>1. SumsOf(toStub', c.length)
      <4>1. <<Char("+")>> \in Seq(Chars) /\ SumsOf(<<Char("+")>>, c.length)
        BY <1>1 DEF SumsOf
      <4>2. SumsOf(<<Char("+")>> \o p, c.length)
        BY <2>3, <2>5, <4>1, SumsOfConcat
      <4> QED
        BY <2>5, <2>8, <4>2
    <3> QED
      BY <2>6, <2>7, <2>9, <3>1 DEF Unheard, SumsOf, Long
  <2>10. CASE ~(c.length >= InBufSize)
    <3>1. at = "await" => /\ toStub' # <<>> /\ Head(toStub') = Char("+") /\ Tail(toStub') = p
      BY <1>1, <2>5, <2>8, AfterOne
    <3>2. Arriving'
      BY <1>1, <2>5, <2>6, <2>7, <2>8, <3>1 DEF Arriving, stubVars
    <3> QED
      BY <2>6, <2>10, <3>2 DEF Long
  <2> QED
    BY <2>9, <2>10
<1> QED
  BY <1>2, <1>3

(* One reply, and two.                                                      *)
LEMMA OneReply ==
  ASSUME NEW x \in Replies
  PROVE  <<x>> # <<>> /\ Head(<<x>>) = x /\ Tail(<<x>>) = <<>> /\ <<x>> \in Seq(Replies) /\ Len(<<x>>) = 1
<1>1. <<x>> \in Seq(Replies) /\ Len(<<x>>) = 1 /\ <<x>>[1] = x
  BY IsASeq
<1> DEFINE s == <<x>>
<1> HIDE DEF s
<1>2. s \in Seq(Replies) /\ Len(s) = 1 /\ s[1] = x
  BY <1>1 DEF s
<1>3. s # <<>>
  BY <1>2, EmptySeq
<1>4. Len(Tail(s)) = 0 /\ Tail(s) \in Seq(Replies) /\ Head(s) = x
  BY <1>2, <1>3, TailIs
<1>5. Tail(s) = <<>>
  BY <1>4, EmptySeq
<1> QED
  BY <1>2, <1>3, <1>4, <1>5 DEF s

LEMMA TwoReplies ==
  ASSUME NEW x \in Replies, NEW y \in Replies
  PROVE  /\ Append(<<x>>, y) # <<>> /\ Append(<<x>>, y) # <<x>>
         /\ Head(Append(<<x>>, y)) = x /\ Tail(Append(<<x>>, y)) = <<y>>
<1> DEFINE s == <<x>>
           t == Append(s, y)
           u == <<y>>
<1>1. s \in Seq(Replies) /\ Len(s) = 1 /\ s[1] = x
  BY IsASeq
<1>2. u \in Seq(Replies) /\ Len(u) = 1 /\ u[1] = y
  BY IsASeq
<1> HIDE DEF s, u
<1>3. t \in Seq(Replies) /\ Len(t) = 2 /\ t[1] = x /\ t[2] = y
  <2>1. /\ t \in Seq(Replies) /\ Len(t) = Len(s) + 1 /\ t[Len(s) + 1] = y
        /\ \A i \in 1 .. Len(s) : t[i] = s[i]
    <3>1. s \in Seq(Replies) /\ y \in Replies
      BY <1>1
    <3> HIDE DEF Replies
    <3> QED
      BY <3>1, AppendIs
  <2>2. 1 \in 1 .. Len(s) /\ Len(s) + 1 = 2
    BY <1>1
  <2> HIDE DEF t
  <2> QED
    BY <1>1, <2>1, <2>2
<1> HIDE DEF t
<1>4. t # <<>> /\ t # s
  BY <1>1, <1>3, EmptySeq
<1>5. Len(Tail(t)) = 1 /\ Tail(t) \in Seq(Replies) /\ Head(t) = x /\ Tail(t)[1] = y
  BY <1>3, <1>4, TailIs
<1>6. Tail(t) = u
  <2>1. Len(Tail(t)) = Len(u) /\ \A i \in 1 .. Len(u) : Tail(t)[i] = u[i]
    BY <1>2, <1>5
  <2> QED
    BY <1>2, <1>5, <2>1, SeqEqual
<1> QED
  BY <1>3, <1>4, <1>5, <1>6 DEF s, t, u

(* The packet arrives.                                                      *)
LEMMA ArrivingStep ==
  ASSUME Shapes, ~Long, Arriving, Stub \/ Gdb
  PROVE  (~Long /\ (Arriving \/ Arrived))'
<1> DEFINE n == gdb.n
           c == gdb.command
           l == gdb.command.length
<1>1. /\ n \in Nat /\ c \in Askable /\ l \in Nat \ {0} /\ c.length = l /\ l < InBufSize /\ InBufSize \in Nat
      /\ toStub \in Seq(Chars) /\ inBuf \in Seq(Chars) /\ toGdb = <<>> /\ gdb.waits = "ack"
  BY DEF Shapes, Long, Arriving
<1>2. /\ CharOf(n, c, 1).is = "$" /\ CharOf(n, c, l + 2).is = "#"
      /\ CharOf(n, c, l + 3) = CheckSumOf(n, c)
      /\ \A k \in 0 .. l - 1 : CharOf(n, c, k + 2) = [is |-> "c", n |-> n, i |-> k + 1]
  BY <1>1, CharsOf
<1>3. \A k \in 0 .. l + 2 : Coming(toStub, n, c, k) =>
        /\ toStub # <<>> /\ Head(toStub) = CharOf(n, c, k + 1)
        /\ Tail(toStub) \in Seq(Chars) /\ Coming(Tail(toStub), n, c, k + 1)
  BY <1>1, ComingRead
<1> HIDE DEF n, c, l
<1>4. Gdb => toStub = <<>>
  BY <1>1 DEF Gdb, GdbAsk, GdbAcked, GdbAskAgain, GdbAnswered, GdbIgnores, GdbTimeout, GdbRead, Stuck
<1>5. ASSUME UNCHANGED << gdb, toGdb >>, Arriving' PROVE (~Long /\ (Arriving \/ Arrived))'
  BY <1>5 DEF Long
<1>6. CASE /\ at = "await" /\ toStub # <<>> /\ Head(toStub).is = "+"
           /\ Coming(Tail(toStub), n, c, 0)
  <2>1. AwaitAck
    BY <1>4, <1>6 DEF Stub, Hunt, ReadBody, StartOver, Overflow, EndBody, CheckSum, ExecuteCommand, Send
  <2>2. at' = "hunt" /\ toStub' = Tail(toStub) /\ UNCHANGED << gdb, toGdb >>
    BY <1>6, <2>1 DEF AwaitAck, Get, Quiet
  <2> QED
    BY <1>1, <1>5, <1>6, <2>2 DEF Arriving, n, c
<1>7. CASE at = "hunt" /\ Coming(toStub, n, c, 0)
  <2>1. toStub # <<>> /\ Head(toStub).is = "$" /\ Coming(Tail(toStub), n, c, 1)
    <3>1. 0 \in 0 .. l + 2 /\ 0 + 1 = 1
      BY <1>1
    <3> QED
      BY <1>2, <1>3, <1>7, <3>1
  <2>2. Hunt
    BY <1>4, <1>7, <2>1 DEF Stub, AwaitAck, ReadBody, StartOver, Overflow, EndBody, CheckSum, ExecuteCommand, Send
  <2>3. at' = "body" /\ inBuf' = <<>> /\ toStub' = Tail(toStub) /\ UNCHANGED << gdb, toGdb >>
    BY <2>1, <2>2 DEF Hunt, Get, Quiet
  <2>4. Gathered(<<>>, n, 0) /\ Len(<<>>) = 0 /\ 0 + 1 = 1 /\ 0 =< l
    BY <1>1 DEF Gathered
  <2> QED
    BY <1>1, <1>5, <2>1, <2>3, <2>4 DEF Arriving, n, c, l
<1>8. CASE /\ at = "body" /\ Len(inBuf) =< l
           /\ Gathered(inBuf, n, Len(inBuf))
           /\ Coming(toStub, n, c, Len(inBuf) + 1)
  <2> DEFINE k == Len(inBuf)
  <2>0. k \in Nat /\ k =< l /\ k + 1 \in 0 .. l + 2 /\ (k + 1) + 1 = k + 2
    BY <1>1, <1>8
  <2>1. toStub # <<>> /\ Head(toStub) = CharOf(n, c, k + 2) /\ Coming(Tail(toStub), n, c, k + 2)
    <3> HIDE DEF k
    <3>1. Coming(toStub, n, c, k + 1)
      BY <1>8 DEF k
    <3> QED
      BY <1>3, <2>0, <3>1
  <2>2. \/ ReadBody \/ StartOver \/ Overflow \/ EndBody
    BY <1>4, <1>8, <2>1 DEF Stub, Hunt, AwaitAck, CheckSum, ExecuteCommand, Send
  <2>3. CASE k < l
    <3>1. Head(toStub) = [is |-> "c", n |-> n, i |-> k + 1]
      <4>1. k \in 0 .. l - 1
        BY <1>1, <2>0, <2>3
      <4> QED
        BY <1>2, <2>1, <4>1
    <3>2. ~BufferFull
      BY <1>1, <2>0, <2>3 DEF BufferFull
    <3>3. ReadBody
      BY <2>2, <3>1, <3>2 DEF StartOver, Overflow, EndBody
    <3>4. /\ at' = "body" /\ inBuf' = Append(inBuf, Head(toStub)) /\ toStub' = Tail(toStub)
          /\ UNCHANGED << gdb, toGdb >>
      BY <1>8, <3>3 DEF ReadBody, Get, Quiet
    <3>5. Gathered(inBuf', n, k + 1)
      BY <1>1, <1>8, <2>0, <3>1, <3>4, GatheredMore
    <3>6. Len(inBuf') = k + 1
      BY <3>5 DEF Gathered
    <3>7. k + 1 =< l /\ Coming(toStub', n, c, (k + 1) + 1)
      BY <1>1, <2>0, <2>1, <2>3, <3>4
    <3> HIDE DEF k
    <3>8. Arriving'
      BY <1>1, <3>4, <3>5, <3>6, <3>7 DEF Arriving, n, c, l
    <3> QED
      BY <1>5, <3>4, <3>8
  <2>4. CASE k = l
    <3>1. Head(toStub).is = "#"
      BY <1>2, <2>1, <2>4
    <3>2. EndBody
      BY <2>2, <3>1 DEF ReadBody, StartOver, Overflow
    <3>3. at' = "sum" /\ inBuf' = inBuf /\ toStub' = Tail(toStub) /\ UNCHANGED << gdb, toGdb >>
      BY <3>2 DEF EndBody, Get, Quiet
    <3>4. Gathered(inBuf', n, l) /\ Coming(toStub', n, c, l + 2)
      BY <1>8, <2>1, <2>4, <3>3
    <3>5. Arriving'
      BY <1>1, <3>3, <3>4 DEF Arriving, n, c, l
    <3> QED
      BY <1>5, <3>3, <3>5
  <2> QED
    BY <1>1, <2>0, <2>3, <2>4
<1>9. CASE at = "sum" /\ Gathered(inBuf, n, l) /\ Coming(toStub, n, c, l + 2)
  <2>1. toStub # <<>> /\ Head(toStub) = CheckSumOf(n, c) /\ Tail(toStub) \in Seq(Chars)
        /\ Coming(Tail(toStub), n, c, l + 3)
    <3>1. l + 2 \in 0 .. l + 2 /\ (l + 2) + 1 = l + 3
      BY <1>1
    <3> QED
      BY <1>2, <1>3, <1>9, <3>1
  <2>2. Tail(toStub) = <<>>
    <3>1. Len(Tail(toStub)) = 0
      BY <1>1, <2>1 DEF Coming
    <3> QED
      BY <2>1, <3>1, EmptySeq
  <2>3. SumFits(Head(toStub))
    <3>1. inBuf = Body(n, l)
      BY <1>1, <1>9, GatheredBody
    <3> QED
      BY <1>1, <2>1, <3>1 DEF SumFits, CheckSumOf
  <2>4. CheckSum
    BY <1>4, <1>9, <2>1 DEF Stub, Hunt, AwaitAck, ReadBody, StartOver, Overflow, EndBody, ExecuteCommand, Send
  <2>5. /\ toGdb' = <<Ack>> /\ at' = "command" /\ toStub' = <<>> /\ UNCHANGED << inBuf, gdb >>
    BY <1>1, <2>2, <2>3, <2>4 DEF CheckSum, Get
  <2>6. Arrived'
    BY <1>1, <1>9, <2>5 DEF Arrived, Acks, n, l
  <2> QED
    BY <1>1, <2>5, <2>6 DEF Long, l
<1> QED
  BY <1>6, <1>7, <1>8, <1>9 DEF Arriving, n, c, l

(* The command is executed and answered.                                    *)
LEMMA ArrivedStep ==
  ASSUME Shapes, ~Long, Arrived, Stub \/ Gdb
  PROVE  Unasked' \/ (~Long /\ Arrived)'
<1>1. /\ toStub = <<>> /\ gdb.waits \in {"ack", "answer"} /\ inBuf \in Seq(Chars) /\ gdb \in Debuggers
      /\ gdb.n \in Nat /\ gdb.command.length \in Nat /\ outBuf \in Replies
  BY DEF Shapes, Arrived
<1>2. Ack.is = "+" /\ Ack \in Replies
  BY DEF Ack, Replies, Texts
<1>3. CASE Stub
  <2>1. ExecuteCommand \/ Send
    BY <1>1, <1>3 DEF Stub, Hunt, AwaitAck, ReadBody, StartOver, Overflow, EndBody, CheckSum, Get
  <2>2. UNCHANGED << toStub, gdb >> /\ Acks' = Acks /\ ~Long'
    BY <2>1 DEF ExecuteCommand, Send, Acks, Long
  <2>3. CASE ExecuteCommand
    <3>1. toGdb = Acks /\ inBuf = Body(gdb.n, gdb.command.length) /\ UNCHANGED toGdb
      BY <1>1, <2>3, GatheredBody DEF Arrived, ExecuteCommand
    <3> DEFINE e == Effect(gdb.command, target, gdb.n)
    <3>2. Received = gdb.command
      <4>1. 1 \in 1 .. gdb.command.length /\ Gathered(inBuf, gdb.n, gdb.command.length)
        BY <2>3 DEF Shapes, Arrived, ExecuteCommand
      <4>2. inBuf[1].is = "c" /\ inBuf[1].i = 1
        <5>1. inBuf[1] = [is |-> "c", n |-> gdb.n, i |-> 1]
          BY <4>1 DEF Gathered
        <5> QED
          BY <5>1
      <4> QED
        BY <3>1, <4>2 DEF Received
    <3>3. \/ e.text = "none" /\ at' = "hunt"
          \/ e.text # "none" /\ at' = "send" /\ (outBuf').is = "packet" /\ (outBuf').good
      BY <2>3, <3>2 DEF ExecuteCommand
    <3>4. e.text = "none" => gdb.command.op \in {"s", "c"} /\ gdb.command.arg # "syntax"
      <4>1. gdb.command.op \in {"s", "c"} /\ gdb.command.arg = "syntax" => e = Answer("E01", target)
        BY DEF Effect, Resume
      <4>2. e.text = "none" => gdb.command.op \in {"s", "c"}
        <5>1. gdb.n \in 0 .. MaxCommands /\ gdb.command \in Askable
          BY <1>1 DEF Debuggers
        <5>2. target \in Targets
          BY DEF Shapes
        <5>3. IsFair(e, gdb.command, target, gdb.n)
          <6> DEFINE c == gdb.command
                     n == gdb.n
          <6> HIDE DEF c, n
          <6>1. c \in {c, [c EXCEPT !.op = "unknown"], [c EXCEPT !.arg = "short"]}
            OBVIOUS
          <6>2. IsFair(Effect(c, target, n), c, target, n)
            BY <5>1, <5>2, <6>1, EffectIs DEF c, n
          <6> QED
            BY <6>2 DEF c, n
        <5> HIDE DEF e
        <5> QED
          BY <5>3 DEF IsFair
      <4> QED
        BY <4>1, <4>2 DEF Answer
    <3> HIDE DEF e
    <3>5. Arrived'
      BY <1>1, <2>2, <3>1, <3>3, <3>4 DEF Arrived
    <3> QED
      BY <2>2, <3>5
  <2>4. CASE Send
    <3>1. /\ toGdb = Acks /\ outBuf.is = "packet" /\ outBuf.good
          /\ toGdb' = Append(Acks, outBuf) /\ at' = "await" /\ UNCHANGED outBuf
      BY <2>4 DEF Arrived, Send
    <3>2. Arrived'
      BY <1>1, <2>2, <3>1 DEF Arrived
    <3> QED
      BY <2>2, <3>2
  <2> QED
    BY <2>1, <2>3, <2>4
<1>4. CASE Gdb
  <2>1. toGdb \in {Acks, Append(Acks, outBuf)}
    BY DEF Arrived
  <2>2. toGdb = Append(Acks, outBuf) /\ toGdb # Acks =>
          at = "await" /\ outBuf.is = "packet" /\ outBuf.good
    BY DEF Arrived
  <2>3. CASE gdb.waits = "ack"
    <3>1. Acks = <<Ack>>
      BY <2>3 DEF Acks
    <3>2. toGdb # <<>> /\ Head(toGdb) = Ack /\ Tail(toGdb) = IF toGdb = Acks THEN <<>> ELSE <<outBuf>>
      <4>1. toGdb = <<Ack>> \/ toGdb = Append(<<Ack>>, outBuf)
        BY <2>1, <3>1
      <4>2. /\ <<Ack>> # <<>> /\ Head(<<Ack>>) = Ack /\ Tail(<<Ack>>) = <<>>
            /\ Append(<<Ack>>, outBuf) # <<>> /\ Head(Append(<<Ack>>, outBuf)) = Ack
            /\ Tail(Append(<<Ack>>, outBuf)) = <<outBuf>> /\ Append(<<Ack>>, outBuf) # <<Ack>>
        BY <1>1, <1>2, OneReply, TwoReplies
      <4> QED
        BY <3>1, <4>1, <4>2
    <3>3. GdbAcked
      BY <1>2, <1>4, <2>3, <3>2 DEF Gdb, GdbAsk, GdbAskAgain, GdbAnswered, GdbIgnores, GdbTimeout, Stuck, GdbRead
    <3>4. /\ toGdb' = IF toGdb = Acks THEN <<>> ELSE <<outBuf>>
          /\ gdb' = [gdb EXCEPT !.waits = "answer"] /\ UNCHANGED << toStub, stubVars >>
      BY <3>2, <3>3 DEF GdbAcked, GdbRead
    <3>5. gdb'.waits = "answer" /\ gdb'.command = gdb.command /\ gdb'.n = gdb.n
      BY <1>1, <3>4 DEF Debuggers
    <3>6. Acks' = <<>> /\ Append(<<>>, outBuf) = <<outBuf>>
      BY <3>5 DEF Acks
    <3>7. Arrived'
      <4>1. at = "await" => toGdb # Acks
        BY <3>1 DEF Arrived
      <4> QED
        BY <1>1, <3>4, <3>5, <3>6, <4>1 DEF Arrived, stubVars
    <3> QED
      BY <3>5, <3>7 DEF Long
  <2>4. CASE gdb.waits = "answer"
    <3>1. Acks = <<>> /\ Append(<<>>, outBuf) = <<outBuf>>
      BY <2>4 DEF Acks
    <3>2. toGdb = <<>> \/ toGdb = <<outBuf>>
      BY <2>1, <3>1
    <3>3. toGdb = <<outBuf>> /\ toGdb # <<>> /\ Head(toGdb) = outBuf /\ Tail(toGdb) = <<>>
      <4>1. CASE toGdb = <<>>
        <5>1. GdbTimeout
          BY <1>4, <2>4, <4>1 DEF Gdb, GdbAsk, GdbAcked, GdbAskAgain, GdbAnswered, GdbIgnores, GdbRead
        <5>2. /\ at \in {"hunt", "await"}
              /\ ~(gdb.command.op \in {"s", "c"} /\ gdb.command.arg # "syntax")
          BY <2>4, <5>1 DEF GdbTimeout, Stuck, Arrived
        <5> QED
          BY <3>1, <4>1, <5>2 DEF Arrived
      <4>2. <<outBuf>> # <<>> /\ Head(<<outBuf>>) = outBuf /\ Tail(<<outBuf>>) = <<>>
        BY <1>1, OneReply
      <4> QED
        BY <3>2, <4>1, <4>2
    <3>4. at = "await" /\ outBuf.is = "packet" /\ outBuf.good
      BY <2>2, <3>1, <3>3
    <3>5. GdbAnswered
      BY <1>4, <2>4, <3>3, <3>4 DEF Gdb, GdbAsk, GdbAcked, GdbAskAgain, GdbIgnores, GdbTimeout, Stuck
    <3>6. /\ toGdb' = <<>> /\ toStub' = <<Char("+")>> /\ at' = "await" /\ gdb'.waits = "nothing"
      <4>1. /\ toGdb' = Tail(toGdb) /\ toStub' = Append(toStub, Char("+")) /\ at' = at
            /\ gdb' = [gdb EXCEPT !.waits = "nothing", !.answer = outBuf.text, !.told = outBuf.n]
        BY <3>3, <3>4, <3>5 DEF GdbAnswered, GdbRead, stubVars
      <4>2. Append(<<>>, Char("+")) = <<Char("+")>>
        OBVIOUS
      <4>3. gdb'.waits = "nothing"
        BY <1>1, <4>1 DEF Debuggers
      <4> QED
        BY <1>1, <3>3, <3>4, <4>1, <4>2, <4>3
    <3> QED
      BY <3>6 DEF Unasked
  <2> QED
    BY <1>1, <2>3, <2>4
<1> QED
  BY <1>3, <1>4

(* A packet too long stays without its acknowledgement.                     *)
LEMMA UnheardStep ==
  ASSUME Shapes, Unheard, Stub \/ Gdb
  PROVE  Unheard'
<1> DEFINE l == gdb.command.length
<1>1. /\ l \in Nat /\ l >= InBufSize /\ gdb.waits = "ack" /\ SumsOf(toStub, l)
      /\ toStub \in Seq(Chars) /\ toGdb \in Seq(Replies)
      /\ \A i \in 1 .. Len(toGdb) : toGdb[i].is # "+"
  BY DEF Shapes, Unheard, Long, SumsOf
<1> HIDE DEF l
<1>2. ASSUME gdb' = gdb, SumsOf(toStub', l), \A i \in 1 .. Len(toGdb') : toGdb'[i].is # "+"
      PROVE  Unheard'
  BY <1>1, <1>2 DEF Unheard, Long, SumsOf, l
<1>3. toStub # <<>> => SumsOf(Tail(toStub), l) /\ (Head(toStub).is = "sum" => Head(toStub).i = l)
  BY <1>1, SumsOfTail
<1>4. SumsOf(Packet(gdb.n, gdb.command), l) /\ Packet(gdb.n, gdb.command) \in Seq(Chars)
  BY PacketComing, SumsOfPacket DEF Shapes, l
<1>5. ASSUME NEW r \in Replies, r.is # "+"
      PROVE  \A i \in 1 .. Len(Append(toGdb, r)) : Append(toGdb, r)[i].is # "+"
  <2>1. /\ Len(toGdb) \in Nat /\ Len(Append(toGdb, r)) = Len(toGdb) + 1
        /\ \A i \in 1 .. Len(toGdb) : Append(toGdb, r)[i] = toGdb[i]
        /\ Append(toGdb, r)[Len(toGdb) + 1] = r
    <3> HIDE DEF Replies
    <3> QED
      BY <1>1, <1>5, AppendIs
  <2>2. \A i \in 1 .. Len(toGdb) + 1 : i \in 1 .. Len(toGdb) \/ i = Len(toGdb) + 1
    BY <2>1
  <2> QED
    BY <1>1, <1>5, <2>1, <2>2
<1>6. toGdb # <<>> => Head(toGdb).is # "+" /\ \A i \in 1 .. Len(Tail(toGdb)) : Tail(toGdb)[i].is # "+"
  <2> SUFFICES ASSUME toGdb # <<>>
               PROVE  Head(toGdb).is # "+" /\ \A i \in 1 .. Len(Tail(toGdb)) : Tail(toGdb)[i].is # "+"
    OBVIOUS
  <2>1. /\ Len(toGdb) \in Nat \ {0} /\ Len(Tail(toGdb)) = Len(toGdb) - 1 /\ Head(toGdb) = toGdb[1]
        /\ \A i \in 1 .. Len(Tail(toGdb)) : Tail(toGdb)[i] = toGdb[i + 1]
    BY <1>1, TailIs
  <2>2. 1 \in 1 .. Len(toGdb) /\ \A i \in 1 .. Len(toGdb) - 1 : i + 1 \in 1 .. Len(toGdb)
    BY <2>1
  <2> QED
    BY <1>1, <2>1, <2>2
<1>7. CASE Hunt \/ ReadBody \/ StartOver \/ Overflow \/ EndBody \/ AwaitAck
  <2>1. toStub # <<>> /\ toStub' = Tail(toStub) /\ UNCHANGED << toGdb, gdb >>
    BY <1>7 DEF Hunt, ReadBody, StartOver, Overflow, EndBody, AwaitAck, Get, Quiet
  <2> QED
    BY <1>1, <1>2, <1>3, <2>1
<1>8. CASE CheckSum
  <2>1. toStub # <<>> /\ toStub' = Tail(toStub) /\ UNCHANGED gdb
    BY <1>8 DEF CheckSum, Get
  <2>2. ~SumFits(Head(toStub))
    <3> SUFFICES ASSUME Head(toStub).is = "sum", inBuf = Body(Head(toStub).n, Head(toStub).i)
                 PROVE  FALSE
      BY DEF SumFits
    <3>1. Len(inBuf) = l
      <4>1. Head(toStub).i = l
        BY <1>3, <2>1
      <4>2. inBuf = [i \in 1 .. l |-> [is |-> "c", n |-> Head(toStub).n, i |-> i]]
        BY <4>1 DEF Body
      <4>3. DOMAIN inBuf = 1 .. l
        BY <4>2
      <4> QED
        BY <1>1, <4>3, LenProperties DEF Shapes
    <3> QED
      BY <1>1, <3>1 DEF Shapes
  <2>3. toGdb' = Append(toGdb, Nak)
    BY <1>8, <2>2 DEF CheckSum
  <2>4. Nak \in Replies /\ Nak.is # "+"
    BY DEF Nak, Replies, Texts
  <2> QED
    BY <1>2, <1>3, <1>5, <2>1, <2>3, <2>4
<1>9. CASE ExecuteCommand
  BY <1>1, <1>2, <1>9 DEF ExecuteCommand
<1>10. CASE Send
  <2>1. toGdb' = Append(toGdb, outBuf) /\ UNCHANGED << toStub, gdb >> /\ outBuf \in Replies /\ outBuf.is # "+"
    BY <1>10 DEF Send, Shapes, Busy
  <2> QED
    BY <1>1, <1>2, <1>5, <2>1
<1>11. CASE GdbAskAgain
  <2>1. /\ toGdb # <<>> /\ toGdb' = Tail(toGdb) /\ gdb' = gdb
        /\ toStub' = toStub \o Packet(gdb.n, gdb.command)
    BY <1>11 DEF GdbAskAgain, GdbRead
  <2>2. SumsOf(toStub', l)
    BY <1>1, <1>4, <2>1, SumsOfConcat
  <2> QED
    BY <1>2, <1>6, <2>1, <2>2
<1>12. CASE GdbIgnores
  <2>1. toGdb # <<>> /\ toGdb' = Tail(toGdb) /\ UNCHANGED << toStub, gdb >>
    BY <1>12 DEF GdbIgnores, GdbRead
  <2> QED
    BY <1>1, <1>2, <1>6, <2>1
<1>13. CASE GdbTimeout
  BY <1>1, <1>2, <1>4, <1>13 DEF GdbTimeout
<1>14. ~GdbAsk /\ ~GdbAcked /\ ~GdbAnswered
  BY <1>1, <1>6 DEF GdbAsk, GdbAcked, GdbAnswered, GdbRead
<1> QED
  BY <1>7, <1>8, <1>9, <1>10, <1>11, <1>12, <1>13, <1>14 DEF Stub, Gdb

LEMMA UndisturbedInit == Init => Undisturbed
<1> SUFFICES ASSUME Init PROVE Undisturbed
  OBVIOUS
<1>1. gdb.waits = "nothing" /\ faults = 0 /\ toGdb = <<>> /\ toStub = <<>> /\ at = "hunt"
  BY DEF Init
<1> QED
  BY <1>1 DEF Undisturbed, Unasked

LEMMA UndisturbedNext == GdbInv /\ Undisturbed /\ [Next]_vars => Undisturbed'
<1> SUFFICES ASSUME GdbInv, Undisturbed, [Next]_vars
             PROVE  Undisturbed'
  OBVIOUS
<1>1. Shapes
  BY ShapesHold
<1>2. CASE Stub \/ Gdb
  <2>1. faults' = faults
    BY <1>2 DEF Stub, Gdb, Hunt, ReadBody, StartOver, Overflow, EndBody, AwaitAck, Quiet, CheckSum,
                ExecuteCommand, Send, GdbAsk, GdbAcked, GdbAskAgain, GdbAnswered, GdbIgnores, GdbTimeout
  <2> QED
    BY <1>1, <1>2, <2>1, UnaskedStep, ArrivingStep, ArrivedStep, UnheardStep DEF Undisturbed
<1>3. CASE DamagePacket \/ DamageAnswer
  <2>1. faults \in Nat /\ faults' = faults + 1
    BY <1>3 DEF DamagePacket, DamageAnswer, Undisturbed
  <2> QED
    BY <2>1 DEF Undisturbed
<1>4. CASE UNCHANGED vars
  BY <1>4 DEF vars, stubVars, Undisturbed, Unasked, Arriving, Arrived, Unheard, Long, Acks
<1> QED
  BY <1>2, <1>3, <1>4 DEF Next

(* For any commands and any size of the buffer: as long as the link does no *)
(* damage, and the packet fits the buffer, the stub and the debugger are    *)
(* never both waiting (ReceivePacket(), SendPacket()).                      *)
THEOREM NobodyWaits == Spec => []NoTimeoutNeeded
<1>1. GdbInv /\ Undisturbed => NoTimeoutNeeded
  <2> SUFFICES ASSUME GdbInv, Undisturbed PROVE NoTimeoutNeeded
    OBVIOUS
  <2> SUFFICES ASSUME faults = 0, ~Long, Stuck PROVE FALSE
    <3>1. InBufSize \in Nat /\ gdb.command.length \in Nat
      BY ShapesHold DEF Shapes
    <3> QED
      BY <3>1 DEF NoTimeoutNeeded, Long
  <2>1. toStub = <<>> /\ toGdb = <<>> /\ gdb.waits # "nothing" /\ Shapes
    BY ShapesHold DEF Stuck
  <2>2. CASE Arriving
    <3>1. PICK k \in 0 .. gdb.command.length + 2 : Coming(toStub, gdb.n, gdb.command, k)
      <4>1. Len(inBuf) =< gdb.command.length => Len(inBuf) + 1 \in 0 .. gdb.command.length + 2
        BY <2>1 DEF Shapes
      <4>2. 0 \in 0 .. gdb.command.length + 2 /\ gdb.command.length + 2 \in 0 .. gdb.command.length + 2
        BY <2>1 DEF Shapes
      <4> QED
        BY <2>1, <2>2, <4>1, <4>2 DEF Arriving
    <3>2. Len(toStub) = gdb.command.length + 3 - k
      BY <3>1 DEF Coming
    <3> QED
      BY <2>1, <3>2 DEF Shapes
  <2>3. CASE Arrived
    <3>1. gdb.waits = "answer" => Acks = <<>> /\ Append(Acks, outBuf) = <<outBuf>>
      BY DEF Acks
    <3>2. gdb.waits = "ack" => Acks = <<Ack>> /\ Append(Acks, outBuf) # <<>>
      <4>1. Ack \in Replies
        BY DEF Ack, Replies, Texts
      <4> QED
        BY <2>1, <4>1, TwoReplies DEF Acks, Shapes
    <3> QED
      BY <2>1, <2>3, <3>1, <3>2 DEF Arrived, Stuck
  <2> QED
    BY <2>1, <2>2, <2>3 DEF Undisturbed, Unasked, Unheard
<1>2. Spec => []Undisturbed
  BY UndisturbedInit, UndisturbedNext, GdbInvAlways, PTL DEF Spec
<1> QED
  BY <1>1, <1>2, GdbInvAlways, PTL
================================================================================
