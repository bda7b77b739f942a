---------------------- MODULE NIOHttpServerWire_proofs ----------------------
(***************************************************************************)
(* What NIOHttpServer sends, for any number of connections, addresses,     *)
(* event loops and frames: one protocol on a connection, texts to the      *)
(* address they came from and in order, nothing behind an error's close.   *)
(***************************************************************************)
EXTENDS NIOHttpServer_proofs

\* All that was written to c and has not been dropped, sent or pending.
Line(c) == wire[c] \o out[c]

Prefix(s, t) == Len(s) <= Len(t) /\ \A i \in 1 .. Len(s) : s[i] = t[i]

\* The messages s of a connection in stage st are a response, or 101 and frames.
ProtocolOf(st, s) ==
    \A i \in 1 .. Len(s) :
        \/ st = "answered" /\ i = 1 /\ s[i].kind \in {"page", "405"}
        \/ st \in Upgraded /\ IF i = 1 THEN s[i].kind = "101" ELSE s[i].kind \in FrameKind

\* ... and a close frame for a refused frame is on the line of a connection
\* whose decoder has failed.
FailedOf(st, s) == \A i \in 1 .. Len(s) : s[i].kind = "protoClose" => st = "failed"

ProtocolInv ==
    \A c \in Conn :
        /\ ProtocolOf(stage[c], Line(c))
        /\ FailedOf(stage[c], Line(c))
        /\ stage[c] \in Upgraded => wire[c] # << >>

\* A close frame of closeOnError is on a line only if awaitingClose is set, and
\* no text is behind it.
RefusedOf(s, awaiting) ==
    \A i \in 1 .. Len(s) : s[i].kind = "errClose" =>
        /\ awaiting
        /\ \A j \in i + 1 .. Len(s) : s[j].kind # "text"

RefusedInv == \A c \in Conn : RefusedOf(Line(c), awaitingClose)

\* The text m may be on its way to c: it answers a frame that was read, of an
\* upgraded connection with the address of c.
Echo(m, c, st, ad, fr) ==
    /\ st[m.from] \in Upgraded
    /\ ad[m.from] = ad[c]
    /\ m.n <= fr[m.from]

\* What a text answers is older than what the text m of the same client answers.
Older(s, m) ==
    \A i \in 1 .. Len(s) : s[i].kind = "text" /\ s[i].from = m.from => s[i].n < m.n

\* The texts on line s of c are echoes, in order.
EchoesOf(s, c, st, ad, fr) ==
    \A i \in 1 .. Len(s) : s[i].kind = "text" =>
        /\ Echo(s[i], c, st, ad, fr)
        /\ \A j \in 1 .. i - 1 :
              s[j].kind = "text" /\ s[j].from = s[i].from => s[j].n < s[i].n

EchoInv == \A c \in Conn : EchoesOf(Line(c), c, stage, addr, frames)

\* The texts queued on loop l are echoes for connections it serves, in order.
SendsOf(q, l, st, ad, lo, fr) ==
    \A i \in 1 .. Len(q) : q[i].kind = "send" =>
        /\ lo[q[i].conn] = l
        /\ st[q[i].conn] \in Upgraded
        /\ Echo(q[i], q[i].conn, st, ad, fr)
        /\ \A j \in 1 .. i - 1 :
              q[j].kind = "send" /\ q[j].conn = q[i].conn /\ q[j].from = q[i].from
                  => q[j].n < q[i].n

\* The texts of q come after what is on the lines w and o make.
Behind(q, w, o) ==
    \A d \in Conn : \A i \in 1 .. Len(q) :
        q[i].kind = "send" /\ q[i].conn = d => Older(w[d] \o o[d], q[i])

SendInv ==
    \A l \in Loop :
        /\ SendsOf(tasks[l], l, stage, addr, loopOf, frames)
        /\ Behind(tasks[l], wire, out)

WireInv == ProtocolInv /\ RefusedInv /\ EchoInv /\ SendInv

-----------------------------------------------------------------------------
(* Lines.                                                                  *)

\* A sequence of messages begins a longer one.
LEMMA ConcatPrefix ==
    ASSUME NEW w \in Seq(Message), NEW o \in Seq(Message)
    PROVE  w \o o \in Seq(Message) /\ Prefix(w, w \o o)
<1>1. /\ w \o o \in Seq(Message) /\ Len(w \o o) = Len(w) + Len(o)
      /\ \A i \in 1 .. Len(w) + Len(o) : (w \o o)[i] = IF i <= Len(w) THEN w[i] ELSE o[i - Len(w)]
  BY ConcatProperties
<1>2. Len(w) \in Nat /\ Len(o) \in Nat
  BY LenProperties
<1> QED
  BY <1>1, <1>2 DEF Prefix

\* A line is a sequence of messages that begins with what was sent.
LEMMA LineType ==
    ASSUME TypeOK, NEW c \in Conn
    PROVE  /\ wire[c] \in Seq(Message) /\ out[c] \in Seq(Message)
           /\ Line(c) \in Seq(Message)
           /\ Prefix(wire[c], Line(c))
<1>1. wire[c] \in Seq(Message) /\ out[c] \in Seq(Message)
  BY DEF TypeOK
<1> QED
  BY <1>1, ConcatPrefix DEF Line

\* What is dropped from the end of a line leaves a prefix of it.
LEMMA DropPrefix ==
    ASSUME NEW w \in Seq(Message), NEW o \in Seq(Message)
    PROVE  Prefix(w \o << >>, w \o o)
  BY ConcatProperties, EmptySeq, LenProperties DEF Prefix

\* So does what moves from the pending messages to the sent ones, whether the
\* rest stays or is dropped.
LEMMA MovePrefix ==
    ASSUME NEW w \in Seq(Message), NEW o \in Seq(Message), NEW i \in 1 .. Len(o),
           NEW r \in {<< >>, SubSeq(o, i + 1, Len(o))}
    PROVE  Prefix((w \o SubSeq(o, 1, i)) \o r, w \o o)
<1>1. /\ Len(w) \in Nat /\ Len(o) \in Nat
      /\ \A j \in 1 .. Len(o) : o[j] \in Message
  BY LenProperties, ElementOfSeq
<1> DEFINE s == SubSeq(o, 1, i)
           t == SubSeq(o, i + 1, Len(o))
<1>2. /\ s \in Seq(Message) /\ Len(s) = i
      /\ \A j \in 1 .. i : s[j] = o[j]
  <2>1. \A j \in 1 .. i : o[j] \in Message
    BY <1>1
  <2> QED
    BY <1>1, <2>1, SubSeqProperties
<1>3. /\ t \in Seq(Message) /\ Len(t) = Len(o) - i
      /\ \A j \in 1 .. Len(o) - i : t[j] = o[i + j]
  <2>1. \A j \in i + 1 .. Len(o) : o[j] \in Message
    BY <1>1
  <2> QED
    BY <1>1, <2>1, SubSeqProperties
<1>4. r \in Seq(Message) /\ Len(r) \in Nat /\ Len(r) <= Len(o) - i
      /\ \A j \in 1 .. Len(r) : r[j] = o[i + j]
  <2>1. CASE r = << >>
    BY <1>1, <2>1
  <2>2. CASE r = t
    BY <1>1, <1>3, <2>2
  <2> QED
    BY <2>1, <2>2
<1> HIDE DEF s
<1>5. /\ w \o s \in Seq(Message) /\ Len(w \o s) = Len(w) + i
      /\ \A j \in 1 .. Len(w) + i : (w \o s)[j] = IF j <= Len(w) THEN w[j] ELSE s[j - Len(w)]
  BY <1>2, ConcatProperties
<1> DEFINE u == w \o s
<1>10. u \in Seq(Message) /\ Len(u) = Len(w) + i
      /\ \A j \in 1 .. Len(w) + i : u[j] = IF j <= Len(w) THEN w[j] ELSE s[j - Len(w)]
  BY <1>5
<1> HIDE DEF u
<1>6. /\ Len(u \o r) = Len(u) + Len(r)
      /\ \A j \in 1 .. Len(u) + Len(r) :
            (u \o r)[j] = IF j <= Len(u) THEN u[j] ELSE r[j - Len(u)]
  BY <1>4, <1>10, ConcatProperties
<1>7. /\ Len(w \o o) = Len(w) + Len(o)
      /\ \A j \in 1 .. Len(w) + Len(o) : (w \o o)[j] = IF j <= Len(w) THEN w[j] ELSE o[j - Len(w)]
  BY ConcatProperties
<1>8. Prefix(u \o r, w \o o)
  <2>1. Len(u \o r) <= Len(w \o o)
    BY <1>1, <1>4, <1>10, <1>6, <1>7
  <2>2. ASSUME NEW j \in 1 .. Len(u \o r) PROVE (u \o r)[j] = (w \o o)[j]
    <3>1. j \in 1 .. Len(u) + Len(r) /\ j \in 1 .. Len(w) + Len(o) /\ j \in Nat
      BY <1>1, <1>4, <1>10, <1>6, <2>2
    <3>2. CASE j <= Len(w)
      BY <1>1, <1>10, <1>6, <1>7, <3>1, <3>2
    <3>3. CASE Len(w) < j /\ j <= Len(u)
      <4>1. (u \o r)[j] = s[j - Len(w)] /\ j - Len(w) \in 1 .. i
        BY <1>1, <1>10, <1>6, <3>1, <3>3
      <4> QED
        BY <1>1, <1>2, <1>7, <3>1, <3>3, <4>1
    <3>4. CASE Len(u) < j
      <4>1. (u \o r)[j] = r[j - Len(u)] /\ j - Len(u) \in 1 .. Len(r)
        BY <1>1, <1>4, <1>10, <1>6, <3>1, <3>4
      <4>2. i + (j - Len(u)) = j - Len(w)
        BY <1>1, <1>10, <3>1
      <4>3. r[j - Len(u)] = o[j - Len(w)]
        BY <1>4, <4>1, <4>2
      <4>4. (w \o o)[j] = o[j - Len(w)]
        BY <1>1, <1>7, <1>10, <3>1, <3>4
      <4> QED
        BY <4>1, <4>3, <4>4
    <3>5. j <= Len(w) \/ (Len(w) < j /\ j <= Len(u)) \/ Len(u) < j
      BY <1>1, <1>10, <3>1
    <3> QED
      BY ONLY <3>2, <3>3, <3>4, <3>5
  <2> QED
    BY <2>1, <2>2 DEF Prefix
<1>9. Prefix((w \o s) \o r, w \o o)
  BY ONLY <1>8 DEF u
<1> QED
  BY ONLY <1>9 DEF s

\* What is written is the end of the line.
LEMMA AppendLine ==
    ASSUME NEW w \in Seq(Message), NEW o \in Seq(Message), NEW m \in Message
    PROVE  /\ w \o Append(o, m) = Append(w \o o, m)
           /\ o = << >> => Append(w, m) \o o = Append(w \o o, m)
<1>1. /\ Append(o, m) = o \o <<m>> /\ <<m>> \in Seq(Message)
      /\ Append(w \o o, m) = (w \o o) \o <<m>>
      /\ Append(w, m) \in Seq(Message)
  BY AppendIsConcat, ConcatProperties
<1>2. w \o (o \o <<m>>) = (w \o o) \o <<m>>
  BY <1>1, ConcatAssociative
<1> QED
  BY <1>1, <1>2, ConcatEmptySeq

-----------------------------------------------------------------------------
(* What a step does to a line.                                             *)

\* A message written goes to the end of the line of a connection whose output
\* side is open, and is not seen elsewhere.
LEMMA WriteLine ==
    ASSUME TypeOK, NEW d \in Conn, NEW m \in Message, out' = Write(d, m), UNCHANGED wire,
           NEW c \in Conn
    PROVE  Line(c)' = IF c = d /\ sock[d] = "open" THEN Append(Line(c), m) ELSE Line(c)
<1>0. wire[c] \in Seq(Message) /\ out[c] \in Seq(Message)
  BY LineType
<1>1. out'[c] = IF c = d /\ sock[d] = "open" THEN Append(out[c], m) ELSE out[c]
  BY DEF TypeOK, Write
<1>2. wire[c] \o Append(out[c], m) = Append(wire[c] \o out[c], m)
  BY <1>0, AppendLine
<1> QED
  BY <1>1, <1>2 DEF Line

\* A line begins with itself.
LEMMA SamePrefix ==
    ASSUME TypeOK, NEW c \in Conn, UNCHANGED <<out, wire>>
    PROVE  Prefix(Line(c)', Line(c))
<1>1. Line(c) \in Seq(Message) /\ Line(c)' = Line(c)
  BY LineType DEF Line
<1> QED
  BY <1>1 DEF Prefix

\* A connection that closes loses what was pending.
LEMMA CloseLine ==
    ASSUME TypeOK, NEW c \in Conn, UNCHANGED wire, out'[c] \in {out[c], << >>}
    PROVE  Prefix(Line(c)', Line(c))
<1>0. wire[c] \in Seq(Message) /\ out[c] \in Seq(Message) /\ Line(c) \in Seq(Message)
  BY LineType
<1>1. CASE out'[c] = out[c]
  BY <1>0, <1>1 DEF Line, Prefix
<1>2. CASE out'[c] = << >>
  BY <1>0, <1>2, DropPrefix DEF Line
<1> QED
  BY <1>1, <1>2

\* The socket takes a part of a line; the rest stays, or is lost.
LEMMA WritableLine ==
    ASSUME TypeOK, NEW d \in Conn, Writable(d), NEW c \in Conn
    PROVE  Prefix(Line(c)', Line(c)) /\ (wire[c] # << >> => wire'[c] # << >>)
<1>0. wire[c] \in Seq(Message) /\ out[c] \in Seq(Message) /\ Line(c) \in Seq(Message)
  BY LineType
<1>1. PICK i \in 1 .. Len(out[d]) :
         /\ wire' = [wire EXCEPT ![d] = @ \o SubSeq(out[d], 1, i)]
         /\ Written(d, SubSeq(out[d], 1, i), SubSeq(out[d], i + 1, Len(out[d])))
  BY DEF Writable
<1>2. CASE c # d
  <2>1. UNCHANGED <<wire[c], out[c]>>
    BY <1>1, <1>2 DEF TypeOK, Written, Close
  <2> QED
    BY <1>0, <2>1 DEF Line, Prefix
<1>3. CASE c = d
  <2> DEFINE s == SubSeq(out[c], 1, i)
             r == SubSeq(out[c], i + 1, Len(out[c]))
  <2>1. wire'[c] = wire[c] \o s /\ out'[c] \in {<< >>, r}
    BY <1>1, <1>3 DEF TypeOK, Written, Close
  <2>2. Prefix(Line(c)', Line(c))
    BY <1>0, <1>3, <2>1, MovePrefix DEF Line
  <2>3. s \in Seq(Message)
    BY <1>0, <1>3, SubSeqProperties
  <2> HIDE DEF s
  <2>4. wire[c] # << >> => wire[c] \o s # << >>
    BY <1>0, <2>3, ConcatProperties, EmptySeq, LenProperties
  <2> QED
    BY <2>1, <2>2, <2>4
<1> QED
  BY <1>2, <1>3

\* The line of c loses its end, or nothing.
Dropped(c) ==
    /\ Prefix(Line(c)', Line(c))
    /\ stage[c] = "answered" => stage'[c] = "answered"
    /\ stage'[c] \in Upgraded => stage[c] \in Upgraded

\* The line of c grows by m, which is not a text.
Added(c, m) ==
    /\ Line(c)' = Append(Line(c), m)
    /\ \/ m.kind \in {"page", "405"} /\ stage[c] = "http" /\ stage'[c] = "answered"
       \/ /\ m.kind = "101"
          /\ stage[c] = "upgrading" /\ stage'[c] = "websocket"
          /\ wire'[c] # << >>
       \/ /\ m.kind \in FrameKind \ {"text"}
          /\ stage[c] = "websocket" /\ stage'[c] \in Upgraded
          /\ m.kind = "errClose" => awaitingClose'
          /\ m.kind = "protoClose" => stage'[c] = "failed"
          /\ m.kind = "echoClose" => ReadClose(c)

\* A connection that has been upgraded keeps its handlers, its address, its
\* loop and what it has been sent; frames are counted and awaitingClose is set.
LEMMA Steady ==
    ASSUME IInv, [Next]_vars, NEW c \in Conn
    PROVE  /\ stage[c] \in Upgraded =>
                 /\ stage'[c] \in Upgraded
                 /\ addr'[c] = addr[c] /\ loopOf'[c] = loopOf[c]
                 /\ wire[c] # << >> => wire'[c] # << >>
           /\ stage[c] = "failed" => stage'[c] = "failed"
           /\ frames'[c] \in Nat /\ frames[c] <= frames'[c]
           /\ awaitingClose => awaitingClose'
<1> DEFINE Held == /\ stage'[c] \in Upgraded
                   /\ addr'[c] = addr[c] /\ loopOf'[c] = loopOf[c]
                   /\ wire[c] # << >> => wire'[c] # << >>
           Goal == /\ stage[c] \in Upgraded => Held
                   /\ stage[c] = "failed" => stage'[c] = "failed"
                   /\ frames'[c] \in Nat /\ frames[c] <= frames'[c]
                   /\ awaitingClose => awaitingClose'
<1>0. TypeOK /\ Located /\ MoveInv /\ frames[c] \in Nat
  BY DEF IInv, TypeOK
<1>1. ASSUME UNCHANGED <<stage, addr, loopOf, wire, frames, awaitingClose>> PROVE Goal
  BY <1>0, <1>1
<1>2. ASSUME NEW d \in Conn, NEW a \in Addr, Accept(d, a),
             UNCHANGED <<awaitingClose, frames>>
      PROVE  Goal
  BY <1>0, <1>2 DEF TypeOK, Located, Accept, Upgraded
<1>3. ASSUME NEW d \in Conn, Request(d), UNCHANGED <<awaitingClose, frames>> PROVE Goal
  <2>1. UNCHANGED <<addr, loopOf, wire>>
    BY <1>3 DEF Request, ReadUpgrade, ReadGet, ReadOther
  <2>2. stage[c] \in Upgraded => stage'[c] = stage[c]
    BY <1>0, <1>3
    DEF TypeOK, Request, ReadUpgrade, ReadGet, ReadOther, ReadsRequest, Upgraded
  <2> QED
    BY <1>0, <1>3, <2>1, <2>2 DEF Upgraded
<1>4. ASSUME NEW d \in Conn, Frame(d) PROVE Goal
  <2>1. UNCHANGED <<addr, loopOf, wire>> /\ frames' = [frames EXCEPT ![d] = @ + 1]
    BY <1>4
    DEF Frame, ReadText, ReadPing, ReadClose, ReadReserved, ReadInvalid, ReadsFrame, connVars
  <2>2. /\ stage[c] \in Upgraded => stage'[c] \in Upgraded
        /\ stage[c] = "failed" => stage'[c] = "failed"
    BY <1>0, <1>4
    DEF TypeOK, Frame, ReadText, ReadPing, ReadClose, ReadReserved, ReadInvalid, connVars,
        Upgraded
  <2>3. awaitingClose => awaitingClose'
    BY <1>4 DEF Frame, ReadText, ReadPing, ReadClose, ReadReserved, ReadInvalid
  <2> QED
    BY <1>0, <2>1, <2>2, <2>3 DEF TypeOK
<1>5. ASSUME NEW d \in Conn, Writable(d) PROVE Goal
  <2>1. UNCHANGED <<stage, addr, loopOf, frames, awaitingClose>>
    BY <1>5 DEF Writable, handlerVars
  <2> QED
    BY <1>0, <1>5, <2>1, WritableLine
<1>6. ASSUME NEW d \in Conn, Lost(d) PROVE Goal
  BY <1>1, <1>6 DEF Lost, handlerVars
<1>7. ASSUME NEW l \in Loop, RunTask(l) PROVE Goal
  <2>1. CASE FinishUpgrade(l) /\ UNCHANGED <<awaitingClose, frames, stopPc>>
    <3> DEFINE d == Head(tasks[l]).conn
    <3>1. UNCHANGED <<addr, loopOf>>
      BY <2>1 DEF FinishUpgrade
    <3>2. stage[d] = "upgrading"
      <4>1. tasks[l] \in Seq(Task) /\ tasks[l] # << >> /\ Head(tasks[l]).kind = "upgrade"
        BY <1>0, <2>1 DEF TypeOK, FinishUpgrade, HeadIs
      <4>2. 1 \in 1 .. Len(tasks[l]) /\ Head(tasks[l]) = tasks[l][1]
        BY <4>1
      <4> QED
        BY <1>0, <4>1, <4>2 DEF MoveInv, MovesOf, MoveKind, Before
    <3>3. stage[c] \in Upgraded => d # c
      BY <3>2 DEF Upgraded
    <3>4. stage[c] \in Upgraded => stage'[c] = stage[c] /\ wire'[c] = wire[c]
      BY <1>0, <2>1, <3>3 DEF TypeOK, FinishUpgrade
    <3> QED
      BY <1>0, <2>1, <3>1, <3>4 DEF Upgraded
  <2>2. CASE Admit(l) /\ UNCHANGED <<awaitingClose, frames, stopPc>>
    <3>1. UNCHANGED <<addr, loopOf, wire>>
      BY <2>2, AdmitEffect
    <3>2. stage[c] \in Upgraded => stage'[c] = stage[c]
      BY <1>0, <2>2, AdmitEffect DEF TypeOK, Upgraded
    <3> QED
      BY <1>0, <2>2, <3>1, <3>2 DEF Upgraded
  <2> QED
    BY <1>1, <1>7, <2>1, <2>2
    DEF RunTask, HandlerRemoved, SendText, CloseListener, CloseLoop, LoopExit, connVars,
        handlerVars
<1>8. ASSUME NEW l \in Loop, Finish(l) PROVE Goal
  BY <1>1, <1>8 DEF Finish, ReadComplete, connVars, handlerVars
<1>9. ASSUME StopStep PROVE Goal
  BY <1>1, <1>9
  DEF StopStep, StopClear, StopCleared, StopListening, StopLoops, StopReturns, connVars,
      handlerVars
<1> QED
  BY <1>1, <1>2, <1>3, <1>4, <1>5, <1>6, <1>7, <1>8, <1>9
  DEF Next, vars, connVars, handlerVars

\* A line that is not begun has nothing sent and nothing pending.
LEMMA NoLine ==
    ASSUME TypeOK, ProtocolInv, NEW c \in Conn, stage[c] \notin Upgraded, stage[c] # "answered"
    PROVE  wire[c] = << >> /\ out[c] = << >>
<1>1. wire[c] \in Seq(Message) /\ out[c] \in Seq(Message) /\ Line(c) \in Seq(Message)
  BY LineType
<1>2. \A i \in 1 .. Len(Line(c)) : FALSE
  BY DEF ProtocolInv, ProtocolOf
<1>3. Len(Line(c)) \in Nat /\ Len(wire[c]) \in Nat /\ Len(out[c]) \in Nat
  BY <1>1, LenProperties
<1>4. Len(Line(c)) = Len(wire[c]) + Len(out[c])
  BY <1>1, ConcatProperties DEF Line
<1>5. ~(1 <= Len(Line(c)))
  BY <1>2, <1>3
<1>6. Len(wire[c]) = 0 /\ Len(out[c]) = 0
  <2> DEFINE a == Len(wire[c])
             b == Len(out[c])
             k == Len(Line(c))
  <2>1. a \in Nat /\ b \in Nat /\ k \in Nat /\ k = a + b /\ ~(1 <= k)
    BY <1>3, <1>4, <1>5
  <2> HIDE DEF a, b, k
  <2>2. a = 0 /\ b = 0
    BY ONLY <2>1
  <2> QED
    BY <2>2 DEF a, b
<1> QED
  BY <1>1, <1>6, EmptySeq

\* Every step drops from a line, or adds to it, or sends a text.
LEMMA LineEffect ==
    ASSUME IInv, ProtocolInv, [Next]_vars, NEW c \in Conn
    PROVE  \/ Dropped(c)
           \/ \E m \in Message : Added(c, m)
           \/ \E l \in Loop : SendText(l) /\ UNCHANGED <<responseBody, stopPc>>
<1> DEFINE Adds == \E m \in Message : Added(c, m)
<1>0. TypeOK /\ Located /\ MoveInv
  BY DEF IInv
<1>1. ASSUME UNCHANGED <<out, wire, stage>> PROVE Dropped(c)
  BY <1>0, <1>1, SamePrefix DEF Dropped
<1>2. ASSUME UNCHANGED <<wire, stage>>, out'[c] \in {out[c], << >>} PROVE Dropped(c)
  BY <1>0, <1>2, CloseLine DEF Dropped
<1>3. ASSUME NEW d \in Conn, NEW why, Close(d, why), UNCHANGED <<wire, stage>>
      PROVE  Dropped(c)
  <2>1. out'[c] \in {out[c], << >>}
    BY <1>0, <1>3 DEF TypeOK, Close
  <2> QED
    BY <1>2, <1>3, <2>1
<1>4. ASSUME NEW d \in Conn, NEW a \in Addr, Accept(d, a) PROVE Dropped(c)
  <2>1. UNCHANGED <<out, wire>>
    BY <1>4 DEF Accept
  <2>2. /\ stage[c] = "answered" => stage'[c] = "answered"
        /\ stage'[c] \in Upgraded => stage[c] \in Upgraded
    BY <1>0, <1>4 DEF TypeOK, Located, Accept, Upgraded
  <2> QED
    BY <1>0, <2>1, <2>2, SamePrefix DEF Dropped
<1>5. ASSUME NEW d \in Conn, Request(d) PROVE Dropped(c) \/ Adds
  <2>1. CASE ReadUpgrade(d)
    <3>1. UNCHANGED <<out, wire>>
      BY <2>1 DEF ReadUpgrade
    <3>2. /\ stage[c] = "answered" => stage'[c] = "answered"
          /\ stage'[c] \in Upgraded => stage[c] \in Upgraded
      BY <1>0, <2>1 DEF TypeOK, ReadUpgrade, ReadsRequest, Upgraded
    <3> QED
      BY <1>0, <3>1, <3>2, SamePrefix DEF Dropped
  <2>2. ASSUME NEW k \in {"page", "405"}, out' = Write(d, Msg(k, d, 0)), UNCHANGED wire,
               stage[d] = "http", stage' = [stage EXCEPT ![d] = "answered"]
        PROVE  Dropped(c) \/ Adds
    <3>1. Msg(k, d, 0) \in Message /\ Msg(k, d, 0).kind = k
      BY MsgType DEF HttpKind, Msg
    <3>2. Line(c)' = IF c = d /\ sock[d] = "open" THEN Append(Line(c), Msg(k, d, 0))
                                                  ELSE Line(c)
      BY <1>0, <2>2, <3>1, WriteLine
    <3>3. CASE c = d /\ sock[d] = "open"
      <4>1. stage[c] = "http" /\ stage'[c] = "answered"
        BY <1>0, <2>2, <3>3 DEF TypeOK
      <4> QED
        BY <3>1, <3>2, <3>3, <4>1 DEF Added
    <3>4. CASE ~(c = d /\ sock[d] = "open")
      <4>1. Line(c)' = Line(c) /\ Line(c) \in Seq(Message)
        BY <1>0, <3>2, <3>4, LineType
      <4>2. /\ stage[c] = "answered" => stage'[c] = "answered"
            /\ stage'[c] \in Upgraded => stage[c] \in Upgraded
        BY <1>0, <2>2 DEF TypeOK, Upgraded
      <4> QED
        BY <4>1, <4>2 DEF Dropped, Prefix
    <3> QED
      BY <3>3, <3>4
  <2>3. CASE ReadGet(d)
    BY <1>1, <2>2, <2>3 DEF ReadGet, ReadsRequest
  <2>4. CASE ReadOther(d)
    BY <2>2, <2>4 DEF ReadOther, ReadsRequest
  <2> QED
    BY <1>5, <2>1, <2>3, <2>4 DEF Request
<1>6. ASSUME NEW d \in Conn, Frame(d) PROVE Dropped(c) \/ Adds
  <2>0. stage[d] = "websocket" /\ ThisFrame(d) \in Nat
    BY <1>0, <1>6
    DEF TypeOK, Frame, ReadText, ReadPing, ReadClose, ReadReserved, ReadInvalid, ReadsFrame,
        ThisFrame
  <2>1. ASSUME NEW k \in FrameKind \ {"text"}, out' = Write(d, Msg(k, d, ThisFrame(d))),
               UNCHANGED wire, stage' \in {stage, [stage EXCEPT ![d] = "failed"]},
               k = "errClose" => awaitingClose',
               k = "protoClose" => stage'[d] = "failed",
               k = "echoClose" => ReadClose(d)
        PROVE  Dropped(c) \/ Adds
    <3> DEFINE m == Msg(k, d, ThisFrame(d))
    <3>1. m \in Message /\ m.kind = k
      BY <2>0, MsgType DEF Msg
    <3>2. /\ stage[c] = "answered" => stage'[c] = "answered"
          /\ stage'[c] \in Upgraded => stage[c] \in Upgraded
          /\ stage'[d] \in Upgraded
      BY <1>0, <2>0, <2>1 DEF TypeOK, Upgraded
    <3> HIDE DEF m
    <3>3. Line(c)' = IF c = d /\ sock[d] = "open" THEN Append(Line(c), m) ELSE Line(c)
      BY <1>0, <2>1, <3>1, WriteLine DEF m
    <3>4. CASE c = d /\ sock[d] = "open"
      BY <2>0, <2>1, <3>1, <3>2, <3>3, <3>4 DEF Added
    <3>5. CASE ~(c = d /\ sock[d] = "open")
      <4>1. Line(c)' = Line(c) /\ Line(c) \in Seq(Message)
        BY <1>0, <3>3, <3>5, LineType
      <4> QED
        BY <3>2, <4>1 DEF Dropped, Prefix
    <3> QED
      BY <3>4, <3>5
  <2>2. CASE ReadText(d)
    BY <1>1, <2>2 DEF ReadText, connVars
  <2>3. CASE ReadPing(d)
    BY <2>1, <2>3 DEF ReadPing, FrameKind
  <2>4. CASE ReadClose(d)
    BY <1>3, <2>1, <2>4 DEF ReadClose, FrameKind
  <2>5. CASE ReadReserved(d)
    BY <2>1, <2>5 DEF ReadReserved, FrameKind
  <2>6. CASE ReadInvalid(d)
    <3>1. CASE Close(d, "closed")
      <4>1. out'[c] \in {out[c], << >>} /\ UNCHANGED wire
        BY <1>0, <2>6, <3>1 DEF TypeOK, Close, ReadInvalid
      <4>2. /\ stage[c] = "answered" => stage'[c] = "answered"
            /\ stage'[c] \in Upgraded => stage[c] \in Upgraded
        BY <1>0, <2>0, <2>6 DEF TypeOK, Upgraded, ReadInvalid
      <4> QED
        BY <1>0, <4>1, <4>2, CloseLine DEF Dropped
    <3>2. CASE out' = Write(d, Msg("protoClose", d, ThisFrame(d)))
      <4>1. stage'[d] = "failed"
        BY <1>0, <2>6 DEF TypeOK, ReadInvalid
      <4> QED
        BY <2>1, <2>6, <3>2, <4>1 DEF ReadInvalid, FrameKind
    <3> QED
      BY <2>6, <3>1, <3>2 DEF ReadInvalid
  <2> QED
    BY <1>6, <2>2, <2>3, <2>4, <2>5, <2>6 DEF Frame
<1>7. ASSUME NEW d \in Conn, Writable(d) PROVE Dropped(c)
  <2>1. UNCHANGED stage
    BY <1>7 DEF Writable
  <2> QED
    BY <1>0, <1>7, <2>1, WritableLine DEF Dropped
<1>8. ASSUME NEW d \in Conn, Lost(d) PROVE Dropped(c)
  BY <1>3, <1>8 DEF Lost
<1>9. ASSUME NEW l \in Loop, RunTask(l)
      PROVE  Dropped(c) \/ Adds \/ (SendText(l) /\ UNCHANGED <<responseBody, stopPc>>)
  <2>1. CASE FinishUpgrade(l) /\ UNCHANGED <<awaitingClose, frames, stopPc>>
    <3> DEFINE d == Head(tasks[l]).conn
               m == Msg("101", d, 0)
    <3>1. d \in Conn /\ stage[d] = "upgrading"
      <4>1. /\ tasks[l] \in Seq(Task) /\ tasks[l] # << >> /\ Head(tasks[l]).kind = "upgrade"
            /\ MovesOf(tasks[l], l, stage, loopOf)
        BY <1>0, <2>1 DEF TypeOK, MoveInv, FinishUpgrade, HeadIs
      <4>2. 1 \in 1 .. Len(tasks[l]) /\ Head(tasks[l]) = tasks[l][1]
        BY <4>1
      <4> QED
        BY <4>1, <4>2 DEF MovesOf, MoveKind, Before
    <3>2. m \in Message /\ m.kind = "101"
      BY <3>1, MsgType DEF HttpKind, Msg
    <3>3. UNCHANGED out
      BY <2>1 DEF FinishUpgrade
    <3>4. CASE IsActive(d) /\ c = d
      <4>1. wire[c] = << >> /\ out[c] = << >>
        BY <1>0, <3>1, <3>4, NoLine DEF Upgraded
      <4>2. wire'[c] = Append(wire[c], m) /\ stage'[c] = "websocket"
        BY <1>0, <2>1, <3>4 DEF TypeOK, FinishUpgrade
      <4> HIDE DEF m
      <4>3. Line(c)' = Append(Line(c), m)
        <5>1. wire[c] \in Seq(Message) /\ out[c] \in Seq(Message)
          BY <1>0, LineType
        <5>2. Append(wire[c], m) \o out[c] = Append(wire[c] \o out[c], m)
          BY <3>2, <4>1, <5>1, AppendLine
        <5> QED
          BY <3>3, <4>2, <5>2 DEF Line
      <4>4. wire'[c] # << >>
        BY <3>2, <4>1, <4>2
      <4>5. Added(c, m)
        BY <3>1, <3>2, <3>4, <4>2, <4>3, <4>4 DEF Added
      <4> QED
        BY <3>2, <4>5
    <3>5. CASE ~(IsActive(d) /\ c = d)
      <4>1. stage'[c] = stage[c] /\ wire'[c] = wire[c]
        BY <1>0, <2>1, <3>5 DEF TypeOK, FinishUpgrade
      <4>2. Line(c)' = Line(c) /\ Line(c) \in Seq(Message)
        BY <1>0, <3>3, <4>1, LineType DEF Line
      <4>3. Prefix(Line(c)', Line(c))
        BY <4>2 DEF Prefix
      <4>4. Dropped(c)
        BY <4>1, <4>3 DEF Dropped
      <4> QED
        BY <4>4
    <3> QED
      BY <3>4, <3>5
  <2>2. CASE CloseLoop(l)
    <3>1. out'[c] \in {out[c], << >>} /\ UNCHANGED <<wire, stage>>
      BY <2>2 DEF CloseLoop
    <3>2. Dropped(c)
      BY <1>2, <3>1
    <3> QED
      BY <3>2
  <2>3. ASSUME HandlerRemoved(l) \/ CloseListener(l) \/ LoopExit(l) PROVE Dropped(c)
    BY <1>1, <2>3 DEF HandlerRemoved, CloseListener, LoopExit, connVars
  <2>4. ASSUME Admit(l) PROVE Dropped(c)
    <3>1. UNCHANGED <<out, wire>>
      BY <2>4, AdmitEffect
    <3>2. /\ stage[c] = "answered" => stage'[c] = "answered"
          /\ stage'[c] \in Upgraded => stage[c] \in Upgraded
      BY <1>0, <2>4, AdmitEffect DEF TypeOK, Upgraded
    <3> QED
      BY <1>0, <3>1, <3>2, SamePrefix DEF Dropped
  <2> HIDE DEF Adds
  <2> QED
    BY <1>9, <2>1, <2>2, <2>3, <2>4 DEF RunTask
<1>10. ASSUME NEW l \in Loop, Finish(l) PROVE Dropped(c)
  BY <1>1, <1>10 DEF Finish, ReadComplete, connVars
<1>11. ASSUME StopStep PROVE Dropped(c)
  BY <1>1, <1>11
  DEF StopStep, StopClear, StopCleared, StopListening, StopLoops, StopReturns, connVars
<1> QED
  BY <1>1, <1>4, <1>5, <1>6, <1>7, <1>8, <1>9, <1>10, <1>11 DEF Next, vars, connVars

\* The line of c grows by the text m, an echo that is not the answer to an older
\* frame, and no close frame of closeOnError has been written.
Texted(c, m) ==
    /\ Line(c)' = Append(Line(c), m)
    /\ m.kind = "text"
    /\ ~awaitingClose
    /\ stage[c] \in Upgraded
    /\ Echo(m, c, stage, addr, frames)
    /\ Older(Line(c), m)

\* sendServer's closure drops the text at the head of the queue, or writes it.
LEMMA SendTextLine ==
    ASSUME IInv, SendInv, NEW l \in Loop, SendText(l), NEW c \in Conn
    PROVE  \/ Line(c)' = Line(c)
           \/ /\ c = Head(tasks[l]).conn
              /\ \E m \in Message : /\ Texted(c, m)
                                    /\ m.from = Head(tasks[l]).from
                                    /\ m.n = Head(tasks[l]).n
<1> DEFINE t == Head(tasks[l])
           d == t.conn
           m == Msg("text", t.from, t.n)
<1>0. TypeOK
  BY DEF IInv
<1>1. tasks[l] \in Seq(Task) /\ tasks[l] # << >> /\ t.kind = "send"
  BY <1>0 DEF TypeOK, SendText
<1>2. 1 \in 1 .. Len(tasks[l]) /\ t = tasks[l][1]
  BY <1>1
<1>3. t \in Task /\ d \in Conn /\ t.from \in Conn /\ t.n \in Nat
  <2>1. t \in Task
    BY <1>1
  <2> QED
    BY <1>1, <2>1 DEF Task, TaskKind
<1>4. /\ stage[d] \in Upgraded
      /\ Echo(t, d, stage, addr, frames)
      /\ Older(Line(d), t)
  BY <1>1, <1>2, <1>3 DEF SendInv, SendsOf, Behind, Line
<1>5. m \in Message /\ m.kind = "text" /\ m.from = t.from /\ m.n = t.n
  BY <1>3, MsgType DEF FrameKind, Msg
<1>6. UNCHANGED wire /\ WriteText(t)
  BY DEF SendText
<1> HIDE DEF m, t
<1>7. CASE out' = out
  BY <1>6, <1>7 DEF Line
<1>8. CASE ~awaitingClose /\ out' = Write(d, m)
  <2>1. Line(c)' = IF c = d /\ sock[d] = "open" THEN Append(Line(c), m) ELSE Line(c)
    BY <1>0, <1>3, <1>5, <1>6, <1>8, WriteLine
  <2>2. Echo(m, d, stage, addr, frames) /\ Older(Line(d), m)
    BY <1>4, <1>5 DEF Echo, Older
  <2>3. ASSUME c = d, Line(c)' = Append(Line(c), m) PROVE Texted(c, m)
    BY <1>4, <1>5, <1>8, <2>2, <2>3 DEF Texted
  <2> QED
    BY <1>5, <2>1, <2>3 DEF t
<1> QED
  BY <1>6, <1>7, <1>8 DEF WriteText, m

\* Every step drops from a line, or adds to it, or sends an echo.
LEMMA LineStep ==
    ASSUME IInv, WireInv, [Next]_vars, NEW c \in Conn
    PROVE  \/ Dropped(c)
           \/ \E m \in Message : Added(c, m)
           \/ \E m \in Message : Texted(c, m) /\ UNCHANGED stage
<1>1. ASSUME NEW l \in Loop, SendText(l)
      PROVE  Dropped(c) \/ \E m \in Message : Texted(c, m) /\ UNCHANGED stage
  <2>0. UNCHANGED stage
    BY <1>1 DEF SendText
  <2>1. CASE Line(c)' = Line(c)
    <3>1. Line(c) \in Seq(Message)
      BY LineType DEF IInv
    <3>2. Dropped(c)
      BY <2>0, <2>1, <3>1 DEF Dropped, Prefix
    <3> QED
      BY <3>2
  <2>2. CASE \E m \in Message : Texted(c, m)
    BY <2>0, <2>2
  <2> QED
    BY <1>1, <2>1, <2>2, SendTextLine DEF WireInv
<1> QED
  BY <1>1, LineEffect DEF WireInv

-----------------------------------------------------------------------------
(* The parts of WireInv are kept.                                          *)

\* One protocol per connection.
LEMMA ProtocolKept ==
    ASSUME IInv, WireInv, [Next]_vars
    PROVE  ProtocolInv'
<1> SUFFICES ASSUME NEW c \in Conn
             PROVE  /\ ProtocolOf(stage'[c], Line(c)')
                    /\ FailedOf(stage'[c], Line(c)')
                    /\ stage'[c] \in Upgraded => wire'[c] # << >>
  BY DEF ProtocolInv
<1>0. TypeOK /\ ProtocolInv
  BY DEF IInv, WireInv
<1>1. /\ Line(c) \in Seq(Message) /\ Prefix(wire[c], Line(c))
      /\ wire[c] \in Seq(Message)
      /\ ProtocolOf(stage[c], Line(c))
      /\ stage[c] \in Upgraded => wire[c] # << >>
  BY <1>0, LineType DEF ProtocolInv
<1>2. stage[c] \in Upgraded => stage'[c] \in Upgraded /\ wire'[c] # << >>
  BY <1>1, Steady
<1>3. stage[c] \in Upgraded => Len(Line(c)) >= 1
  <2>1. wire[c] # << >> => Len(wire[c]) \in Nat /\ Len(wire[c]) >= 1
    BY <1>1
  <2> QED
    BY <1>1, <2>1, LenProperties DEF Prefix
<1>4. FailedOf(stage'[c], Line(c)')
  <2>0. FailedOf(stage[c], Line(c)) /\ Len(Line(c)) \in Nat
    BY <1>0, <1>1, LenProperties DEF ProtocolInv
  <2>1. ASSUME NEW i \in 1 .. Len(Line(c)'), Line(c)'[i].kind = "protoClose"
        PROVE  stage'[c] = "failed"
    <3>1. ASSUME i \in 1 .. Len(Line(c)), Line(c)'[i] = Line(c)[i] PROVE stage'[c] = "failed"
      BY <2>0, <2>1, <3>1, Steady DEF FailedOf
    <3>2. CASE Dropped(c)
      BY <2>0, <3>1, <3>2, LenProperties DEF Dropped, Prefix
    <3>3. ASSUME NEW m \in Message, Line(c)' = Append(Line(c), m),
                 m.kind = "protoClose" => stage'[c] = "failed"
          PROVE  stage'[c] = "failed"
      BY <1>1, <2>1, <3>1, <3>3
    <3>4. ASSUME NEW m \in Message, Added(c, m) PROVE stage'[c] = "failed"
      BY <3>3, <3>4 DEF Added
    <3>5. ASSUME NEW m \in Message, Texted(c, m) PROVE stage'[c] = "failed"
      BY <3>3, <3>5 DEF Texted
    <3> QED
      BY <3>2, <3>4, <3>5, LineStep
  <2> QED
    BY <2>1 DEF FailedOf
<1>5. CASE Dropped(c)
  <2>1. ASSUME NEW i \in 1 .. Len(Line(c)') PROVE i \in 1 .. Len(Line(c)) /\ Line(c)'[i] = Line(c)[i]
    <3>1. Len(Line(c)') <= Len(Line(c)) /\ Len(Line(c)) \in Nat
      BY <1>1, <1>5, LenProperties DEF Dropped, Prefix
    <3> QED
      BY <1>5, <3>1 DEF Dropped, Prefix
  <2> QED
    BY <1>1, <1>2, <1>4, <1>5, <2>1 DEF Dropped, ProtocolOf
<1>6. ASSUME NEW m \in Message, Added(c, m)
      PROVE  /\ ProtocolOf(stage'[c], Line(c)')
             /\ stage'[c] \in Upgraded => wire'[c] # << >>
  <2>1. ASSUME stage[c] \in {"http", "upgrading"} 
        PROVE  \A i \in 1 .. Len(Line(c)') : i = 1 /\ Line(c)'[i] = m
    <3>1. wire[c] = << >> /\ out[c] = << >>
      BY <1>0, <2>1, NoLine DEF Upgraded
    <3>2. Line(c) = << >>
      BY <1>1, <3>1, ConcatEmptySeq DEF Line
    <3>3. Line(c)' = <<m>>
      BY <1>6, <3>2 DEF Added
    <3> QED
      BY <3>3
  <2>2. CASE m.kind \in {"page", "405"} /\ stage[c] = "http" /\ stage'[c] = "answered"
    <3>1. stage'[c] \notin Upgraded
      BY <2>2 DEF Upgraded
    <3> QED
      BY <2>1, <2>2, <3>1 DEF ProtocolOf
  <2>3. CASE m.kind = "101" /\ stage[c] = "upgrading" /\ stage'[c] = "websocket" /\ wire'[c] # << >>
    <3>1. stage'[c] \in Upgraded
      BY <2>3 DEF Upgraded
    <3> QED
      BY <2>1, <2>3, <3>1 DEF ProtocolOf
  <2>4. CASE m.kind \in FrameKind \ {"text"} /\ stage[c] = "websocket" /\ stage'[c] \in Upgraded
    <3>1. stage[c] \in Upgraded /\ stage[c] # "answered"
      BY <2>4 DEF Upgraded
    <3>2. Line(c)' = Append(Line(c), m)
      BY <1>6 DEF Added
    <3> QED
      BY <1>1, <1>2, <1>3, <2>4, <3>1, <3>2 DEF ProtocolOf
  <2> QED
    BY <1>6, <2>2, <2>3, <2>4 DEF Added
<1>7. ASSUME NEW m \in Message, Texted(c, m), UNCHANGED stage
      PROVE  /\ ProtocolOf(stage'[c], Line(c)')
             /\ stage'[c] \in Upgraded => wire'[c] # << >>
  <2>1. /\ stage[c] \in Upgraded /\ stage[c] # "answered" /\ m.kind \in FrameKind
        /\ Line(c)' = Append(Line(c), m)
    BY <1>7 DEF Texted, FrameKind, Upgraded
  <2> QED
    BY <1>1, <1>2, <1>3, <2>1 DEF ProtocolOf
<1> QED
  BY <1>4, <1>5, <1>6, <1>7, LineStep

\* No text behind the close frame of an error.
LEMMA RefusedKept ==
    ASSUME IInv, WireInv, [Next]_vars
    PROVE  RefusedInv'
<1> SUFFICES ASSUME NEW c \in Conn PROVE RefusedOf(Line(c)', awaitingClose')
  BY DEF RefusedInv
<1>1. /\ Line(c) \in Seq(Message)
      /\ RefusedOf(Line(c), awaitingClose)
      /\ awaitingClose => awaitingClose'
  BY LineType, Steady DEF IInv, WireInv, RefusedInv
<1>2. CASE Dropped(c)
  <2>1. ASSUME NEW i \in 1 .. Len(Line(c)') PROVE i \in 1 .. Len(Line(c)) /\ Line(c)'[i] = Line(c)[i]
    <3>1. Len(Line(c)') <= Len(Line(c)) /\ Len(Line(c)) \in Nat
      BY <1>1, <1>2, LenProperties DEF Dropped, Prefix
    <3> QED
      BY <1>2, <3>1 DEF Dropped, Prefix
  <2>2. ASSUME NEW i \in 1 .. Len(Line(c)'), NEW j \in i + 1 .. Len(Line(c)')
        PROVE  j \in 1 .. Len(Line(c)') /\ j \in i + 1 .. Len(Line(c))
    <3>1. Len(Line(c)') <= Len(Line(c)) /\ Len(Line(c)) \in Nat
      BY <1>1, <1>2, LenProperties DEF Dropped, Prefix
    <3> QED
      BY <3>1
  <2> QED
    BY <1>1, <2>1, <2>2 DEF RefusedOf
<1>3. ASSUME NEW m \in Message, Line(c)' = Append(Line(c), m), m.kind = "text" => ~awaitingClose,
             m.kind = "errClose" => awaitingClose'
      PROVE  RefusedOf(Line(c)', awaitingClose')
  BY <1>1, <1>3 DEF RefusedOf
<1>4. ASSUME NEW m \in Message, Added(c, m) PROVE RefusedOf(Line(c)', awaitingClose')
  BY <1>3, <1>4 DEF Added
<1>5. ASSUME NEW m \in Message, Texted(c, m) PROVE RefusedOf(Line(c)', awaitingClose')
  BY <1>3, <1>5 DEF Texted
<1> QED
  BY <1>2, <1>4, <1>5, LineStep

\* An echo stays one: its connections keep what it depends on.
LEMMA EchoStays ==
    ASSUME IInv, [Next]_vars, NEW m, m.from \in Conn, m.n \in Nat, NEW c \in Conn,
           stage[c] \in Upgraded, Echo(m, c, stage, addr, frames)
    PROVE  Echo(m, c, stage', addr', frames')
<1>1. stage[m.from] \in Upgraded /\ addr[m.from] = addr[c] /\ m.n <= frames[m.from]
      /\ frames[m.from] \in Nat
  BY DEF Echo, IInv, TypeOK
<1>2. /\ stage'[m.from] \in Upgraded /\ addr'[m.from] = addr[m.from]
      /\ frames'[m.from] \in Nat /\ frames[m.from] <= frames'[m.from]
  BY <1>1, Steady
<1>3. addr'[c] = addr[c]
  BY Steady
<1> QED
  BY <1>1, <1>2, <1>3 DEF Echo

\* Texts on a line are echoes, in order.
LEMMA EchoKept ==
    ASSUME IInv, WireInv, [Next]_vars
    PROVE  EchoInv'
<1> SUFFICES ASSUME NEW c \in Conn PROVE EchoesOf(Line(c)', c, stage', addr', frames')
  BY DEF EchoInv
<1>1. /\ Line(c) \in Seq(Message)
      /\ EchoesOf(Line(c), c, stage, addr, frames)
      /\ ProtocolOf(stage[c], Line(c))
  BY LineType DEF IInv, WireInv, EchoInv, ProtocolInv
<1>2. ASSUME NEW i \in 1 .. Len(Line(c)), Line(c)[i].kind = "text"
      PROVE  /\ stage[c] \in Upgraded
             /\ Echo(Line(c)[i], c, stage', addr', frames')
  <2>1. stage[c] \in Upgraded
    BY <1>1, <1>2 DEF ProtocolOf
  <2>2. Line(c)[i] \in Message
    BY <1>1, <1>2
  <2>3. Line(c)[i].from \in Conn /\ Line(c)[i].n \in Nat
    BY <2>2 DEF Message
  <2>4. Echo(Line(c)[i], c, stage, addr, frames)
    BY <1>1, <1>2 DEF EchoesOf
  <2> QED
    BY <2>1, <2>3, <2>4, EchoStays
<1>3. CASE Dropped(c)
  <2>1. ASSUME NEW i \in 1 .. Len(Line(c)')
        PROVE  i \in 1 .. Len(Line(c)) /\ Line(c)'[i] = Line(c)[i] /\ 1 .. i - 1 \subseteq 1 .. Len(Line(c)')
    <3>1. Len(Line(c)') <= Len(Line(c)) /\ Len(Line(c)) \in Nat
      BY <1>1, <1>3, LenProperties DEF Dropped, Prefix
    <3> QED
      BY <1>3, <3>1 DEF Dropped, Prefix
  <2> QED
    BY <1>1, <1>2, <2>1 DEF EchoesOf
<1>4. ASSUME NEW m \in Message, Line(c)' = Append(Line(c), m), m.kind # "text"
      PROVE  EchoesOf(Line(c)', c, stage', addr', frames')
  BY <1>1, <1>2, <1>4 DEF EchoesOf
<1>5. ASSUME NEW m \in Message, Texted(c, m)
      PROVE  EchoesOf(Line(c)', c, stage', addr', frames')
  <2>1. m.from \in Conn /\ m.n \in Nat
    BY DEF Message
  <2>2. Echo(m, c, stage', addr', frames')
    BY <1>5, <2>1, EchoStays DEF Texted
  <2>3. Line(c)' = Append(Line(c), m) /\ Older(Line(c), m)
    BY <1>5 DEF Texted
  <2> QED
    BY <1>1, <1>2, <2>2, <2>3 DEF EchoesOf, Older
<1>6. ASSUME NEW m \in Message, Added(c, m) PROVE m.kind # "text" /\ Line(c)' = Append(Line(c), m)
  BY <1>6 DEF Added
<1> QED
  BY <1>3, <1>4, <1>5, <1>6, LineStep

\* The texts queued in r were queued in q, in the same order.
Shifted(q, r) ==
    \E k \in {0, 1} :
        \A i \in 1 .. Len(r) : r[i].kind = "send" => i + k \in 1 .. Len(q) /\ r[i] = q[i + k]

\* A turn that brings no text keeps the order of those there are.
LEMMA TurnShifts ==
    ASSUME NEW q \in Seq(Task), NEW T \in SUBSET Task, NEW r, Turn(q, r, T),
           \A t \in T : t.kind # "send"
    PROVE  Shifted(q, r)
<1>1. ASSUME NEW t \in T, r = Append(q, t) PROVE Shifted(q, r)
  <2>1. \A i \in 1 .. Len(r) : r[i].kind = "send" => i + 0 \in 1 .. Len(q) /\ r[i] = q[i + 0]
    BY <1>1
  <2> QED
    BY <2>1 DEF Shifted
<1>2. CASE r = q
  <2>1. \A i \in 1 .. Len(r) : i + 0 \in 1 .. Len(q) /\ r[i] = q[i + 0]
    BY <1>2
  <2> QED
    BY <2>1 DEF Shifted
<1>3. CASE q # << >> /\ r = Tail(q)
  <2>1. \A i \in 1 .. Len(r) : i + 1 \in 1 .. Len(q) /\ r[i] = q[i + 1]
    BY <1>3
  <2> QED
    BY <2>1 DEF Shifted
<1>4. ASSUME NEW t \in T, q # << >>, r = Append(Tail(q), t) PROVE Shifted(q, r)
  <2>1. \A i \in 1 .. Len(r) : r[i].kind = "send" => i + 1 \in 1 .. Len(q) /\ r[i] = q[i + 1]
    BY <1>4
  <2> QED
    BY <2>1 DEF Shifted
<1> QED
  BY <1>1, <1>2, <1>3, <1>4 DEF Turn

\* A queued text is for a connection of its loop, and comes from a connection.
LEMMA QueuedSend ==
    ASSUME IInv, SendInv, NEW l \in Loop, NEW i \in 1 .. Len(tasks[l]),
           tasks[l][i].kind = "send"
    PROVE  /\ tasks[l][i].conn \in Conn /\ tasks[l][i].from \in Conn /\ tasks[l][i].n \in Nat
           /\ loopOf[tasks[l][i].conn] = l
           /\ stage[tasks[l][i].conn] \in Upgraded
           /\ Echo(tasks[l][i], tasks[l][i].conn, stage, addr, frames)
           /\ Older(Line(tasks[l][i].conn), tasks[l][i])
<1>1. tasks[l] \in Seq(Task)
  BY DEF IInv, TypeOK
<1>2. tasks[l][i] \in Task
  BY <1>1
<1>3. tasks[l][i].conn \in Conn /\ tasks[l][i].from \in Conn /\ tasks[l][i].n \in Nat
  BY <1>2 DEF Task, TaskKind
<1> QED
  BY <1>3 DEF SendInv, SendsOf, Behind, Line

\* Texts that stay queued stay echoes, in order.
LEMMA SendsShift ==
    ASSUME IInv, SendInv, [Next]_vars, NEW l \in Loop, NEW r \in Seq(Task),
           Shifted(tasks[l], r)
    PROVE  SendsOf(r, l, stage', addr', loopOf', frames')
<1>1. PICK k \in {0, 1} :
         \A i \in 1 .. Len(r) : r[i].kind = "send" =>
             i + k \in 1 .. Len(tasks[l]) /\ r[i] = tasks[l][i + k]
  BY DEF Shifted
<1>2. ASSUME NEW i \in 1 .. Len(r), r[i].kind = "send"
      PROVE  /\ loopOf'[r[i].conn] = l
             /\ stage'[r[i].conn] \in Upgraded
             /\ Echo(r[i], r[i].conn, stage', addr', frames')
  <2> DEFINE t == tasks[l][i + k]
  <2>1. r[i] = t /\ i + k \in 1 .. Len(tasks[l])
    BY <1>1, <1>2
  <2>2. /\ t.conn \in Conn /\ t.from \in Conn /\ t.n \in Nat
        /\ loopOf[t.conn] = l
        /\ stage[t.conn] \in Upgraded
        /\ Echo(t, t.conn, stage, addr, frames)
    BY <1>2, <2>1, QueuedSend
  <2> HIDE DEF t
  <2>3. /\ loopOf'[t.conn] = l
        /\ stage'[t.conn] \in Upgraded
        /\ Echo(t, t.conn, stage', addr', frames')
    BY <2>2, Steady, EchoStays
  <2> QED
    BY <2>1, <2>3
<1>3. ASSUME NEW i \in 1 .. Len(r), r[i].kind = "send", NEW j \in 1 .. i - 1,
             r[j].kind = "send", r[j].conn = r[i].conn, r[j].from = r[i].from
      PROVE  r[j].n < r[i].n
  <2>1. /\ j \in 1 .. Len(r) /\ i + k \in 1 .. Len(tasks[l])
        /\ r[i] = tasks[l][i + k]
    BY <1>1, <1>3, LenProperties
  <2>2. j + k \in 1 .. (i + k) - 1 /\ r[j] = tasks[l][j + k]
    BY <1>1, <1>3, <2>1
  <2>3. SendsOf(tasks[l], l, stage, addr, loopOf, frames)
    BY DEF SendInv
  <2> QED
    BY <1>3, <2>1, <2>2, <2>3 DEF SendsOf
<1> QED
  BY <1>2, <1>3 DEF SendsOf

\* What is on a line stays older than a text that is not, unless a text is sent.
LEMMA OlderStays ==
    ASSUME NEW c \in Conn, Line(c) \in Seq(Message), NEW t, Older(Line(c), t),
           Dropped(c) \/ \E m \in Message : Added(c, m)
    PROVE  Older(Line(c)', t)
<1>1. CASE Dropped(c)
  <2>1. ASSUME NEW i \in 1 .. Len(Line(c)')
        PROVE  i \in 1 .. Len(Line(c)) /\ Line(c)'[i] = Line(c)[i]
    <3>1. Len(Line(c)') <= Len(Line(c)) /\ Len(Line(c)) \in Nat
      BY <1>1, LenProperties DEF Dropped, Prefix
    <3> QED
      BY <1>1, <3>1 DEF Dropped, Prefix
  <2> QED
    BY <2>1 DEF Older
<1>2. ASSUME NEW m \in Message, Added(c, m) PROVE Older(Line(c)', t)
  <2>1. Line(c)' = Append(Line(c), m) /\ m.kind # "text"
    BY <1>2 DEF Added
  <2> QED
    BY <2>1 DEF Older
<1> QED
  BY <1>1, <1>2

\* A text read is queued behind all that the same client has been sent.
LEMMA ReadTextSends ==
    ASSUME IInv, WireInv, [Next]_vars, NEW c \in Conn, ReadText(c), NEW l \in Loop
    PROVE  /\ SendsOf(tasks'[l], l, stage', addr', loopOf', frames')
           /\ Behind(tasks'[l], wire', out')
<1> DEFINE n == ThisFrame(c)
           q == tasks[l]
<1>0. /\ TypeOK /\ SendInv /\ EchoInv
      /\ q \in Seq(Task) /\ n \in Nat /\ n = frames[c] + 1 /\ frames[c] \in Nat
      /\ stage[c] = "websocket" /\ addr[c] \in Addr /\ loopOf[c] \in Thread
  BY DEF IInv, WireInv, TypeOK, Located, ReadText, ReadsFrame, Thread, ThisFrame
<1>1. UNCHANGED <<out, wire, stage, addr, loopOf>>
  BY DEF ReadText, connVars
<1>2. frames'[c] = n
  BY <1>0 DEF TypeOK, ReadText, ReadsFrame
<1>3. PICK d \in Lookup(loopOf[c], addr[c]) :
         tasks' = IF d = None THEN tasks ELSE Execute(loopOf[d], SendTask(d, c, n))
  BY DEF ReadText
<1>4. ASSUME d # None PROVE d \in Conn /\ addr[d] = addr[c] /\ stage[d] \in Upgraded
  BY <1>0, <1>4, LookupKeyed
<1>5. SendsOf(q, l, stage', addr', loopOf', frames')
  <2>1. Turn(q, q, {})
    BY DEF Turn
  <2>2. Shifted(q, q)
    BY <1>0, <2>1, TurnShifts
  <2> QED
    BY <1>0, <2>2, SendsShift
<1>6. Behind(q, wire', out')
  BY <1>0, <1>1 DEF SendInv
<1>7. ASSUME NEW i \in 1 .. Len(q), q[i].kind = "send", q[i].from = c PROVE q[i].n < n
  <2>1. q[i].n \in Nat /\ q[i].n <= frames[c]
    BY <1>0, <1>7, QueuedSend DEF Echo
  <2> QED
    BY <1>0, <2>1
<1>8. CASE tasks'[l] = q
  BY <1>5, <1>6, <1>8
<1>9. CASE d # None /\ loopOf[d] = l /\ tasks'[l] = Append(q, SendTask(d, c, n))
  <2> DEFINE t == SendTask(d, c, n)
  <2>1. t.kind = "send" /\ t.conn = d /\ t.from = c /\ t.n = n
    BY DEF SendTask
  <2>2. loopOf'[d] = l /\ stage'[d] \in Upgraded /\ Echo(t, d, stage', addr', frames')
    BY <1>0, <1>1, <1>2, <1>4, <1>9, <2>1 DEF Echo, Upgraded
  <2>3. Older(wire'[d] \o out'[d], t)
    <3>1. EchoesOf(Line(d), d, stage, addr, frames) /\ Line(d) \in Seq(Message)
      BY <1>0, <1>4, <1>9, LineType DEF EchoInv
    <3>2. ASSUME NEW i \in 1 .. Len(Line(d)), Line(d)[i].kind = "text", Line(d)[i].from = c
          PROVE  Line(d)[i].n < n
      <4>1. Line(d)[i] \in Message
        BY <3>1
      <4>2. Line(d)[i].n \in Nat /\ Line(d)[i].n <= frames[c]
        BY <3>1, <3>2, <4>1 DEF EchoesOf, Echo, Message
      <4> QED
        BY <1>0, <4>2
    <3>3. Older(Line(d), t)
      BY <2>1, <3>2 DEF Older
    <3> QED
      BY <1>1, <3>3 DEF Line
  <2> HIDE DEF t, n, q
  <2>4. tasks'[l] = Append(q, t)
    BY <1>9 DEF t
  <2>5. SendsOf(Append(q, t), l, stage', addr', loopOf', frames')
    BY <1>0, <1>5, <1>7, <2>1, <2>2 DEF SendsOf
  <2>6. Behind(Append(q, t), wire', out')
    BY <1>0, <1>6, <2>1, <2>3 DEF Behind
  <2> QED
    BY <2>4, <2>5, <2>6
<1> QED
  BY <1>0, <1>3, <1>8, <1>9 DEF TypeOK, Execute

\* Running a text takes the first of its line: those behind it are newer.
LEMMA SendTextSends ==
    ASSUME IInv, WireInv, [Next]_vars, NEW k \in Loop, SendText(k), NEW l \in Loop
    PROVE  Shifted(tasks[l], tasks'[l]) /\ Behind(tasks'[l], wire', out')
<1>0. /\ TypeOK /\ SendInv
      /\ tasks[l] \in Seq(Task) /\ tasks'[l] \in Seq(Task)
      /\ tasks' = [tasks EXCEPT ![k] = Tail(@)]
      /\ tasks[k] \in Seq(Task) /\ tasks[k] # << >> /\ Head(tasks[k]).kind = "send"
  BY NextIInv DEF IInv, WireInv, TypeOK, SendText
<1>1. Turn(tasks[l], tasks'[l], {})
  BY <1>0 DEF TypeOK, Turn
<1>2. Shifted(tasks[l], tasks'[l])
  BY <1>0, <1>1, TurnShifts
<1>3. PICK j \in {0, 1} :
         \A i \in 1 .. Len(tasks'[l]) : tasks'[l][i].kind = "send" =>
             i + j \in 1 .. Len(tasks[l]) /\ tasks'[l][i] = tasks[l][i + j]
  BY <1>2 DEF Shifted
<1>4. ASSUME NEW d \in Conn, NEW i \in 1 .. Len(tasks'[l]), tasks'[l][i].kind = "send",
             tasks'[l][i].conn = d
      PROVE  Older(Line(d)', tasks'[l][i])
  <2> DEFINE t == tasks'[l][i]
  <2>1. i + j \in 1 .. Len(tasks[l]) /\ t = tasks[l][i + j]
    BY <1>3, <1>4
  <2>2. loopOf[d] = l /\ Line(d) \in Seq(Message) /\ Older(Line(d), t)
    BY <1>0, <1>4, <2>1, QueuedSend, LineType
  <2>3. CASE Line(d)' = Line(d)
    BY <2>2, <2>3
  <2>4. ASSUME d = Head(tasks[k]).conn,
               NEW m \in Message, Texted(d, m), m.from = Head(tasks[k]).from,
               m.n = Head(tasks[k]).n
        PROVE  Older(Line(d)', t)
    <3> DEFINE h == tasks[k][1]
    <3>1. 1 \in 1 .. Len(tasks[k]) /\ h = Head(tasks[k])
      BY <1>0
    <3>2. loopOf[h.conn] = k
      BY <1>0, <3>1, QueuedSend
    <3>3. k = l
      BY <2>2, <2>4, <3>1, <3>2
    <3>4. /\ tasks'[l] = Tail(tasks[l]) /\ t = tasks[l][i + 1]
          /\ i + 1 \in 1 .. Len(tasks[l]) /\ 1 \in 1 .. (i + 1) - 1
      BY <1>0, <1>4, <3>3 DEF TypeOK
    <3>5. SendsOf(tasks[l], l, stage, addr, loopOf, frames)
      BY <1>0 DEF SendInv
    <3>6. t.from = h.from => h.n < t.n
      BY <1>0, <1>4, <2>4, <3>1, <3>3, <3>4, <3>5 DEF SendsOf
    <3>7. Line(d)' = Append(Line(d), m)
      BY <2>4 DEF Texted
    <3> HIDE DEF t, h
    <3> QED
      BY <2>2, <2>4, <3>1, <3>6, <3>7 DEF Older
  <2> QED
    BY <1>0, <2>3, <2>4, SendTextLine
<1> QED
  BY <1>2, <1>4 DEF Behind, Line

\* Other steps leave the texts that are queued, and what they follow.
LEMMA OtherSends ==
    ASSUME IInv, WireInv, [Next]_vars,
           \A k \in Loop : ~SendText(k), \A c \in Conn : ~ReadText(c), NEW l \in Loop
    PROVE  Shifted(tasks[l], tasks'[l]) /\ Behind(tasks'[l], wire', out')
<1>0. TypeOK /\ SendInv /\ ProtocolInv /\ tasks[l] \in Seq(Task)
  BY DEF IInv, WireInv, TypeOK
<1>1. Shifted(tasks[l], tasks'[l])
  <2>1. CASE Turn(tasks[l], tasks'[l], Ordinary)
    BY <1>0, <2>1, TurnShifts DEF Ordinary
  <2>2. CASE StopLoops
    <3>1. LoopTask("closeLoop", None) \in Task /\ LoopTask("closeLoop", None).kind = "closeLoop"
      BY LoopTaskType DEF TaskKind, LoopTask
    <3>2. Turn(tasks[l], tasks'[l], {LoopTask("closeLoop", None)})
      BY <1>0, <2>2 DEF TypeOK, StopLoops, Turn
    <3> QED
      BY <1>0, <3>1, <3>2, TurnShifts
  <2> QED
    BY <2>1, <2>2, TaskEffect
<1>2. ASSUME NEW d \in Conn, NEW i \in 1 .. Len(tasks'[l]), tasks'[l][i].kind = "send",
             tasks'[l][i].conn = d
      PROVE  Older(Line(d)', tasks'[l][i])
  <2> DEFINE t == tasks'[l][i]
  <2>1. PICK j \in {0, 1} : i + j \in 1 .. Len(tasks[l]) /\ t = tasks[l][i + j]
    BY <1>1, <1>2 DEF Shifted
  <2>2. Line(d) \in Seq(Message) /\ Older(Line(d), t)
    BY <1>0, <1>2, <2>1, QueuedSend, LineType
  <2>3. Dropped(d) \/ \E m \in Message : Added(d, m)
    BY <1>0, LineEffect
  <2> HIDE DEF t
  <2>4. Older(Line(d)', t)
    BY <2>2, <2>3, OlderStays
  <2> QED
    BY <2>4 DEF t
<1> QED
  BY <1>1, <1>2 DEF Behind, Line

\* Queued texts are echoes, in order, behind what has been sent.
LEMMA SendKept ==
    ASSUME IInv, WireInv, [Next]_vars
    PROVE  SendInv'
<1> SUFFICES ASSUME NEW l \in Loop
             PROVE  /\ SendsOf(tasks'[l], l, stage', addr', loopOf', frames')
                    /\ Behind(tasks'[l], wire', out')
  BY DEF SendInv
<1>1. SendInv /\ tasks'[l] \in Seq(Task)
  BY NextIInv DEF IInv, WireInv, TypeOK
<1>2. CASE \E c \in Conn : ReadText(c)
  BY <1>2, ReadTextSends
<1>3. CASE Shifted(tasks[l], tasks'[l]) /\ Behind(tasks'[l], wire', out')
  BY <1>1, <1>3, SendsShift
<1> QED
  BY <1>2, <1>3, SendTextSends, OtherSends

\* Nothing has been written when the server starts.
LEMMA WireInit == Init => WireInv
<1> SUFFICES ASSUME Init PROVE WireInv
  OBVIOUS
<1>1. \A c \in Conn : Line(c) = << >> /\ stage[c] = "none"
  <2>1. << >> \o << >> = << >>
    BY ConcatEmptySeq
  <2> QED
    BY <2>1 DEF Init, Line
<1>2. \A l \in Loop : tasks[l] = << >>
  BY DEF Init
<1> QED
  BY <1>1, <1>2
  DEF WireInv, ProtocolInv, ProtocolOf, FailedOf, RefusedInv, RefusedOf, EchoInv, EchoesOf, SendInv,
      SendsOf, Behind, Upgraded

\* What is written, pending and queued stays in order.
LEMMA WireInvariance == Spec => []WireInv
<1>1. IInv /\ WireInv /\ [Next]_vars => WireInv'
  BY ProtocolKept, RefusedKept, EchoKept, SendKept DEF WireInv
<1> QED
  BY <1>1, WireInit, Invariance, PTL DEF Spec

-----------------------------------------------------------------------------
(* Which closes are answered, as long as no peer sends a reserved opcode.  *)

\* No close frame of closeOnError is written, and what closes a WebSocket is the
\* answer to its peer's.
AnswerInv ==
    /\ ~awaitingClose
    /\ \A c \in Conn : sock[c] = "closed" /\ stage[c] = "websocket" =>
          \E i \in 1 .. Len(wire[c]) : wire[c][i].kind = "echoClose"

\* The messages of a line that cause its connection to close.
LEMMA LineKinds ==
    ASSUME IInv, WireInv, AnswerInv, NEW c \in Conn, stage[c] = "websocket",
           NEW i \in 1 .. Len(Line(c))
    PROVE  Line(c)[i].kind \in {"101", "text", "pong", "echoClose"}
<1>1. ProtocolOf(stage[c], Line(c)) /\ Line(c)[i].kind # "errClose"
  BY DEF WireInv, AnswerInv, ProtocolInv, RefusedInv, RefusedOf
<1>2. Line(c)[i].kind # "protoClose"
  BY DEF WireInv, ProtocolInv, FailedOf
<1> QED
  BY <1>1, <1>2 DEF ProtocolOf, FrameKind

\* A handler closes a WebSocket when its answer to the peer's close frame has
\* been written; what a connection has been sent is not unsent.
LEMMA ClosedBy ==
    ASSUME IInv, WireInv, AnswerInv, [Next]_vars, "reserved" \notin Frames, NEW c \in Conn,
           sock'[c] = "closed", stage'[c] = "websocket"
    PROVE  \/ /\ sock[c] = "closed" /\ stage[c] = "websocket"
              /\ \E s \in Seq(Message) : wire'[c] = wire[c] \o s
           \/ \E i \in 1 .. Len(wire'[c]) : wire'[c][i].kind = "echoClose"
<1> DEFINE Same == /\ sock[c] = "closed" /\ stage[c] = "websocket"
                   /\ \E s \in Seq(Message) : wire'[c] = wire[c] \o s
           Goal == Same \/ \E i \in 1 .. Len(wire'[c]) : wire'[c][i].kind = "echoClose"
<1>0. TypeOK /\ Located /\ MoveInv /\ ~awaitingClose
  BY DEF IInv, AnswerInv
<1>1. ASSUME UNCHANGED wire[c], sock[c] = "closed", stage[c] = "websocket" PROVE Same
  <2>1. wire[c] \in Seq(Message) /\ << >> \in Seq(Message)
    BY <1>0, LineType
  <2>2. wire'[c] = wire[c] \o << >>
    BY <1>1, <2>1, ConcatEmptySeq
  <2> QED
    BY <1>1, <2>1, <2>2
<1>2. ASSUME NEW d \in Conn, NEW a \in Addr, Accept(d, a) PROVE Goal
  BY <1>0, <1>1, <1>2 DEF TypeOK, Accept
<1>3. ASSUME NEW d \in Conn, Request(d) PROVE Goal
  <2>1. UNCHANGED <<sock, wire>>
    BY <1>3 DEF Request, ReadUpgrade, ReadGet, ReadOther
  <2>2. stage[c] = "websocket"
    BY <1>0, <1>3 DEF TypeOK, Request, ReadUpgrade, ReadGet, ReadOther
  <2> QED
    BY <1>1, <2>1, <2>2
<1>4. ASSUME NEW d \in Conn, Frame(d) PROVE Goal
  <2>1. UNCHANGED wire
    BY <1>4 DEF Frame, ReadText, ReadPing, ReadClose, ReadReserved, ReadInvalid, connVars
  <2>2. stage[c] = "websocket" /\ (sock[c] = "closed" \/ (ReadInvalid(d) /\ c = d))
    BY <1>0, <1>4
    DEF TypeOK, Frame, ReadText, ReadPing, ReadClose, ReadReserved, ReadInvalid, ReadsFrame,
        Close, connVars
  <2>3. ~(ReadInvalid(d) /\ c = d)
    BY <1>0 DEF TypeOK, ReadInvalid
  <2> QED
    BY <1>1, <2>1, <2>2, <2>3
<1>5. ASSUME NEW d \in Conn, Writable(d) PROVE Goal
  <2>0. UNCHANGED stage /\ stage[c] = "websocket" /\ IsActive(d)
    BY <1>5 DEF Writable
  <2>1. PICK i \in 1 .. Len(out[d]) :
           /\ wire' = [wire EXCEPT ![d] = @ \o SubSeq(out[d], 1, i)]
           /\ Written(d, SubSeq(out[d], 1, i), SubSeq(out[d], i + 1, Len(out[d])))
    BY <1>5 DEF Writable
  <2>2. CASE c # d
    <3>1. UNCHANGED <<sock[c], wire[c]>>
      BY <1>0, <2>1, <2>2 DEF TypeOK, Written, Close
    <3> QED
      BY <1>1, <2>0, <3>1
  <2>3. CASE c = d
    <3> DEFINE s == SubSeq(out[c], 1, i)
    <3>1. wire[c] \in Seq(Message) /\ out[c] \in Seq(Message) /\ Len(out[c]) \in Nat
      BY <1>0, LineType, LenProperties
    <3>2. s \in Seq(Message) /\ Len(s) = i /\ \A j \in 1 .. i : s[j] = out[c][j]
      <4>1. \A j \in 1 .. i : out[c][j] \in Message
        BY <2>3, <3>1
      <4> QED
        BY <2>3, <3>1, <4>1, SubSeqProperties
    <3>3. wire'[c] = wire[c] \o s
      BY <1>0, <2>1, <2>3 DEF TypeOK
    <3>4. sock[c] # "closed"
      BY <2>0, <2>3 DEF IsActive
    <3>5. Kinds(s) \cap (ClosingKind \cup {"errClose"}) # {}
      <4>1. sock' # sock
        BY <1>0, <2>3, <3>4
      <4> QED
        BY <2>1, <2>3, <4>1 DEF Written
    <3>6. PICK j \in 1 .. i : s[j].kind \in ClosingKind \cup {"errClose"}
      <4>1. DOMAIN s = 1 .. i
        BY <3>2
      <4> HIDE DEF s
      <4> QED
        BY <3>5, <4>1 DEF Kinds
    <3> HIDE DEF s
    <3>7. /\ Len(wire'[c]) = Len(wire[c]) + i /\ Len(wire[c]) \in Nat
          /\ wire'[c][Len(wire[c]) + j] = s[j]
      <4>1. Len(wire[c]) \in Nat
        BY <3>1, LenProperties
      <4>2. /\ Len(wire[c] \o s) = Len(wire[c]) + Len(s)
            /\ \A k \in 1 .. Len(wire[c]) + Len(s) :
                  (wire[c] \o s)[k] = IF k <= Len(wire[c]) THEN wire[c][k] ELSE s[k - Len(wire[c])]
        BY <3>1, <3>2, ConcatProperties
      <4>3. (wire[c] \o s)[Len(wire[c]) + j] = s[(Len(wire[c]) + j) - Len(wire[c])]
        BY <3>2, <3>6, <4>1, <4>2
      <4> QED
        BY <3>2, <3>3, <3>6, <4>1, <4>2, <4>3
    <3>8. s[j] = Line(c)[Len(wire[c]) + j] /\ Len(wire[c]) + j \in 1 .. Len(Line(c))
      <4>1. s[j] = out[c][j] /\ j \in 1 .. Len(out[c])
        BY <2>3, <3>1, <3>2, <3>6
      <4>2. /\ Len(Line(c)) = Len(wire[c]) + Len(out[c])
            /\ \A k \in 1 .. Len(wire[c]) + Len(out[c]) :
                  Line(c)[k] = IF k <= Len(wire[c]) THEN wire[c][k] ELSE out[c][k - Len(wire[c])]
        BY <3>1, ConcatProperties DEF Line
      <4> DEFINE a == Len(wire[c])
      <4>3. /\ a \in Nat /\ a + j \in 1 .. a + Len(out[c])
            /\ ~(a + j <= a) /\ (a + j) - a = j
        <5> DEFINE b == Len(out[c])
        <5>1. a \in Nat /\ b \in Nat /\ j \in 1 .. b
          BY <3>1, <3>7, <4>1
        <5> HIDE DEF a, b
        <5>2. a + j \in 1 .. a + b /\ ~(a + j <= a) /\ (a + j) - a = j
          BY ONLY <5>1
        <5> QED
          BY <5>1, <5>2 DEF b
      <4>4. Line(c)[a + j] = IF a + j <= a THEN wire[c][a + j] ELSE out[c][(a + j) - a]
        BY <4>2, <4>3
      <4> HIDE DEF a
      <4>5. Line(c)[a + j] = out[c][j]
        BY <4>3, <4>4
      <4>6. a + j \in 1 .. Len(Line(c))
        BY <4>2, <4>3 DEF a
      <4> QED
        BY <4>1, <4>5, <4>6 DEF a
    <3>9. s[j].kind = "echoClose"
      BY <2>0, <3>6, <3>8, LineKinds DEF ClosingKind
    <3> QED
      BY <3>2, <3>6, <3>7, <3>9
  <2> QED
    BY <2>2, <2>3
<1>6. ASSUME NEW d \in Conn, Lost(d) PROVE Goal
  BY <1>0, <1>1, <1>6 DEF TypeOK, Lost, Close
<1>7. ASSUME NEW l \in Loop, RunTask(l) PROVE Goal
  <2>1. CASE FinishUpgrade(l)
    <3> DEFINE d == Head(tasks[l]).conn
    <3>1. UNCHANGED sock /\ ~IsActive(c)
      BY <2>1 DEF FinishUpgrade, IsActive
    <3>2. UNCHANGED <<stage[c], wire[c]>>
      BY <1>0, <2>1, <3>1 DEF TypeOK, FinishUpgrade
    <3> QED
      BY <1>1, <3>1, <3>2
  <2>2. CASE CloseLoop(l)
    BY <1>0, <1>1, <2>2 DEF TypeOK, CloseLoop
  <2>3. CASE Admit(l)
    <3>1. UNCHANGED wire /\ sock[c] = "closed"
      BY <2>3, AdmitEffect
    <3>2. stage[c] = "websocket"
      <4>1. \/ UNCHANGED stage
            \/ \E d \in Conn : stage[d] = "bare" /\ stage' = [stage EXCEPT ![d] = "http"]
        BY <2>3, AdmitEffect
      <4> QED
        BY <1>0, <4>1 DEF TypeOK
    <3> QED
      BY <1>1, <3>1, <3>2
  <2> QED
    BY <1>1, <1>7, <2>1, <2>2, <2>3
    DEF RunTask, HandlerRemoved, SendText, CloseListener, LoopExit, connVars
<1>8. ASSUME NEW l \in Loop, Finish(l) PROVE Goal
  BY <1>1, <1>8 DEF Finish, ReadComplete, connVars
<1>9. ASSUME StopStep PROVE Goal
  BY <1>1, <1>9
  DEF StopStep, StopClear, StopCleared, StopListening, StopLoops, StopReturns, connVars
<1> QED
  BY <1>1, <1>2, <1>3, <1>4, <1>5, <1>6, <1>7, <1>8, <1>9 DEF Next, vars, connVars

\* Without reserved opcodes no step sets awaitingClose, and closes are answered.
LEMMA AnswerKept ==
    ASSUME IInv, WireInv, AnswerInv, [Next]_vars, "reserved" \notin Frames
    PROVE  AnswerInv'
<1>1. ~awaitingClose'
  <2>1. ~awaitingClose
    BY DEF AnswerInv
  <2>2. ASSUME NEW c \in Conn, Frame(c) PROVE UNCHANGED awaitingClose
    BY <2>2 DEF Frame, ReadText, ReadPing, ReadClose, ReadReserved, ReadInvalid, ReadsFrame
  <2>3. ASSUME NEW c \in Conn, Writable(c) \/ Lost(c) PROVE UNCHANGED awaitingClose
    BY <2>3 DEF Writable, Lost, handlerVars
  <2>4. ASSUME NEW l \in Loop, RunTask(l) \/ Finish(l) PROVE UNCHANGED awaitingClose
    <3>1. CASE RunTask(l)
      BY <3>1 DEF RunTask, SendText, CloseListener, CloseLoop, LoopExit, handlerVars
    <3>2. CASE Finish(l)
      BY <3>2 DEF Finish, ReadComplete, handlerVars
    <3> QED
      BY <2>4, <3>1, <3>2
  <2>5. ASSUME StopStep PROVE UNCHANGED awaitingClose
    BY <2>5 DEF StopStep, StopClear, StopCleared, StopListening, StopLoops, StopReturns,
                handlerVars
  <2> QED
    BY <2>1, <2>2, <2>3, <2>4, <2>5 DEF Next, vars, handlerVars
<1>2. ASSUME NEW c \in Conn, sock'[c] = "closed", stage'[c] = "websocket"
      PROVE  \E i \in 1 .. Len(wire'[c]) : wire'[c][i].kind = "echoClose"
  <2>1. ASSUME sock[c] = "closed", stage[c] = "websocket",
               NEW s \in Seq(Message), wire'[c] = wire[c] \o s
        PROVE  \E i \in 1 .. Len(wire'[c]) : wire'[c][i].kind = "echoClose"
    <3>1. PICK i \in 1 .. Len(wire[c]) : wire[c][i].kind = "echoClose"
      BY <2>1 DEF AnswerInv
    <3>2. wire[c] \in Seq(Message)
      BY LineType DEF IInv
    <3>3. Prefix(wire[c], wire[c] \o s)
      BY <3>2, ConcatPrefix
    <3>4. wire[c] \o s \in Seq(Message)
      BY <3>2, ConcatPrefix
    <3>5. i \in 1 .. Len(wire'[c]) /\ wire'[c][i] = wire[c][i]
      BY <2>1, <3>2, <3>3, <3>4, LenProperties DEF Prefix
    <3> QED
      BY <3>1, <3>5
  <2> QED
    BY <1>2, <2>1, ClosedBy
<1> QED
  BY <1>1, <1>2 DEF AnswerInv

-----------------------------------------------------------------------------
(* The theorems.                                                           *)

\* What has been sent begins the line.
LEMMA Sent ==
    ASSUME TypeOK, NEW c \in Conn, NEW i \in DOMAIN wire[c]
    PROVE  i \in 1 .. Len(wire[c]) /\ i \in 1 .. Len(Line(c)) /\ Line(c)[i] = wire[c][i]
<1>1. wire[c] \in Seq(Message) /\ Line(c) \in Seq(Message) /\ Prefix(wire[c], Line(c))
  BY LineType
<1>2. DOMAIN wire[c] = 1 .. Len(wire[c]) /\ Len(wire[c]) \in Nat /\ Len(Line(c)) \in Nat
  BY <1>1, LenProperties
<1> QED
  BY <1>1, <1>2 DEF Prefix

\* Whatever the handlers write, the socket takes and the loops have queued, a
\* peer receives one HTTP response and nothing else, or 101 and then frames: no
\* text reaches a connection before the 101 that makes it a WebSocket.
THEOREM OneProtocol == Spec => []OneProtocolAtATime
<1>1. TypeOK /\ WireInv => OneProtocolAtATime
  <2> SUFFICES ASSUME TypeOK, WireInv, NEW c \in Conn, NEW i \in DOMAIN wire[c]
               PROVE  IF i = 1 THEN wire[c][i].kind \in HttpKind
                      ELSE wire[c][1].kind = "101" /\ wire[c][i].kind \in FrameKind
    BY DEF OneProtocolAtATime
  <2>1. wire[c] \in Seq(Message) /\ i \in 1 .. Len(wire[c]) /\ 1 \in 1 .. Len(wire[c])
    BY Sent DEF TypeOK
  <2>2. 1 \in DOMAIN wire[c]
    BY <2>1
  <2>3. /\ i \in 1 .. Len(Line(c)) /\ Line(c)[i] = wire[c][i]
        /\ 1 \in 1 .. Len(Line(c)) /\ Line(c)[1] = wire[c][1]
    BY <2>2, Sent
  <2>4. ProtocolOf(stage[c], Line(c))
    BY DEF WireInv, ProtocolInv
  <2> QED
    BY <2>3, <2>4 DEF ProtocolOf, HttpKind, Upgraded
<1> QED
  BY <1>1, TypeCorrect, WireInvariance, PTL

\* Behind the close frame of closeOnError no text is sent and none waits,
\* though loops have texts queued when awaitingClose is set.
THEOREM NothingAfterErrorClose == Spec => []NoTextAfterErrorClose
<1>1. TypeOK /\ WireInv => NoTextAfterErrorClose
  <2> SUFFICES ASSUME TypeOK, WireInv, NEW c \in Conn,
                      NEW i \in DOMAIN Line(c), NEW j \in DOMAIN Line(c),
                      i < j, Line(c)[i].kind = "errClose"
               PROVE  Line(c)[j].kind # "text"
    BY DEF NoTextAfterErrorClose, Line
  <2>1. Line(c) \in Seq(Message)
    BY LineType
  <2>2. i \in 1 .. Len(Line(c)) /\ j \in i + 1 .. Len(Line(c))
    BY <2>1, LenProperties
  <2> QED
    BY <2>2 DEF WireInv, RefusedInv, RefusedOf
<1> QED
  BY <1>1, TypeCorrect, WireInvariance, PTL

\* However many threads look sessions up and change them at once, a text the
\* server sends answers a frame that came from the address it is sent to.
THEOREM EchoesKeepAddress == Spec => []EchoKeepsAddress
<1>1. TypeOK /\ WireInv => EchoKeepsAddress
  <2> SUFFICES ASSUME TypeOK, WireInv, NEW c \in Conn, NEW i \in DOMAIN wire[c],
                      wire[c][i].kind = "text"
               PROVE  addr[wire[c][i].from] = addr[c]
    BY DEF EchoKeepsAddress
  <2>1. i \in 1 .. Len(Line(c)) /\ Line(c)[i] = wire[c][i]
    BY Sent
  <2> QED
    BY <2>1 DEF WireInv, EchoInv, EchoesOf, Echo
<1> QED
  BY <1>1, TypeCorrect, WireInvariance, PTL

\* The answers to a client's texts are sent in the order of the texts, once at
\* most each, on whichever connections and loops they were queued.
THEOREM EchoesInOrder == Spec => []EchoInOrder
<1>1. TypeOK /\ WireInv => EchoInOrder
  <2> SUFFICES ASSUME TypeOK, WireInv, NEW c \in Conn,
                      NEW i \in DOMAIN wire[c], NEW j \in DOMAIN wire[c], i < j,
                      wire[c][i].kind = "text", wire[c][j].kind = "text",
                      wire[c][i].from = wire[c][j].from
               PROVE  wire[c][i].n < wire[c][j].n
    BY DEF EchoInOrder
  <2>1. /\ i \in 1 .. Len(Line(c)) /\ Line(c)[i] = wire[c][i]
        /\ j \in 1 .. Len(Line(c)) /\ Line(c)[j] = wire[c][j]
    BY Sent
  <2>2. i \in 1 .. j - 1
    BY <2>1
  <2> QED
    BY <2>1, <2>2 DEF WireInv, EchoInv, EchoesOf
<1> QED
  BY <1>1, TypeCorrect, WireInvariance, PTL

\* A WebSocket the server closes has had its close frame answered, if no peer
\* ever sends a reserved opcode: awaitingClose, one flag for all connections,
\* is the only thing that keeps receivedClose from answering.
THEOREM ClosesAnswered ==
    ASSUME "reserved" \notin Frames
    PROVE  Spec => []CloseIsAnswered
<1>1. Init => AnswerInv
  <2> SUFFICES ASSUME Init PROVE AnswerInv
    OBVIOUS
  <2>1. \A c \in Conn : Line(c) = << >> /\ sock[c] = "none"
    <3>1. << >> \o << >> = << >>
      BY ConcatEmptySeq
    <3> QED
      BY <3>1 DEF Init, Line
  <2>2. ~awaitingClose
    BY DEF Init
  <2> QED
    BY <2>1, <2>2 DEF AnswerInv
<1>2. IInv /\ WireInv /\ AnswerInv /\ [Next]_vars => AnswerInv'
  BY AnswerKept
<1>3. TypeOK /\ AnswerInv => CloseIsAnswered
  <2> SUFFICES ASSUME TypeOK, AnswerInv, NEW c \in Conn,
                      sock[c] = "closed", stage[c] = "websocket"
               PROVE  "echoClose" \in Kinds(wire[c])
    BY DEF CloseIsAnswered
  <2>1. PICK i \in 1 .. Len(wire[c]) : wire[c][i].kind = "echoClose"
    BY DEF AnswerInv
  <2>2. i \in DOMAIN wire[c]
    BY LineType
  <2> QED
    BY <2>1, <2>2 DEF Kinds
<1> QED
  BY <1>1, <1>2, <1>3, TypeCorrect, Invariance, WireInvariance, PTL DEF Spec

=============================================================================
