------------------------ MODULE NIOHttpServer_proofs ------------------------
(***************************************************************************)
(* What NIOHttpServer keeps true for any number of connections, addresses, *)
(* event loops and frames.                                                 *)
(***************************************************************************)
EXTENDS NIOHttpServer, SequenceTheorems, TLAPS

Table == [Addr -> Conn \cup {None}]

Upgraded == {"websocket", "failed"}

\* A connection that has been accepted has an address.
Located ==
    \A c \in Conn :
        /\ sock[c] = "none" <=> stage[c] = "none"
        /\ stage[c] # "none" => addr[c] \in Addr

\* KeyedByAddress, of any dictionary.
Keyed(table, ad, st) ==
    \A a \in Addr :
        table[a] # None => ad[table[a]] = a /\ st[table[a]] \in Upgraded

\* The change a thread has in hand.  An event loop changes the entry of one of
\* its own upgraded connections, serverQueue clears all; and what a thread saw
\* of the dictionary when it began was as good as the dictionary is.
AccessInv ==
    \A t \in Thread : access[t] # None =>
        /\ Keyed(access[t].seen, addr, stage)
        /\ t \in Loop <=> access[t].conn # None
        /\ t \in Loop =>
              loopOf[access[t].conn] = t /\ stage[access[t].conn] \in Upgraded

\* The tasks that move a connection on to its next phase, and the phase each
\* of them finds.
MoveKind == {"setup", "upgrade"}

Before(k) == IF k = "setup" THEN "bare" ELSE "upgrading"

\* The queue q of loop l holds one such task at most of a connection, and of
\* its own connections only.
MovesOf(q, l, st, lo) ==
    \A i \in 1 .. Len(q) : q[i].kind \in MoveKind =>
        /\ q[i].conn \in Conn
        /\ st[q[i].conn] = Before(q[i].kind)
        /\ lo[q[i].conn] = l
        /\ \A j \in 1 .. Len(q) :
              q[j].kind \in MoveKind /\ q[j].conn = q[i].conn => j = i

MoveInv == \A l \in Loop : MovesOf(tasks[l], l, stage, loopOf)

\* The loop of c has yet to cache c and to notify its connection.
Connecting(c) ==
    /\ access[loopOf[c]] # None
    /\ access[loopOf[c]].conn = c
    /\ access[loopOf[c]].note = "connect"

\* The application has heard of c if and only if c has been upgraded and its
\* connection is not just being notified.
NotesInv ==
    \A c \in Conn : notes[c] # << >> <=> stage[c] \in Upgraded /\ ~Connecting(c)

IInv == /\ TypeOK
        /\ Located
        /\ KeyedByAddress
        /\ AccessInv
        /\ MoveInv
        /\ NotesInv
        /\ ConnectFirst

-----------------------------------------------------------------------------
(* The operators the actions are built from keep the types.                *)

\* context.write leaves every pending queue a sequence of messages.
LEMMA WriteType ==
    ASSUME TypeOK, NEW c \in Conn, NEW m \in Message
    PROVE  Write(c, m) \in [Conn -> Seq(Message)]
  BY DEF TypeOK, Write

\* A message built by a handler is a message.
LEMMA MsgType ==
    ASSUME NEW k \in HttpKind \cup FrameKind, NEW c \in Conn, NEW i \in Nat
    PROVE  Msg(k, c, i) \in Message
  BY DEF Msg, Message

\* eventLoop.execute leaves every queue a sequence of tasks.
LEMMA ExecuteType ==
    ASSUME TypeOK, NEW l \in Loop, NEW t \in Task
    PROVE  Execute(l, t) \in [Loop -> Seq(Task)]
  BY DEF TypeOK, Execute

\* A task without a text is a task.
LEMMA LoopTaskType ==
    ASSUME NEW k \in TaskKind, NEW c \in Conn \cup {None}
    PROVE  LoopTask(k, c) \in Task
  BY DEF LoopTask, Task

\* Closing a channel keeps the types of what it touches.
LEMMA CloseType ==
    ASSUME TypeOK, NEW c \in Conn, NEW why \in {"lost", "closed"}, Close(c, why)
    PROVE  /\ sock' \in [Conn -> {"none", "accepted", "open", "half", "lost", "closed", "shutdown"}]
           /\ out' \in [Conn -> Seq(Message)]
           /\ tasks' \in [Loop -> Seq(Task)]
<1>1. LoopTask("removed", c) \in Task
  BY LoopTaskType DEF TaskKind
<1>2. Execute(loopOf[c], LoopTask("removed", c)) \in [Loop -> Seq(Task)]
  BY <1>1, ExecuteType DEF TypeOK
<1> QED
  BY <1>2 DEF TypeOK, Close

\* A changed dictionary is a dictionary.
LEMMA ChangedType ==
    ASSUME NEW table \in Table, NEW change \in Change
    PROVE  Changed(table, change) \in Table
  BY DEF Changed, Change, Table, EmptyTable

\* Starting a change keeps the type of access.
LEMMA BeginChangeType ==
    ASSUME TypeOK, NEW t \in Thread, NEW c \in Conn \cup {None}, NEW k \in NoteKind,
           BeginChange(t, c, k)
    PROVE  access' \in [Thread -> Change \cup {None}]
  BY DEF TypeOK, BeginChange, Change

\* Ending one keeps the types of access and of the dictionary.
LEMMA CommitType ==
    ASSUME TypeOK, NEW t \in Thread, Commit(t)
    PROVE  /\ access[t] \in Change
           /\ access' \in [Thread -> Change \cup {None}]
           /\ connectedChannels' \in Table
<1>1. access[t] \in Change /\ access[t].seen \in Table
  BY DEF TypeOK, Commit, Change, Table
<1>2. PICK base \in {connectedChannels, access[t].seen} :
         connectedChannels' = Changed(base, access[t])
  BY DEF Commit
<1>3. base \in Table
  BY <1>1, <1>2 DEF TypeOK, Table
<1>4. connectedChannels' \in Table
  BY <1>1, <1>2, <1>3, ChangedType
<1> QED
  BY <1>1, <1>4 DEF TypeOK, Commit

\* Running the task at the head of a queue leaves a sequence of tasks.
LEMMA TaskDoneType ==
    ASSUME TypeOK, NEW l \in Loop, tasks[l] # << >>
    PROVE  /\ Head(tasks[l]) \in Task
           /\ [tasks EXCEPT ![l] = Tail(@)] \in [Loop -> Seq(Task)]
  BY DEF TypeOK

\* One loop hands a task to another, or to itself: its own queue loses its
\* head, and t joins the other, unless the other has ended.
LEMMA HandOverEffect ==
    ASSUME TypeOK, NEW l \in Loop, NEW k, NEW t, tasks[l] # << >>, HandOver(l, k, t),
           NEW m \in Loop
    PROVE  IF m = l
           THEN tasks'[m] \in {Tail(tasks[m]), Append(Tail(tasks[m]), t)}
           ELSE \/ tasks'[m] = tasks[m]
                \/ tasks'[m] = Append(tasks[m], t) /\ loopState[m] # "closed"
<1> DEFINE q == tasks[l]
           e == Execute(k, t)
<1>1. q \in Seq(Task) /\ q # << >> /\ tasks' = [e EXCEPT ![l] = Tail(e[l])]
  BY DEF TypeOK, HandOver
<1>2. e \in {tasks, [tasks EXCEPT ![k] = Append(tasks[k], t)]}
      /\ (loopState[k] = "closed" => e = tasks)
  BY DEF Execute
<1>3. DOMAIN e = Loop /\ \A n \in Loop :
         e[n] = tasks[n] \/ (n = k /\ e[n] = Append(tasks[n], t) /\ loopState[n] # "closed")
  BY <1>2 DEF TypeOK
<1>4. tasks'[m] = IF m = l THEN Tail(e[l]) ELSE e[m]
  BY <1>1, <1>3
<1>5. Tail(Append(q, t)) = Append(Tail(q), t)
  BY <1>1
<1> HIDE DEF e
<1> QED
  BY <1>3, <1>4, <1>5

\* ... which leaves queues of tasks.
LEMMA HandOverType ==
    ASSUME TypeOK, NEW l \in Loop, NEW k, NEW t \in Task, tasks[l] # << >>, HandOver(l, k, t)
    PROVE  tasks' \in [Loop -> Seq(Task)]
<1>1. ASSUME NEW m \in Loop PROVE tasks'[m] \in Seq(Task)
  <2>1. tasks[m] \in Seq(Task)
    BY DEF TypeOK
  <2>2. Append(tasks[m], t) \in Seq(Task)
    BY <2>1
  <2>3. m = l => Tail(tasks[m]) \in Seq(Task) /\ Append(Tail(tasks[m]), t) \in Seq(Task)
    BY <2>1
  <2>4. CASE m = l
    <3>1. tasks'[m] = Tail(tasks[m]) \/ tasks'[m] = Append(Tail(tasks[m]), t)
      BY <2>4, HandOverEffect
    <3> QED
      BY <2>3, <2>4, <3>1
  <2>5. CASE m # l
    <3>1. tasks'[m] = tasks[m] \/ tasks'[m] = Append(tasks[m], t)
      BY <2>5, HandOverEffect
    <3> QED
      BY <2>1, <2>2, <3>1
  <2> QED
    BY <2>4, <2>5
<1>2. DOMAIN tasks' = Loop /\ tasks' = [m \in Loop |-> tasks'[m]]
  BY DEF TypeOK, HandOver, Execute
<1> QED
  BY <1>1, <1>2

-----------------------------------------------------------------------------
(* Type correctness.                                                       *)

\* The state start(port:) leaves has the right types.
LEMMA InitType == Init => TypeOK
<1> SUFFICES ASSUME Init PROVE TypeOK
  OBVIOUS
<1>1. 0 \in Loop /\ 1 % NLoops \in Loop
  BY ChannelsAssumption DEF Loop
<1>2. /\ << >> \in Seq(Message)
      /\ << >> \in Seq(Task)
      /\ << >> \in Seq(Notification)
  OBVIOUS
<1> QED
  BY <1>1, <1>2 DEF Init, TypeOK, EmptyTable

\* Accepting a connection keeps the types: next() stays within the loops.
LEMMA AcceptType ==
    ASSUME TypeOK, NEW c \in Conn, NEW a \in Addr, Accept(c, a),
           UNCHANGED <<awaitingClose, frames, stopPc>>
    PROVE  TypeOK'
<1>1. FollowingLoop(nextLoop) \in Loop /\ nextLoop \in Loop /\ 0 \in Loop
  BY ChannelsAssumption DEF TypeOK, Loop, FollowingLoop
<1>2. tasks' \in [Loop -> Seq(Task)]
  <2>1. LoopTask("register", c) \in Task /\ LoopTask("setup", c) \in Task
    BY LoopTaskType DEF TaskKind
  <2> QED
    BY <1>1, <2>1, ExecuteType DEF Accept
<1>3. /\ stage' \in [Conn -> {"none", "bare", "http", "upgrading", "answered", "websocket",
                              "failed"}]
      /\ responseBody' \in BOOLEAN
  BY DEF TypeOK, Accept
<1>4. /\ sock' \in [Conn -> {"none", "accepted", "open", "half", "lost", "closed", "shutdown"}]
      /\ addr' \in [Conn -> Addr \cup {None}]
      /\ loopOf' \in [Conn -> Loop]
      /\ nextLoop' \in Loop
  BY <1>1 DEF TypeOK, Accept
<1> QED
  BY <1>2, <1>3, <1>4 DEF TypeOK, Accept, tableVars

\* Bringing in an accepted connection keeps the types.
LEMMA AdmitType ==
    ASSUME TypeOK, NEW l \in Loop, Admit(l), UNCHANGED <<awaitingClose, frames, stopPc>>
    PROVE  TypeOK'
<1> DEFINE c == Head(tasks[l]).conn
<1>1. /\ tasks[l] # << >>
      /\ \/ \E n \in TaskKind : HandOver(l, 0, LoopTask(n, c)) \/ HandOver(l, l, LoopTask(n, c))
                                \/ HandOver(l, loopOf[c], LoopTask(n, c))
         \/ TaskDone(l)
  BY DEF Admit, Setup, Accepted, Register, Refuse, HeadIs, TaskKind
<1>2. tasks' \in [Loop -> Seq(Task)]
  <2>1. c \in Conn \cup {None}
    BY <1>1, TaskDoneType DEF Task
  <2>2. \A n \in TaskKind : LoopTask(n, c) \in Task
    BY <2>1, LoopTaskType
  <2> HIDE DEF c
  <2>3. CASE TaskDone(l)
    BY <1>1, <2>3, TaskDoneType DEF TaskDone
  <2> QED
    BY <1>1, <2>2, <2>3, HandOverType
<1>3. /\ \/ sock' = sock
         \/ \E s \in {"open", "shutdown"} : sock' = [sock EXCEPT ![c] = s]
      /\ stage' = stage \/ stage' = [stage EXCEPT ![c] = "http"]
      /\ responseBody' = responseBody \/ responseBody' = TRUE
      /\ UNCHANGED <<addr, loopOf, out, wire, reading, loopState, listening, nextLoop, trap>>
      /\ UNCHANGED tableVars
  BY DEF Admit, Setup, Accepted, Register, Refuse, connVars
<1> HIDE DEF c
<1>4. sock' \in [Conn -> {"none", "accepted", "open", "half", "lost", "closed", "shutdown"}]
  BY <1>3 DEF TypeOK
<1>5. stage' \in [Conn -> {"none", "bare", "http", "upgrading", "answered", "websocket",
                           "failed"}]
  BY <1>3 DEF TypeOK
<1>6. responseBody' \in BOOLEAN
  BY <1>3 DEF TypeOK
<1> QED
  BY <1>2, <1>3, <1>4, <1>5, <1>6 DEF TypeOK, tableVars

\* Reading a request keeps the types, upgraded, answered or trapped.
LEMMA RequestType ==
    ASSUME TypeOK, NEW c \in Conn, Request(c), UNCHANGED <<awaitingClose, frames, stopPc>>
    PROVE  TypeOK'
<1>1. CASE ReadUpgrade(c)
  <2>1. tasks' \in [Loop -> Seq(Task)]
    BY <1>1, LoopTaskType, ExecuteType DEF TypeOK, ReadUpgrade, TaskKind
  <2> QED
    BY <1>1, <2>1 DEF TypeOK, ReadUpgrade, tableVars
<1>2. CASE ReadGet(c)
  <2>1. Write(c, Msg("page", c, 0)) \in [Conn -> Seq(Message)]
    BY MsgType, WriteType DEF HttpKind
  <2> QED
    BY <1>2, <2>1 DEF TypeOK, ReadGet, loopVars, tableVars
<1>3. CASE ReadOther(c)
  <2>1. Write(c, Msg("405", c, 0)) \in [Conn -> Seq(Message)]
    BY MsgType, WriteType DEF HttpKind
  <2> QED
    BY <1>3, <2>1 DEF TypeOK, ReadOther, loopVars, tableVars
<1> QED
  BY <1>1, <1>2, <1>3 DEF Request

\* Reading a text keeps the types, whomever the lookup finds.
LEMMA ReadTextType ==
    ASSUME TypeOK, Located, NEW c \in Conn, ReadText(c), UNCHANGED <<responseBody, stopPc>>
    PROVE  TypeOK'
<1> DEFINE l == loopOf[c]
<1>0. /\ l \in Loop /\ l \in Thread /\ ThisFrame(c) \in Nat
      /\ frames[c] + 1 \in Nat /\ addr[c] \in Addr
  <2>1. stage[c] = "websocket"
    BY DEF ReadText, ReadsFrame
  <2>2. addr[c] \in Addr
    BY <2>1 DEF Located
  <2> QED
    BY <2>2 DEF TypeOK, Thread, ThisFrame
<1>1. PICK d \in Lookup(l, addr[c]) :
         tasks' = IF d = None THEN tasks
                  ELSE Execute(loopOf[d], SendTask(d, c, ThisFrame(c)))
  BY DEF ReadText
<1>2. d \in Conn \cup {None}
  <2>1. CASE d = connectedChannels[addr[c]]
    BY <1>0, <2>1 DEF TypeOK
  <2>2. ASSUME NEW u \in Thread, access[u] # None,
               d = Changed(connectedChannels, access[u])[addr[c]]
        PROVE  d \in Conn \cup {None}
    <3>1. Changed(connectedChannels, access[u]) \in Table
      BY <2>2, ChangedType DEF TypeOK, Table
    <3> QED
      BY <1>0, <2>2, <3>1 DEF Table
  <2> QED
    BY <1>1, <2>1, <2>2 DEF Lookup
<1>3. tasks' \in [Loop -> Seq(Task)]
  <2>1. CASE d = None
    BY <1>1, <2>1 DEF TypeOK
  <2>2. CASE d \in Conn /\ d # None
    <3>1. SendTask(d, c, ThisFrame(c)) \in Task
      BY <1>0, <2>2 DEF SendTask, Task
    <3>2. loopOf[d] \in Loop
      BY <2>2 DEF TypeOK
    <3> QED
      BY <1>1, <2>2, <3>1, <3>2, ExecuteType
  <2> QED
    BY <1>2, <2>1, <2>2
<1>4. Note("text", ThisFrame(c)) \in Notification
  BY <1>0 DEF Note, NoteKind, Notification
<1>5. notes' \in [Conn -> Seq(Notification)]
  BY <1>4 DEF TypeOK, ReadText
<1>6. /\ frames' \in [Conn -> Nat]
      /\ reading' \in [Loop -> Conn \cup {None}]
  BY <1>0 DEF TypeOK, ReadText, ReadsFrame
<1>7. UNCHANGED <<sock, stage, addr, loopOf, out, wire, loopState, listening, nextLoop,
                  trap, connectedChannels, access, awaitingClose, responseBody, stopPc>>
  BY DEF ReadText, connVars
<1> QED
  BY <1>3, <1>5, <1>6, <1>7 DEF TypeOK

\* Reading a frame of any kind keeps the types.
LEMMA FrameType ==
    ASSUME TypeOK, Located, NEW c \in Conn, Frame(c), UNCHANGED <<responseBody, stopPc>>
    PROVE  TypeOK'
<1>0. /\ loopOf[c] \in Loop /\ loopOf[c] \in Thread /\ ThisFrame(c) \in Nat
      /\ frames[c] + 1 \in Nat /\ c \in Conn \cup {None}
  BY DEF TypeOK, Thread, ThisFrame
<1>1. CASE ReadText(c)
  BY <1>1, ReadTextType
<1>2. CASE ReadPing(c)
  <2>1. Write(c, Msg("pong", c, ThisFrame(c))) \in [Conn -> Seq(Message)]
    BY <1>0, MsgType, WriteType DEF FrameKind
  <2> QED
    BY <1>0, <1>2, <2>1 DEF TypeOK, ReadPing, ReadsFrame, tableVars
<1>3. CASE ReadClose(c)
  <2>1. Write(c, Msg("echoClose", c, ThisFrame(c))) \in [Conn -> Seq(Message)]
    BY <1>0, MsgType, WriteType DEF FrameKind
  <2>2. access' \in [Thread -> Change \cup {None}]
    BY <1>0, <1>3, BeginChangeType DEF ReadClose, NoteKind
  <2>3. /\ sock' \in [Conn -> {"none", "accepted", "open", "half", "lost", "closed", "shutdown"}]
        /\ out' \in [Conn -> Seq(Message)]
        /\ tasks' \in [Loop -> Seq(Task)]
    <3>1. CASE awaitingClose
      BY <1>3, <3>1, CloseType DEF ReadClose
    <3>2. CASE ~awaitingClose
      BY <1>3, <2>1, <3>2 DEF TypeOK, ReadClose
    <3> QED
      BY <3>1, <3>2
  <2> QED
    BY <1>0, <1>3, <2>2, <2>3 DEF TypeOK, ReadClose, ReadsFrame
<1>4. CASE ReadReserved(c)
  <2>1. Write(c, Msg("errClose", c, ThisFrame(c))) \in [Conn -> Seq(Message)]
    BY <1>0, MsgType, WriteType DEF FrameKind
  <2>2. access' \in [Thread -> Change \cup {None}]
    BY <1>0, <1>4, BeginChangeType DEF ReadReserved, NoteKind
  <2> QED
    BY <1>0, <1>4, <2>1, <2>2 DEF TypeOK, ReadReserved, ReadsFrame
<1>5. CASE ReadInvalid(c)
  <2>1. Write(c, Msg("protoClose", c, ThisFrame(c))) \in [Conn -> Seq(Message)]
    BY <1>0, MsgType, WriteType DEF FrameKind
  <2>2. /\ sock' \in [Conn -> {"none", "accepted", "open", "half", "lost", "closed", "shutdown"}]
        /\ out' \in [Conn -> Seq(Message)]
        /\ tasks' \in [Loop -> Seq(Task)]
    <3>1. CASE sock[c] = "half"
      BY <1>5, <3>1, CloseType DEF ReadInvalid
    <3>2. CASE sock[c] # "half"
      BY <1>5, <2>1, <3>2 DEF TypeOK, ReadInvalid
    <3> QED
      BY <3>1, <3>2
  <2> QED
    BY <1>0, <1>5, <2>2 DEF TypeOK, ReadInvalid, ReadsFrame, tableVars
<1> QED
  BY <1>1, <1>2, <1>3, <1>4, <1>5 DEF Frame

\* Ending a change on an event loop keeps the types: it notifies a connection.
LEMMA EndChangeType ==
    ASSUME TypeOK, AccessInv, NEW l \in Loop, EndChange(l),
           UNCHANGED <<connVars, loopVars, trap, handlerVars, stopPc>>
    PROVE  TypeOK'
<1>1. l \in Thread
  BY DEF Thread
<1>2. /\ access[l] \in Change
      /\ access' \in [Thread -> Change \cup {None}]
      /\ connectedChannels' \in Table
  BY <1>1, CommitType DEF EndChange
<1>3. access[l].conn \in Conn
  BY <1>1, <1>2 DEF AccessInv, EndChange, Commit, Change
<1>4. Note(access[l].note, 0) \in Notification
  BY <1>2 DEF Change, Note, Notification
<1>5. notes' \in [Conn -> Seq(Notification)]
  BY <1>3, <1>4 DEF TypeOK, EndChange
<1> QED
  BY <1>2, <1>5 DEF TypeOK, Table, connVars, loopVars, handlerVars

\* The end of a batch keeps the types.
LEMMA ReadCompleteType ==
    ASSUME TypeOK, NEW l \in Loop, ReadComplete(l), UNCHANGED <<responseBody, stopPc>>
    PROVE  TypeOK'
  BY DEF TypeOK, ReadComplete, connVars, tableVars

\* A socket that takes a prefix of the pending messages keeps the types.
LEMMA WritableType ==
    ASSUME TypeOK, NEW c \in Conn, Writable(c)
    PROVE  TypeOK'
<1>1. PICK i \in 1 .. Len(out[c]) :
         /\ wire' = [wire EXCEPT ![c] = @ \o SubSeq(out[c], 1, i)]
         /\ Written(c, SubSeq(out[c], 1, i), SubSeq(out[c], i + 1, Len(out[c])))
  BY DEF Writable
<1> DEFINE sent == SubSeq(out[c], 1, i)
           rest == SubSeq(out[c], i + 1, Len(out[c]))
<1>2. out[c] \in Seq(Message) /\ Len(out[c]) \in Nat /\ wire[c] \in Seq(Message)
  BY DEF TypeOK
<1>3. sent \in Seq(Message) /\ rest \in Seq(Message)
  BY <1>2, SubSeqProperties
<1>4. wire' \in [Conn -> Seq(Message)]
  <2>1. wire[c] \o sent \in Seq(Message)
    BY <1>2, <1>3, ConcatProperties
  <2> QED
    BY <1>1, <2>1 DEF TypeOK
<1>5. /\ sock' \in [Conn -> {"none", "accepted", "open", "half", "lost", "closed", "shutdown"}]
      /\ out' \in [Conn -> Seq(Message)]
      /\ tasks' \in [Loop -> Seq(Task)]
  <2>1. CASE Close(c, "closed")
    BY <2>1, CloseType
  <2>2. CASE /\ sock' = [sock EXCEPT ![c] = "half"]
             /\ out' = [out EXCEPT ![c] = << >>]
             /\ UNCHANGED tasks
    BY <2>2 DEF TypeOK
  <2>3. CASE out' = [out EXCEPT ![c] = rest] /\ UNCHANGED <<sock, tasks>>
    BY <1>3, <2>3 DEF TypeOK
  <2> QED
    BY <1>1, <2>1, <2>2, <2>3 DEF Written
<1> QED
  BY <1>4, <1>5 DEF TypeOK, Writable, tableVars, handlerVars

\* A peer that goes away keeps the types.
LEMMA LostType ==
    ASSUME TypeOK, NEW c \in Conn, Lost(c)
    PROVE  TypeOK'
<1>1. /\ sock' \in [Conn -> {"none", "accepted", "open", "half", "lost", "closed", "shutdown"}]
      /\ out' \in [Conn -> Seq(Message)]
      /\ tasks' \in [Loop -> Seq(Task)]
  BY CloseType DEF Lost
<1> QED
  BY <1>1 DEF TypeOK, Lost, tableVars, handlerVars

\* Running a task keeps the types.
LEMMA RunTaskType ==
    ASSUME TypeOK, NEW l \in Loop, RunTask(l)
    PROVE  TypeOK'
<1>0. l \in Thread
  BY DEF Thread
<1>1. CASE FinishUpgrade(l) /\ UNCHANGED <<awaitingClose, frames, stopPc>>
  <2> DEFINE c == Head(tasks[l]).conn
  <2>1. /\ Head(tasks[l]) \in Task
        /\ tasks' \in [Loop -> Seq(Task)]
    BY <1>1, TaskDoneType DEF FinishUpgrade, HeadIs, TaskDone
  <2>2. CASE ~IsActive(c)
    BY <1>1, <2>1, <2>2 DEF TypeOK, FinishUpgrade
  <2>3. CASE IsActive(c)
    <3>1. c \in Conn \cup {None}
      BY <2>1 DEF Task
    <3>2. access' \in [Thread -> Change \cup {None}]
      BY <1>0, <1>1, <2>3, <3>1, BeginChangeType DEF FinishUpgrade, NoteKind
    <3>3. wire' \in [Conn -> Seq(Message)]
      <4>1. CASE c \in Conn
        <5>1. Msg("101", c, 0) \in Message
          BY <4>1, MsgType DEF HttpKind
        <5>2. Append(wire[c], Msg("101", c, 0)) \in Seq(Message)
          BY <4>1, <5>1 DEF TypeOK
        <5> QED
          BY <1>1, <2>3, <4>1, <5>2 DEF TypeOK, FinishUpgrade
      <4>2. CASE c \notin Conn
        BY <1>1, <2>3, <4>2 DEF TypeOK, FinishUpgrade
      <4> QED
        BY <4>1, <4>2
    <3> QED
      BY <1>1, <2>1, <2>3, <3>2, <3>3 DEF TypeOK, FinishUpgrade
  <2> QED
    BY <2>2, <2>3
<1>2. CASE HandlerRemoved(l) /\ UNCHANGED <<awaitingClose, frames, stopPc>>
  <2>1. tasks' \in [Loop -> Seq(Task)]
    BY <1>2, TaskDoneType DEF HandlerRemoved, HeadIs, TaskDone
  <2> QED
    BY <1>2, <2>1 DEF TypeOK, HandlerRemoved, connVars, tableVars
<1>3. CASE SendText(l) /\ UNCHANGED <<responseBody, stopPc>>
  <2> DEFINE t == Head(tasks[l])
  <2>1. /\ t \in Task
        /\ tasks' \in [Loop -> Seq(Task)]
    BY <1>3, TaskDoneType DEF SendText
  <2>2. out' \in [Conn -> Seq(Message)]
    <3>1. t.conn \in Conn /\ t.from \in Conn /\ t.n \in Nat
      BY <1>3, <2>1 DEF SendText, Task, TaskKind
    <3>2. Msg("text", t.from, t.n) \in Message
      BY <3>1, MsgType DEF FrameKind
    <3> QED
      BY <1>3, <3>1, <3>2, WriteType DEF TypeOK, SendText, WriteText
  <2> QED
    BY <1>3, <2>1, <2>2 DEF TypeOK, SendText, tableVars
<1>4. CASE CloseListener(l)
  <2>1. tasks' \in [Loop -> Seq(Task)]
    BY <1>4, TaskDoneType DEF CloseListener, HeadIs, TaskDone
  <2> QED
    BY <1>4, <2>1 DEF TypeOK, CloseListener, connVars, tableVars, handlerVars
<1>5. CASE CloseLoop(l)
  <2>1. /\ Tail(tasks[l]) \in Seq(Task)
        /\ LoopTask("removed", None) \in Task
    BY <1>5, LoopTaskType DEF TypeOK, CloseLoop, HeadIs, TaskKind
  <2>2. tasks' \in [Loop -> Seq(Task)]
    BY <1>5, <2>1 DEF TypeOK, CloseLoop
  <2> QED
    BY <1>5, <2>2 DEF TypeOK, CloseLoop, tableVars, handlerVars
<1>6. CASE LoopExit(l)
  BY <1>6 DEF TypeOK, LoopExit, connVars, tableVars, handlerVars
<1>7. CASE Admit(l) /\ UNCHANGED <<awaitingClose, frames, stopPc>>
  BY <1>7, AdmitType
<1> QED
  BY <1>1, <1>2, <1>3, <1>4, <1>5, <1>6, <1>7 DEF RunTask

\* stop() keeps the types.
LEMMA StopType ==
    ASSUME TypeOK, StopStep
    PROVE  TypeOK'
<1>0. serverQueue \in Thread /\ 0 \in Loop
  BY ChannelsAssumption DEF Thread, Loop
<1>1. CASE StopClear
  <2>1. access' \in [Thread -> Change \cup {None}]
    BY <1>0, <1>1, BeginChangeType DEF TypeOK, StopClear, NoteKind
  <2> QED
    BY <1>1, <2>1 DEF TypeOK, StopClear, connVars, loopVars, handlerVars
<1>2. CASE StopCleared
  <2>1. /\ access' \in [Thread -> Change \cup {None}]
        /\ connectedChannels' \in Table
    BY <1>0, <1>2, CommitType DEF StopCleared
  <2> QED
    BY <1>2, <2>1 DEF TypeOK, Table, StopCleared, connVars, loopVars, handlerVars
<1>3. CASE StopListening
  <2>1. tasks' \in [Loop -> Seq(Task)]
    BY <1>0, <1>3, LoopTaskType, ExecuteType DEF StopListening, TaskKind
  <2> QED
    BY <1>3, <2>1 DEF TypeOK, StopListening, connVars, tableVars, handlerVars
<1>4. CASE StopLoops
  <2>1. LoopTask("closeLoop", None) \in Task
    BY LoopTaskType DEF TaskKind
  <2>2. tasks' \in [Loop -> Seq(Task)]
    BY <1>4, <2>1 DEF TypeOK, StopLoops
  <2> QED
    BY <1>4, <2>2 DEF TypeOK, StopLoops, connVars, tableVars, handlerVars
<1>5. CASE StopReturns
  BY <1>5 DEF TypeOK, StopReturns, connVars, loopVars, tableVars, handlerVars
<1> QED
  BY <1>1, <1>2, <1>3, <1>4, <1>5 DEF StopStep

-----------------------------------------------------------------------------
(* The queues.  A task that moves a connection on is queued by Accept or   *)
(* by ReadUpgrade, once.                                                   *)

\* The queue has lost its head at most, and gained at most a task that moves
\* no connection on.
NoNewMove(q, r) ==
    \/ r = q
    \/ \E t \in Task : t.kind \notin MoveKind /\ r = Append(q, t)
    \/ q # << >> /\ r = Tail(q)
    \/ q # << >> /\ \E t \in Task : t.kind \notin MoveKind /\ r = Append(Tail(q), t)

\* Any other task can join the queue.
LEMMA AppendKeepsMoves ==
    ASSUME NEW q \in Seq(Task), NEW t \in Task, t.kind \notin MoveKind,
           NEW l, NEW st, NEW lo, MovesOf(q, l, st, lo)
    PROVE  MovesOf(Append(q, t), l, st, lo)
<1>1. /\ Len(Append(q, t)) = Len(q) + 1 /\ Len(q) \in Nat
      /\ \A i \in 1 .. Len(q) : Append(q, t)[i] = q[i]
      /\ Append(q, t)[Len(q) + 1] = t
  OBVIOUS
<1> QED
  BY <1>1 DEF MovesOf

\* The head can leave the queue.
LEMMA TailKeepsMoves ==
    ASSUME NEW q \in Seq(Task), q # << >>,
           NEW l, NEW st, NEW lo, MovesOf(q, l, st, lo)
    PROVE  MovesOf(Tail(q), l, st, lo)
<1>1. /\ Len(q) \in Nat /\ Len(Tail(q)) = Len(q) - 1
      /\ \A i \in 1 .. Len(q) - 1 : Tail(q)[i] = q[i + 1]
  OBVIOUS
<1> QED
  BY <1>1 DEF MovesOf

\* So a queue keeps its moves when none joins it.
LEMMA TurnKeepsMoves ==
    ASSUME NEW q \in Seq(Task), NEW r, NoNewMove(q, r),
           NEW l, NEW st, NEW lo, MovesOf(q, l, st, lo)
    PROVE  MovesOf(r, l, st, lo)
<1>1. ASSUME NEW t \in Task, t.kind \notin MoveKind, r = Append(q, t)
      PROVE  MovesOf(r, l, st, lo)
  BY <1>1, AppendKeepsMoves
<1>2. CASE q # << >> /\ r = Tail(q)
  BY <1>2, TailKeepsMoves
<1>3. ASSUME q # << >>, NEW t \in Task, t.kind \notin MoveKind, r = Append(Tail(q), t)
      PROVE  MovesOf(r, l, st, lo)
  <2>1. Tail(q) \in Seq(Task)
    BY <1>3
  <2>2. MovesOf(Tail(q), l, st, lo)
    BY <1>3, TailKeepsMoves
  <2> QED
    BY <1>3, <2>1, <2>2, AppendKeepsMoves
<1> QED
  BY <1>1, <1>2, <1>3 DEF NoNewMove

\* Queues that no move joins keep MoveInv, as long as no connection moves on.
LEMMA MovesKept ==
    ASSUME TypeOK, MoveInv,
           \A c \in Conn : stage[c] \in {"bare", "upgrading"}
               => stage'[c] = stage[c] /\ loopOf'[c] = loopOf[c],
           \A l \in Loop : NoNewMove(tasks[l], tasks'[l])
    PROVE  MoveInv'
<1> SUFFICES ASSUME NEW l \in Loop PROVE MovesOf(tasks'[l], l, stage', loopOf')
  BY DEF MoveInv
<1>1. tasks[l] \in Seq(Task)
  BY DEF TypeOK
<1>2. MovesOf(tasks[l], l, stage', loopOf')
  BY DEF MoveInv, MovesOf, Before
<1> QED
  BY <1>1, <1>2, TurnKeepsMoves

\* A connection that is about to move on has its task queued, once.
LEMMA MoveQueued ==
    ASSUME TypeOK, MoveInv, NEW c \in Conn, NEW k \in MoveKind, NEW m \in Loop,
           stage[c] \notin {"bare", "upgrading"},
           stage' = [stage EXCEPT ![c] = Before(k)],
           loopOf' = [loopOf EXCEPT ![c] = m],
           tasks' = Execute(m, LoopTask(k, c))
    PROVE  MoveInv'
<1> SUFFICES ASSUME NEW l \in Loop PROVE MovesOf(tasks'[l], l, stage', loopOf')
  BY DEF MoveInv
<1> DEFINE t == LoopTask(k, c)
<1>1. /\ stage'[c] = Before(k) /\ loopOf'[c] = m
      /\ \A d \in Conn \ {c} : stage'[d] = stage[d] /\ loopOf'[d] = loopOf[d]
  BY DEF TypeOK
<1>2. tasks[l] \in Seq(Task) /\ MovesOf(tasks[l], l, stage, loopOf)
  BY DEF TypeOK, MoveInv
<1>3. \A i \in 1 .. Len(tasks[l]) : tasks[l][i].kind \in MoveKind => tasks[l][i].conn # c
  BY <1>2 DEF MovesOf, Before
<1>4. MovesOf(tasks[l], l, stage', loopOf')
  BY <1>1, <1>2, <1>3 DEF MovesOf
<1>5. CASE tasks'[l] = tasks[l]
  BY <1>4, <1>5
<1>6. CASE m = l /\ tasks'[l] = Append(tasks[l], t)
  <2>1. /\ Len(tasks'[l]) = Len(tasks[l]) + 1 /\ Len(tasks[l]) \in Nat
        /\ \A i \in 1 .. Len(tasks[l]) : tasks'[l][i] = tasks[l][i]
        /\ tasks'[l][Len(tasks[l]) + 1] = t
    BY <1>2, <1>6
  <2>2. t.conn = c /\ t.kind = k /\ stage'[c] = Before(k) /\ loopOf'[c] = l
    BY <1>1, <1>6 DEF LoopTask
  <2> HIDE DEF t
  <2> DEFINE n == Len(tasks[l])
             q == tasks'[l]
             st == stage'
             lo == loopOf'
  <2>3. /\ Len(q) = n + 1 /\ n \in Nat
        /\ \A i \in 1 .. n : q[i] = tasks[l][i]
        /\ q[n + 1] = t
    BY <2>1
  <2>4. st[c] = Before(k) /\ lo[c] = l
    BY <2>2
  <2>5. MovesOf(tasks[l], l, st, lo)
    BY <1>4
  <2> HIDE DEF q, st, lo
  <2> SUFFICES MovesOf(q, l, st, lo)
    BY DEF q, st, lo
  <2> SUFFICES ASSUME NEW i \in 1 .. Len(q), q[i].kind \in MoveKind
               PROVE  /\ q[i].conn \in Conn
                      /\ st[q[i].conn] = Before(q[i].kind)
                      /\ lo[q[i].conn] = l
                      /\ \A j \in 1 .. Len(q) :
                            q[j].kind \in MoveKind /\ q[j].conn = q[i].conn => j = i
    BY DEF MovesOf
  <2>6. CASE i = n + 1
    BY <1>3, <2>2, <2>3, <2>4, <2>6
  <2>7. CASE i \in 1 .. n
    <3>1. q[i] = tasks[l][i] /\ q[i].conn # c
      BY <1>3, <2>3, <2>7
    <3>2. /\ q[i].conn \in Conn
          /\ st[q[i].conn] = Before(q[i].kind)
          /\ lo[q[i].conn] = l
          /\ \A j \in 1 .. n : tasks[l][j].kind \in MoveKind
                /\ tasks[l][j].conn = tasks[l][i].conn => j = i
      BY <2>5, <2>7, <3>1 DEF MovesOf
    <3>3. ASSUME NEW j \in 1 .. Len(q), q[j].kind \in MoveKind, q[j].conn = q[i].conn
          PROVE  j = i
      <4>1. j # n + 1
        BY <2>2, <2>3, <3>1, <3>3
      <4> QED
        BY <2>3, <3>1, <3>2, <3>3, <4>1
    <3> QED
      BY <3>2, <3>3
  <2> QED
    BY <2>3, <2>6, <2>7
<1> QED
  BY <1>2, <1>5, <1>6 DEF TypeOK, Execute

\* A connection moves on as its task leaves the queue.
LEMMA MoveTaken ==
    ASSUME TypeOK, MoveInv, NEW l \in Loop, NEW c, NEW s,
           tasks[l] # << >>, Head(tasks[l]).kind \in MoveKind, c = Head(tasks[l]).conn,
           stage' = [stage EXCEPT ![c] = s], UNCHANGED loopOf,
           \A k \in Loop \ {l} : NoNewMove(tasks[k], tasks'[k]),
           NoNewMove(Tail(tasks[l]), tasks'[l])
    PROVE  MoveInv'
<1> DEFINE q == tasks[l]
<1>1. /\ q \in Seq(Task) /\ Tail(q) \in Seq(Task) /\ Head(q) = q[1]
      /\ 1 \in 1 .. Len(q)
      /\ Len(q) \in Nat /\ Len(Tail(q)) = Len(q) - 1
      /\ \A i \in 1 .. Len(q) - 1 : Tail(q)[i] = q[i + 1]
  BY DEF TypeOK
<1>2. MovesOf(q, l, stage, loopOf)
  BY DEF MoveInv
<1>3. /\ c \in Conn /\ loopOf[c] = l
      /\ \A j \in 1 .. Len(q) : q[j].kind \in MoveKind /\ q[j].conn = c => j = 1
  BY <1>1, <1>2 DEF MovesOf
<1>4. \A d \in Conn \ {c} : stage'[d] = stage[d]
  BY DEF TypeOK
<1> SUFFICES ASSUME NEW k \in Loop PROVE MovesOf(tasks'[k], k, stage', loopOf')
  BY DEF MoveInv
<1>5. CASE k = l
  <2>1. \A i \in 1 .. Len(q) - 1 : q[i + 1].kind \in MoveKind => q[i + 1].conn # c
    BY <1>1, <1>3
  <2>2. MovesOf(Tail(q), l, stage, loopOf)
    BY <1>1, <1>2, TailKeepsMoves
  <2> HIDE DEF q
  <2>3. MovesOf(Tail(q), l, stage', loopOf')
    BY <1>1, <1>4, <2>1, <2>2 DEF MovesOf
  <2> USE DEF q
  <2> QED
    BY <1>1, <1>5, <2>3, TurnKeepsMoves
<1>6. CASE k # l
  <2>1. tasks[k] \in Seq(Task) /\ MovesOf(tasks[k], k, stage, loopOf)
    BY DEF TypeOK, MoveInv
  <2>2. \A i \in 1 .. Len(tasks[k]) :
           tasks[k][i].kind \in MoveKind => tasks[k][i].conn # c
    BY <1>3, <1>6, <2>1 DEF MovesOf
  <2>3. MovesOf(tasks[k], k, stage', loopOf')
    BY <1>4, <2>1, <2>2 DEF MovesOf
  <2> QED
    BY <1>6, <2>1, <2>3, TurnKeepsMoves
<1> QED
  BY <1>5, <1>6

\* execute, of a task that moves no connection on.
LEMMA ExecuteNoMove ==
    ASSUME TypeOK, NEW k \in Loop, NEW t \in Task, t.kind \notin MoveKind, NEW l \in Loop
    PROVE  NoNewMove(tasks[l], Execute(k, t)[l])
  BY DEF TypeOK, Execute, NoNewMove

\* Closing a channel queues no move, and a closed channel is still known.
LEMMA CloseNoMove ==
    ASSUME TypeOK, NEW c \in Conn, NEW why \in {"lost", "closed"}, Close(c, why),
           sock[c] # "none"
    PROVE  /\ \A l \in Loop : NoNewMove(tasks[l], tasks'[l])
           /\ \A d \in Conn : sock'[d] = "none" <=> sock[d] = "none"
<1>1. LoopTask("removed", c) \in Task /\ LoopTask("removed", c).kind \notin MoveKind
  BY LoopTaskType DEF TaskKind, LoopTask, MoveKind
<1>2. \A l \in Loop : NoNewMove(tasks[l], Execute(loopOf[c], LoopTask("removed", c))[l])
  BY <1>1, ExecuteNoMove DEF TypeOK
<1>3. \A l \in Loop : NoNewMove(tasks[l], tasks'[l])
  BY <1>2 DEF Close, NoNewMove
<1> QED
  BY <1>3 DEF TypeOK, Close

-----------------------------------------------------------------------------
(* The dictionary.                                                         *)

\* A dictionary stays keyed while the connections in it keep their addresses.
LEMMA KeyedKept ==
    ASSUME NEW table \in Table, NEW ad, NEW st, NEW ad2, NEW st2,
           Keyed(table, ad, st),
           \A c \in Conn : st[c] \in Upgraded => ad2[c] = ad[c] /\ st2[c] \in Upgraded
    PROVE  Keyed(table, ad2, st2)
  BY DEF Keyed, Table

\* Steps that leave the dictionary and the notifications alone, and move no
\* connection into or out of its WebSocket phase.
LEMMA QuietStep ==
    ASSUME IInv, TypeOK', Located', MoveInv',
           UNCHANGED <<access, connectedChannels, notes>>,
           \A c \in Conn : stage[c] \in Upgraded => stage'[c] \in Upgraded,
           \A c \in Conn : stage[c] \notin Upgraded => stage'[c] \notin Upgraded,
           \A c \in Conn : stage[c] \in Upgraded
               => addr'[c] = addr[c] /\ loopOf'[c] = loopOf[c]
    PROVE  IInv'
<1>1. Keyed(connectedChannels, addr', stage')
  <2>1. Keyed(connectedChannels, addr, stage) /\ connectedChannels \in Table
    BY DEF IInv, TypeOK, KeyedByAddress, Keyed, Table, Upgraded
  <2> QED
    BY <2>1, KeyedKept
<1>2. KeyedByAddress'
  BY <1>1 DEF Keyed, KeyedByAddress, Upgraded
<1>3. AccessInv'
  <2> SUFFICES ASSUME NEW t \in Thread, access[t] # None
               PROVE  /\ Keyed(access[t].seen, addr', stage')
                      /\ t \in Loop <=> access[t].conn # None
                      /\ t \in Loop => loopOf'[access[t].conn] = t
                      /\ t \in Loop => stage'[access[t].conn] \in Upgraded
    BY DEF AccessInv
  <2>1. access[t].seen \in Table /\ access[t].conn \in Conn \cup {None}
    BY DEF IInv, TypeOK, Change, Table
  <2>2. Keyed(access[t].seen, addr', stage')
    BY <2>1, KeyedKept DEF IInv, AccessInv
  <2> QED
    BY <2>1, <2>2 DEF IInv, AccessInv
<1>4. NotesInv'
  BY DEF IInv, NotesInv, Connecting
<1>5. ConnectFirst'
  BY DEF IInv, ConnectFirst
<1> QED
  BY <1>2, <1>3, <1>4, <1>5 DEF IInv

\* What a thread saw of a keyed dictionary, and holds while connections enter
\* their WebSocket phase, stays keyed.
LEMMA SeenKept ==
    ASSUME IInv, UNCHANGED addr,
           \A c \in Conn : stage[c] \in Upgraded => stage'[c] \in Upgraded
    PROVE  /\ Keyed(connectedChannels, addr', stage')
           /\ \A t \in Thread : access[t] # None => Keyed(access[t].seen, addr', stage')
<1>1. Keyed(connectedChannels, addr, stage) /\ connectedChannels \in Table
  BY DEF IInv, TypeOK, KeyedByAddress, Keyed, Table, Upgraded
<1>2. \A t \in Thread : access[t] # None =>
         access[t].seen \in Table /\ Keyed(access[t].seen, addr, stage)
  BY DEF IInv, TypeOK, AccessInv, Change, Table
<1> QED
  BY <1>1, <1>2, KeyedKept

\* An event loop begins to change the entry of one of its connections: of one
\* that has just been upgraded to cache it, of one upgraded before to clear it.
LEMMA BeginStep ==
    ASSUME IInv, TypeOK', Located', MoveInv',
           NEW l \in Loop, NEW c \in Conn, NEW k \in NoteKind,
           access[l] = None, loopOf[c] = l, BeginChange(l, c, k),
           UNCHANGED <<connectedChannels, notes, addr, loopOf>>,
           stage'[c] \in Upgraded,
           \A d \in Conn : stage[d] \in Upgraded => stage'[d] \in Upgraded,
           \A d \in Conn \ {c} : stage[d] \notin Upgraded => stage'[d] \notin Upgraded,
           k = "connect" <=> stage[c] \notin Upgraded
    PROVE  IInv'
<1> DEFINE new == [conn |-> c, note |-> k, seen |-> connectedChannels]
<1>1. /\ Keyed(connectedChannels, addr', stage')
      /\ \A t \in Thread : access[t] # None => Keyed(access[t].seen, addr', stage')
  BY SeenKept
<1>0. new # None
  BY ConnectedChannelsAssumption DEF IInv, TypeOK, Change
<1>2. /\ l \in Thread /\ c # None
      /\ access' = [access EXCEPT ![l] = new]
      /\ access'[l] = new
      /\ \A t \in Thread \ {l} : access'[t] = access[t]
  BY ChannelsAssumption DEF IInv, TypeOK, BeginChange, Thread
<1>3. KeyedByAddress'
  BY <1>1 DEF Keyed, KeyedByAddress, Upgraded
<1>4. AccessInv'
  <2> SUFFICES ASSUME NEW t \in Thread, access'[t] # None
               PROVE  /\ Keyed(access'[t].seen, addr', stage')
                      /\ t \in Loop <=> access'[t].conn # None
                      /\ t \in Loop => loopOf'[access'[t].conn] = t
                      /\ t \in Loop => stage'[access'[t].conn] \in Upgraded
    BY DEF AccessInv
  <2>1. CASE t = l
    BY <1>1, <1>2, <2>1
  <2>2. CASE t # l
    <3>1. /\ access'[t] = access[t] /\ access[t] \in Change
          /\ access[t].conn \in Conn \cup {None}
      BY <1>2, <2>2 DEF IInv, TypeOK, Change
    <3> QED
      BY <1>1, <3>1 DEF IInv, AccessInv
  <2> QED
    BY <2>1, <2>2
<1>5. NotesInv'
  <2> SUFFICES ASSUME NEW d \in Conn
               PROVE  notes[d] # << >> <=> stage'[d] \in Upgraded /\ ~Connecting(d)'
    BY DEF NotesInv
  <2>1. notes[d] # << >> <=> stage[d] \in Upgraded /\ ~Connecting(d)
    BY DEF IInv, NotesInv
  <2>2. loopOf'[d] = loopOf[d] /\ loopOf[d] \in Loop /\ loopOf[d] \in Thread
    BY DEF IInv, TypeOK, Thread
  <2>3. CASE d = c
    <3>1. Connecting(c)' <=> k = "connect"
      BY <1>0, <1>2, <2>2, <2>3 DEF Connecting
    <3>2. ~Connecting(c)
      BY DEF Connecting
    <3> QED
      BY <2>1, <2>3, <3>1, <3>2
  <2>4. CASE d # c
    <3>1. Connecting(d)' <=> Connecting(d)
      BY <1>2, <2>2, <2>4 DEF Connecting
    <3> QED
      BY <2>1, <2>4, <3>1
  <2> QED
    BY <2>3, <2>4
<1>6. ConnectFirst'
  BY DEF IInv, ConnectFirst
<1> QED
  BY <1>3, <1>4, <1>5, <1>6 DEF IInv

-----------------------------------------------------------------------------
(* The inductive invariant, action by action.                              *)

\* The invariant holds initially.
LEMMA InitIInv == Init => IInv
<1> SUFFICES ASSUME Init PROVE IInv
  OBVIOUS
<1>1. TypeOK
  BY InitType
<1>2. Located /\ KeyedByAddress /\ AccessInv
  BY DEF Init, Located, KeyedByAddress, AccessInv, EmptyTable
<1>3. MoveInv /\ NotesInv /\ ConnectFirst
  BY DEF Init, MoveInv, MovesOf, NotesInv, ConnectFirst, Upgraded
<1> QED
  BY <1>1, <1>2, <1>3 DEF IInv

\* Accepting a connection keeps the invariant: its address may be that of an
\* earlier connection, and is not an entry's until it is upgraded.
LEMMA AcceptIInv ==
    ASSUME IInv, NEW c \in Conn, NEW a \in Addr, Accept(c, a),
           UNCHANGED <<awaitingClose, frames, stopPc>>
    PROVE  IInv'
<1>1. TypeOK /\ Located /\ MoveInv
  BY DEF IInv
<1>2. TypeOK'
  BY <1>1, AcceptType
<1>3. stage[c] = "none"
  BY <1>1 DEF Accept, Located
<1>4. Located'
  BY <1>1 DEF TypeOK, Located, Accept
<1>5. MoveInv'
  <2>0. nextLoop \in Loop /\ loopOf' = [loopOf EXCEPT ![c] = nextLoop]
    BY <1>1 DEF TypeOK, Accept
  <2>1. CASE nextLoop = 0
    <3>1. LoopTask("register", c) \in Task /\ LoopTask("register", c).kind \notin MoveKind
      BY LoopTaskType DEF TaskKind, LoopTask, MoveKind
    <3>2. \A l \in Loop : NoNewMove(tasks[l], tasks'[l])
      BY <1>1, <2>0, <2>1, <3>1, ExecuteNoMove DEF Accept
    <3>3. stage' = [stage EXCEPT ![c] = "http"]
      BY <2>1 DEF Accept
    <3> QED
      BY <1>1, <1>3, <2>0, <3>2, <3>3, MovesKept DEF TypeOK
  <2>2. CASE nextLoop # 0
    <3>1. /\ stage' = [stage EXCEPT ![c] = "bare"]
          /\ tasks' = Execute(nextLoop, LoopTask("setup", c))
      BY <2>2 DEF Accept
    <3>2. "setup" \in MoveKind /\ Before("setup") = "bare"
      BY DEF MoveKind, Before
    <3> QED
      BY <1>1, <1>3, <2>0, <3>1, <3>2, MoveQueued
  <2> QED
    BY <2>1, <2>2
<1>6. /\ stage'[c] \notin Upgraded
      /\ \A d \in Conn \ {c} : UNCHANGED <<stage[d], addr[d], loopOf[d]>>
      /\ UNCHANGED <<access, connectedChannels, notes>>
  BY <1>1 DEF TypeOK, Accept, tableVars, Upgraded
<1> QED
  BY <1>2, <1>3, <1>4, <1>5, <1>6, QuietStep DEF Upgraded

\* Bringing the connection in keeps the invariant: its initializer runs once,
\* and what is handed from loop to loop moves it no further.
LEMMA AdmitIInv ==
    ASSUME IInv, NEW l \in Loop, Admit(l), UNCHANGED <<awaitingClose, frames, stopPc>>
    PROVE  IInv'
<1> DEFINE c == Head(tasks[l]).conn
<1>1. TypeOK /\ TypeOK' /\ Located /\ MoveInv
  BY AdmitType DEF IInv
<1>2. /\ UNCHANGED <<addr, loopOf, access, connectedChannels, notes>>
      /\ tasks[l] # << >> /\ tasks[l] \in Seq(Task) /\ Head(tasks[l]) \in Task
  BY <1>1 DEF TypeOK, Admit, Setup, Accepted, Register, Refuse, HeadIs, connVars, tableVars
<1>3. \A k \in {"accepted", "register", "refuse", "removed"} :
         LoopTask(k, c) \in Task /\ LoopTask(k, c).kind \notin MoveKind
  <2>1. c \in Conn \cup {None}
    BY <1>2 DEF Task
  <2> QED
    BY <2>1, LoopTaskType DEF TaskKind, LoopTask, MoveKind
<1> HIDE DEF c
<1>4. ASSUME NEW m, NEW k \in {"accepted", "register", "refuse", "removed"},
             HandOver(l, m, LoopTask(k, c))
      PROVE  /\ \A n \in Loop : NoNewMove(tasks[n], tasks'[n])
             /\ NoNewMove(Tail(tasks[l]), tasks'[l])
  <2> DEFINE t == LoopTask(k, c)
  <2>0. t \in Task /\ t.kind \notin MoveKind /\ HandOver(l, m, t)
    BY <1>3, <1>4
  <2> HIDE DEF t
  <2>3. ASSUME NEW n \in Loop
        PROVE  IF n = l
               THEN tasks'[n] = Tail(tasks[n]) \/ tasks'[n] = Append(Tail(tasks[n]), t)
               ELSE tasks'[n] = tasks[n] \/ tasks'[n] = Append(tasks[n], t)
    BY <1>1, <1>2, <2>0, HandOverEffect
  <2>1. ASSUME NEW n \in Loop PROVE NoNewMove(tasks[n], tasks'[n])
    BY <1>2, <2>0, <2>3 DEF NoNewMove
  <2>2. NoNewMove(Tail(tasks[l]), tasks'[l])
    BY <2>0, <2>3 DEF NoNewMove
  <2> QED
    BY <2>1, <2>2
<1>5. CASE Setup(l)
  <2>1. /\ Head(tasks[l]).kind = "setup" /\ UNCHANGED sock
        /\ stage' = [stage EXCEPT ![c] = "http"]
        /\ HandOver(l, 0, LoopTask("accepted", c))
    BY <1>5 DEF Setup, HeadIs, c
  <2>2. c \in Conn /\ stage[c] = "bare"
    <3>1. tasks[l][1] = Head(tasks[l]) /\ 1 \in 1 .. Len(tasks[l])
      BY <1>2
    <3> QED
      BY <1>1, <2>1, <3>1 DEF MoveInv, MovesOf, MoveKind, Before, c
  <2>3. MoveInv'
    BY <1>1, <1>2, <1>4, <2>1, MoveTaken DEF MoveKind, c
  <2>4. Located'
    BY <1>1, <1>2, <2>1, <2>2 DEF TypeOK, Located
  <2>5. /\ stage'[c] \notin Upgraded /\ stage[c] \notin Upgraded
        /\ \A d \in Conn \ {c} : stage'[d] = stage[d]
    BY <1>1, <2>1, <2>2 DEF TypeOK, Upgraded
  <2> QED
    BY <1>1, <1>2, <2>3, <2>4, <2>5, QuietStep
<1>6. CASE Accepted(l) \/ Register(l) \/ Refuse(l)
  <2>1. UNCHANGED stage
    BY <1>6 DEF Accepted, Register, Refuse, connVars
  <2>2. \A n \in Loop : NoNewMove(tasks[n], tasks'[n])
    <3>1. CASE Accepted(l) \/ Refuse(l)
      BY <1>4, <3>1 DEF Accepted, Refuse, c
    <3>2. CASE Register(l)
      BY <1>1, <1>2, <3>2 DEF TypeOK, Register, TaskDone, NoNewMove
    <3> QED
      BY <1>6, <3>1, <3>2
  <2>3. \A d \in Conn : sock'[d] = "none" <=> sock[d] = "none"
    BY <1>1, <1>6 DEF TypeOK, Accepted, Register, Refuse, connVars
  <2>4. Located' /\ MoveInv'
    BY <1>1, <1>2, <2>1, <2>2, <2>3, MovesKept DEF Located
  <2> QED
    BY <1>1, <1>2, <2>1, <2>4, QuietStep
<1> QED
  BY <1>5, <1>6 DEF Admit

\* Reading a request keeps the invariant: the upgrade it may queue is the
\* connection's only one.
LEMMA RequestIInv ==
    ASSUME IInv, NEW c \in Conn, Request(c), UNCHANGED <<awaitingClose, frames, stopPc>>
    PROVE  IInv'
<1>1. TypeOK /\ Located /\ MoveInv /\ stage[c] = "http"
  BY DEF IInv, Request, ReadUpgrade, ReadGet, ReadOther, ReadsRequest
<1>2. TypeOK'
  BY <1>1, RequestType
<1>3. UNCHANGED <<sock, addr, loopOf, access, connectedChannels, notes>>
  BY DEF Request, ReadUpgrade, ReadGet, ReadOther, tableVars
<1>4. \/ UNCHANGED stage
      \/ stage' = [stage EXCEPT ![c] = "upgrading"]
      \/ stage' = [stage EXCEPT ![c] = "answered"]
  BY DEF Request, ReadUpgrade, ReadGet, ReadOther
<1>5. Located'
  BY <1>1, <1>3, <1>4 DEF TypeOK, Located
<1>6. MoveInv'
  <2>1. CASE UNCHANGED tasks
    <3>1. \A l \in Loop : NoNewMove(tasks[l], tasks'[l])
      BY <2>1 DEF NoNewMove
    <3> QED
      BY <1>1, <1>3, <1>4, <3>1, MovesKept DEF TypeOK
  <2>2. CASE ReadUpgrade(c)
    <3>1. /\ stage' = [stage EXCEPT ![c] = "upgrading"]
          /\ loopOf' = [loopOf EXCEPT ![c] = loopOf[c]] /\ loopOf[c] \in Loop
          /\ tasks' = Execute(loopOf[c], LoopTask("upgrade", c))
      BY <1>1, <2>2 DEF TypeOK, ReadUpgrade
    <3>2. "upgrade" \in MoveKind /\ Before("upgrade") = "upgrading"
      BY DEF MoveKind, Before
    <3> QED
      BY <1>1, <3>1, <3>2, MoveQueued
  <2> QED
    BY <2>1, <2>2 DEF Request, ReadGet, ReadOther, loopVars
<1>7. /\ \A d \in Conn : stage[d] \in Upgraded => stage'[d] \in Upgraded
      /\ \A d \in Conn : stage[d] \notin Upgraded => stage'[d] \notin Upgraded
  BY <1>1, <1>4 DEF TypeOK, Upgraded
<1> QED
  BY <1>2, <1>3, <1>5, <1>6, <1>7, QuietStep

\* A text keeps the invariant: its notification follows a connect, because
\* the loop that reads it has no connect in hand.
LEMMA ReadTextIInv ==
    ASSUME IInv, NEW c \in Conn, ReadText(c), UNCHANGED <<responseBody, stopPc>>
    PROVE  IInv'
<1>1. TypeOK /\ Located /\ MoveInv
  BY DEF IInv
<1>2. TypeOK'
  BY <1>1, FrameType DEF Frame
<1>3. UNCHANGED <<sock, stage, addr, loopOf, access, connectedChannels>>
  BY DEF ReadText, connVars
<1>4. /\ notes' = [notes EXCEPT ![c] = Append(@, Note("text", ThisFrame(c)))]
      /\ notes[c] # << >>
  BY DEF IInv, NotesInv, ReadText, ReadsFrame, Connecting, Upgraded
<1>5. MoveInv'
  <2>1. addr[c] \in Addr /\ loopOf[c] \in Thread
    BY <1>1 DEF TypeOK, Located, ReadText, ReadsFrame, Thread
  <2>2. ASSUME NEW d \in Lookup(loopOf[c], addr[c])
        PROVE  d \in Conn \cup {None}
    <3>1. connectedChannels[addr[c]] \in Conn \cup {None}
      BY <1>1, <2>1 DEF TypeOK
    <3>2. \A u \in Thread : access[u] # None =>
             Changed(connectedChannels, access[u])[addr[c]] \in Conn \cup {None}
      <4>1. \A u \in Thread : access[u] # None =>
               Changed(connectedChannels, access[u]) \in Table
        BY <1>1, ChangedType DEF TypeOK, Table
      <4> QED
        BY <2>1, <4>1 DEF Table
    <3> QED
      BY <2>2, <3>1, <3>2 DEF Lookup
  <2>3. \A l \in Loop : NoNewMove(tasks[l], tasks'[l])
    <3>1. PICK d \in Lookup(loopOf[c], addr[c]) :
             tasks' = IF d = None THEN tasks
                      ELSE Execute(loopOf[d], SendTask(d, c, ThisFrame(c)))
      BY DEF ReadText
    <3>2. CASE d = None
      BY <3>1, <3>2 DEF NoNewMove
    <3>3. CASE d # None
      <4>1. d \in Conn
        BY <2>2, <3>3
      <4>2. /\ SendTask(d, c, ThisFrame(c)) \in Task
            /\ SendTask(d, c, ThisFrame(c)).kind \notin MoveKind
        BY <1>1, <4>1 DEF TypeOK, SendTask, Task, ThisFrame, MoveKind
      <4> QED
        BY <1>1, <3>1, <3>3, <4>1, <4>2, ExecuteNoMove DEF TypeOK
    <3> QED
      BY <3>2, <3>3
  <2> QED
    BY <1>1, <1>3, <2>3, MovesKept
<1>6. Located' /\ KeyedByAddress' /\ AccessInv'
  BY <1>3 DEF IInv, Located, KeyedByAddress, AccessInv
<1>7. notes[c] \in Seq(Notification)
  BY <1>1 DEF TypeOK
<1>8. NotesInv'
  <2>1. Append(notes[c], Note("text", ThisFrame(c))) # << >>
    BY <1>7
  <2>2. \A d \in Conn : notes'[d] # << >> <=> notes[d] # << >>
    BY <1>1, <1>4, <2>1 DEF TypeOK
  <2> QED
    BY <1>3, <2>2 DEF IInv, NotesInv, Connecting
<1>9. ConnectFirst'
  <2> DEFINE n == Len(notes[c])
  <2>1. /\ n \in Nat /\ n # 0 /\ DOMAIN notes[c] = 1 .. n
        /\ DOMAIN notes'[c] = 1 .. n + 1
        /\ \A i \in 1 .. n : notes'[c][i] = notes[c][i]
        /\ notes'[c][n + 1].kind = "text"
    BY <1>1, <1>4, <1>7 DEF TypeOK, Note
  <2>2. \A d \in Conn \ {c} : notes'[d] = notes[d]
    BY <1>1, <1>4 DEF TypeOK
  <2> QED
    BY <2>1, <2>2 DEF IInv, ConnectFirst
<1> QED
  BY <1>2, <1>5, <1>6, <1>8, <1>9 DEF IInv

\* Frames keep the invariant.
LEMMA FrameIInv ==
    ASSUME IInv, NEW c \in Conn, Frame(c), UNCHANGED <<responseBody, stopPc>>
    PROVE  IInv'
<1>1. TypeOK /\ Located /\ MoveInv
  BY DEF IInv
<1>2. TypeOK'
  BY <1>1, FrameType
<1>3. /\ stage[c] = "websocket" /\ sock[c] # "none"
      /\ access[loopOf[c]] = None /\ loopOf[c] \in Loop
  BY <1>1 DEF TypeOK, Located, Frame, ReadText, ReadPing, ReadClose, ReadReserved,
              ReadInvalid, ReadsFrame
<1>4. CASE ReadText(c)
  BY <1>4, ReadTextIInv
<1>5. CASE ReadPing(c)
  <2>1. Located'
    BY <1>1, <1>5 DEF Located, ReadPing
  <2>2. MoveInv'
    BY <1>1, <1>5 DEF MoveInv, ReadPing
  <2> QED
    BY <1>2, <1>5, <2>1, <2>2, QuietStep DEF ReadPing, tableVars
<1>6. CASE ReadClose(c)
  <2>1. /\ \A l \in Loop : NoNewMove(tasks[l], tasks'[l])
        /\ \A d \in Conn : sock'[d] = "none" <=> sock[d] = "none"
    <3>1. CASE Close(c, "closed")
      BY <1>1, <1>3, <3>1, CloseNoMove
    <3>2. CASE UNCHANGED <<sock, tasks>>
      BY <3>2 DEF NoNewMove
    <3> QED
      BY <1>6, <3>1, <3>2 DEF ReadClose
  <2>2. Located'
    BY <1>1, <1>6, <2>1 DEF Located, ReadClose
  <2>3. MoveInv'
    BY <1>1, <1>6, <2>1, MovesKept DEF ReadClose
  <2> QED
    BY <1>2, <1>3, <1>6, <2>2, <2>3, BeginStep DEF ReadClose, NoteKind, Upgraded
<1>7. CASE ReadReserved(c)
  <2>1. Located'
    BY <1>1, <1>7 DEF Located, ReadReserved
  <2>2. MoveInv'
    BY <1>1, <1>7 DEF MoveInv, ReadReserved
  <2> QED
    BY <1>2, <1>3, <1>7, <2>1, <2>2, BeginStep DEF ReadReserved, NoteKind, Upgraded
<1>8. CASE ReadInvalid(c)
  <2>1. /\ \A l \in Loop : NoNewMove(tasks[l], tasks'[l])
        /\ \A d \in Conn : sock'[d] = "none" <=> sock[d] = "none"
    <3>1. CASE Close(c, "closed")
      BY <1>1, <1>3, <3>1, CloseNoMove
    <3>2. CASE UNCHANGED <<sock, tasks>>
      BY <3>2 DEF NoNewMove
    <3> QED
      BY <1>8, <3>1, <3>2 DEF ReadInvalid
  <2>2. /\ stage' = [stage EXCEPT ![c] = "failed"]
        /\ UNCHANGED <<addr, loopOf, access, connectedChannels, notes>>
    BY <1>8 DEF ReadInvalid, tableVars
  <2>3. Located'
    BY <1>1, <1>3, <2>1, <2>2 DEF TypeOK, Located
  <2>4. MoveInv'
    BY <1>1, <1>3, <2>1, <2>2, MovesKept DEF TypeOK
  <2>5. /\ \A d \in Conn : stage[d] \in Upgraded => stage'[d] \in Upgraded
        /\ \A d \in Conn : stage[d] \notin Upgraded => stage'[d] \notin Upgraded
    BY <1>1, <1>3, <2>2 DEF TypeOK, Upgraded
  <2> QED
    BY <1>2, <2>2, <2>3, <2>4, <2>5, QuietStep
<1> QED
  BY <1>4, <1>5, <1>6, <1>7, <1>8 DEF Frame

\* Whatever a lookup finds in the midst of changes has the address and has been
\* upgraded.
LEMMA LookupKeyed ==
    ASSUME IInv, NEW t \in Thread, NEW a \in Addr, NEW d \in Lookup(t, a), d # None
    PROVE  d \in Conn /\ addr[d] = a /\ stage[d] \in Upgraded
<1>0. TypeOK /\ Keyed(connectedChannels, addr, stage)
  BY DEF IInv, KeyedByAddress, Keyed, Upgraded
<1>1. CASE d = connectedChannels[a]
  BY <1>0, <1>1 DEF TypeOK, Keyed
<1>2. ASSUME NEW u \in Thread, access[u] # None,
             d = Changed(connectedChannels, access[u])[a]
      PROVE  d \in Conn /\ addr[d] = a /\ stage[d] \in Upgraded
  <2> DEFINE c == access[u].conn
  <2>1. access[u] \in Change /\ c # None
    BY <1>0, <1>2 DEF TypeOK, Changed, EmptyTable
  <2>2. c \in Conn /\ stage[c] \in Upgraded
    BY <1>2, <2>1 DEF IInv, AccessInv, Change
  <2>3. Changed(connectedChannels, access[u]) =
           [connectedChannels EXCEPT ![addr[c]] =
               IF access[u].note = "connect" THEN c ELSE None]
    BY <2>1 DEF Changed
  <2> HIDE DEF c
  <2>4. d = IF a = addr[c] THEN IF access[u].note = "connect" THEN c ELSE None
            ELSE connectedChannels[a]
    BY <1>0, <1>2, <2>3 DEF TypeOK
  <2> QED
    BY <1>1, <2>2, <2>4
<1> QED
  BY <1>1, <1>2 DEF Lookup

\* A commit leaves the dictionary keyed, on whichever contents it is based.
LEMMA CommitKeyed ==
    ASSUME IInv, NEW t \in Thread, Commit(t)
    PROVE  Keyed(connectedChannels', addr, stage)
<1>1. /\ access[t] \in Change /\ access[t] # None
      /\ Keyed(access[t].seen, addr, stage) /\ access[t].seen \in Table
  BY DEF IInv, TypeOK, AccessInv, Commit, Change, Table
<1>2. Keyed(connectedChannels, addr, stage) /\ connectedChannels \in Table
  BY DEF IInv, TypeOK, KeyedByAddress, Keyed, Table, Upgraded
<1>3. PICK base \in {connectedChannels, access[t].seen} :
         connectedChannels' = Changed(base, access[t])
  BY DEF Commit
<1>4. Keyed(base, addr, stage) /\ base \in Table
  BY <1>1, <1>2, <1>3
<1>5. CASE access[t].conn = None
  BY <1>3, <1>5 DEF Changed, EmptyTable, Keyed
<1>6. CASE access[t].conn # None
  <2> DEFINE c == access[t].conn
  <2>1. t \in Loop /\ c \in Conn /\ stage[c] \in Upgraded
    BY <1>1, <1>6 DEF IInv, AccessInv, Change
  <2>2. addr[c] \in Addr
    BY <2>1 DEF IInv, Located, Upgraded
  <2>3. connectedChannels' = [base EXCEPT ![addr[c]] =
                                 IF access[t].note = "connect" THEN c ELSE None]
    BY <1>3, <1>6 DEF Changed
  <2> HIDE DEF c
  <2> QED
    BY <1>4, <2>1, <2>2, <2>3 DEF Keyed, Table
<1> QED
  BY <1>5, <1>6

\* Once a change is committed, the other threads' changes are as they were.
LEMMA CommitAccess ==
    ASSUME IInv, NEW t \in Thread, Commit(t), UNCHANGED <<addr, stage, loopOf>>
    PROVE  AccessInv'
<1>1. \A u \in Thread : access'[u] # None => access'[u] = access[u]
  BY DEF IInv, TypeOK, Commit
<1> QED
  BY <1>1 DEF IInv, AccessInv

\* Ending a change on an event loop keeps the invariant: the dictionary stays
\* keyed on either base, and the notification is the first if and only if it is
\* a connect.
LEMMA EndChangeIInv ==
    ASSUME IInv, NEW l \in Loop, EndChange(l),
           UNCHANGED <<connVars, loopVars, trap, handlerVars, stopPc>>
    PROVE  IInv'
<1> DEFINE c == access[l].conn
           k == access[l].note
           n == Len(notes[c])
<1>1. /\ l \in Thread /\ TypeOK /\ AccessInv /\ Commit(l)
      /\ UNCHANGED <<sock, stage, addr, loopOf, tasks>>
  BY DEF IInv, Thread, EndChange, connVars, loopVars
<1>2. TypeOK'
  BY <1>1, EndChangeType
<1>3. /\ access[l] # None /\ c \in Conn /\ k \in NoteKind
      /\ loopOf[c] = l /\ stage[c] \in Upgraded
  BY <1>1 DEF TypeOK, AccessInv, Commit, Change
<1>4. Located' /\ MoveInv'
  BY <1>1 DEF IInv, Located, MoveInv
<1>5. KeyedByAddress'
  BY <1>1, CommitKeyed DEF Keyed, KeyedByAddress, Upgraded
<1>6. AccessInv'
  BY <1>1, CommitAccess
<1>7. /\ notes[c] \in Seq(Notification) /\ n \in Nat
      /\ notes'[c] = Append(notes[c], Note(k, 0))
      /\ \A d \in Conn \ {c} : notes'[d] = notes[d]
  BY <1>1, <1>3 DEF TypeOK, EndChange
<1>8. /\ DOMAIN notes[c] = 1 .. n /\ DOMAIN notes'[c] = 1 .. n + 1
      /\ \A i \in 1 .. n : notes'[c][i] = notes[c][i]
      /\ notes'[c][n + 1].kind = k /\ notes'[c] # << >>
      /\ n = 0 <=> notes[c] = << >>
  BY <1>7 DEF Note
<1>9. notes[c] # << >> <=> k # "connect"
  BY <1>3 DEF IInv, NotesInv, Connecting
<1>10. NotesInv'
  <2>1. /\ access'[l] = None
        /\ \A u \in Thread \ {l} : access'[u] = access[u]
    BY <1>1 DEF TypeOK, Commit
  <2> SUFFICES ASSUME NEW d \in Conn
               PROVE  notes'[d] # << >> <=> stage[d] \in Upgraded /\ ~Connecting(d)'
    BY <1>1 DEF NotesInv
  <2>2. CASE d = c
    BY <1>1, <1>3, <1>8, <2>1, <2>2 DEF Connecting
  <2>3. CASE d # c
    <3>1. Connecting(d)' <=> Connecting(d)
      BY <1>1, <2>1, <2>3 DEF TypeOK, Thread, Connecting
    <3> QED
      BY <1>7, <2>3, <3>1 DEF IInv, NotesInv
  <2> QED
    BY <2>2, <2>3
<1>11. ConnectFirst'
  <2>1. \A i \in 1 .. n : notes[c][i].kind = "connect" <=> i = 1
    BY <1>3, <1>8 DEF IInv, ConnectFirst
  <2>2. \A i \in DOMAIN notes'[c] : notes'[c][i].kind = "connect" <=> i = 1
    <3> HIDE DEF c, k, n
    <3> SUFFICES ASSUME NEW i \in 1 .. n + 1
                 PROVE  notes'[c][i].kind = "connect" <=> i = 1
      BY <1>8
    <3>1. CASE i \in 1 .. n
      BY <1>8, <2>1, <3>1
    <3>2. CASE i = n + 1
      <4>1. notes'[c][i].kind = k
        BY <1>8, <3>2
      <4>2. n = 0 <=> k = "connect"
        BY <1>8, <1>9
      <4>3. i = 1 <=> n = 0
        BY <1>7, <3>2
      <4> QED
        BY <4>1, <4>2, <4>3
    <3>3. i \in 1 .. n \/ i = n + 1
      BY <1>7
    <3> QED
      BY <3>1, <3>2, <3>3
  <2>3. ConnectFirst
    BY DEF IInv
  <2> HIDE DEF c, k, n, IInv
  <2> SUFFICES ASSUME NEW d \in Conn
               PROVE  \A i \in DOMAIN notes'[d] : notes'[d][i].kind = "connect" <=> i = 1
    BY DEF ConnectFirst
  <2>4. CASE d = c
    BY <2>2, <2>4
  <2>5. CASE d # c
    <3>1. notes'[d] = notes[d]
      BY <1>7, <2>5
    <3> QED
      BY <2>3, <3>1 DEF ConnectFirst
  <2> QED
    BY <2>4, <2>5
<1> QED
  BY <1>2, <1>4, <1>5, <1>6, <1>10, <1>11 DEF IInv

\* The end of a batch changes nothing the invariant is about.
LEMMA ReadCompleteIInv ==
    ASSUME IInv, NEW l \in Loop, ReadComplete(l), UNCHANGED <<responseBody, stopPc>>
    PROVE  IInv'
<1>1. UNCHANGED <<sock, stage, addr, loopOf, tasks, connectedChannels, access, notes>>
  BY DEF ReadComplete, connVars, tableVars
<1>2. TypeOK'
  BY ReadCompleteType DEF IInv
<1>3. Located' /\ MoveInv'
  BY <1>1 DEF IInv, Located, MoveInv
<1> QED
  BY <1>1, <1>2, <1>3, QuietStep

\* A socket that takes messages, or goes away, leaves every connection known
\* and queues no upgrade.
LEMMA SocketStepIInv ==
    ASSUME IInv, TypeOK', NEW c \in Conn, sock[c] # "none",
           UNCHANGED <<stage, addr, loopOf, connectedChannels, access, notes>>,
           \/ \E why \in {"lost", "closed"} : Close(c, why)
           \/ sock' = [sock EXCEPT ![c] = "half"] /\ UNCHANGED tasks
           \/ UNCHANGED <<sock, tasks>>
    PROVE  IInv'
<1>1. TypeOK /\ MoveInv
  BY DEF IInv
<1>2. /\ \A l \in Loop : NoNewMove(tasks[l], tasks'[l])
      /\ \A d \in Conn : sock'[d] = "none" <=> sock[d] = "none"
  <2>1. ASSUME NEW why \in {"lost", "closed"}, Close(c, why)
        PROVE  /\ \A l \in Loop : NoNewMove(tasks[l], tasks'[l])
               /\ \A d \in Conn : sock'[d] = "none" <=> sock[d] = "none"
    BY <1>1, <2>1, CloseNoMove
  <2>2. CASE UNCHANGED tasks
    BY <1>1, <2>1, <2>2 DEF TypeOK, NoNewMove
  <2> QED
    BY <2>1, <2>2
<1>3. Located'
  BY <1>2 DEF IInv, Located
<1>4. MoveInv'
  BY <1>1, <1>2, MovesKept
<1> QED
  BY <1>3, <1>4, QuietStep

\* Writes, completions and lost peers keep the invariant.
LEMMA SocketIInv ==
    ASSUME IInv, NEW c \in Conn, Writable(c) \/ Lost(c)
    PROVE  IInv'
<1>1. TypeOK' /\ sock[c] # "none"
  BY WritableType, LostType DEF IInv, Writable, Lost, IsActive
<1>2. UNCHANGED <<stage, addr, loopOf, connectedChannels, access, notes>>
  BY DEF Writable, Lost, tableVars
<1>3. \/ \E why \in {"lost", "closed"} : Close(c, why)
      \/ sock' = [sock EXCEPT ![c] = "half"] /\ UNCHANGED tasks
      \/ UNCHANGED <<sock, tasks>>
  BY DEF Writable, Written, Lost
<1> QED
  BY <1>1, <1>2, <1>3, SocketStepIInv

\* An upgrade finishes: the connection enters its WebSocket phase, and its
\* loop begins to cache it.
LEMMA FinishUpgradeIInv ==
    ASSUME IInv, NEW l \in Loop, FinishUpgrade(l),
           UNCHANGED <<awaitingClose, frames, stopPc>>
    PROVE  IInv'
<1> DEFINE c == Head(tasks[l]).conn
           q == tasks[l]
<1>1. TypeOK /\ MoveInv /\ TypeOK'
  BY RunTaskType DEF IInv, RunTask
<1>2. /\ q \in Seq(Task) /\ q # << >> /\ Head(q) = q[1] /\ q[1].kind = "upgrade"
      /\ Len(q) \in Nat /\ 1 \in 1 .. Len(q)
      /\ tasks' = [tasks EXCEPT ![l] = Tail(q)]
  BY <1>1 DEF TypeOK, FinishUpgrade, HeadIs, TaskDone
<1>3. /\ c \in Conn /\ stage[c] = "upgrading" /\ loopOf[c] = l
  BY <1>1, <1>2 DEF MoveInv, MovesOf, MoveKind, Before
<1>4. CASE ~IsActive(c)
  <2>1. UNCHANGED <<sock, stage, addr, loopOf, connectedChannels, access, notes>>
    BY <1>4 DEF FinishUpgrade
  <2>2. \A k \in Loop : NoNewMove(tasks[k], tasks'[k])
    BY <1>1, <1>2 DEF TypeOK, NoNewMove
  <2>3. Located' /\ MoveInv'
    BY <1>1, <2>1, <2>2, MovesKept DEF IInv, Located
  <2> QED
    BY <1>1, <2>1, <2>3, QuietStep
<1>5. CASE IsActive(c)
  <2>1. /\ UNCHANGED <<sock, addr, loopOf, connectedChannels, notes>>
        /\ stage' = [stage EXCEPT ![c] = "websocket"]
        /\ BeginChange(l, c, "connect")
        /\ access[l] = None
    BY <1>5 DEF FinishUpgrade, Idle
  <2>4. /\ stage'[c] \in Upgraded /\ stage[c] \notin Upgraded
        /\ \A d \in Conn \ {c} : stage'[d] = stage[d]
    BY <1>1, <1>3, <2>1 DEF TypeOK, Upgraded
  <2> HIDE DEF c
  <2>2. Located'
    <3>1. Located /\ stage'[c] # "none"
      BY <2>4 DEF IInv, Upgraded
    <3> QED
      BY <1>3, <2>1, <2>4, <3>1 DEF Located
  <2>3. MoveInv'
    <3>1. /\ \A k \in Loop \ {l} : NoNewMove(tasks[k], tasks'[k])
          /\ NoNewMove(Tail(tasks[l]), tasks'[l])
      BY <1>1, <1>2 DEF TypeOK, NoNewMove
    <3> QED
      BY <1>1, <1>2, <2>1, <3>1, MoveTaken DEF MoveKind, c
  <2> QED
    BY <1>1, <1>3, <2>1, <2>2, <2>3, <2>4, BeginStep DEF NoteKind
<1> QED
  BY <1>4, <1>5

\* The other tasks, and the end of a loop, touch neither the dictionary nor
\* the phase of a connection, and queue no upgrade.
LEMMA RunTaskIInv ==
    ASSUME IInv, NEW l \in Loop, RunTask(l)
    PROVE  IInv'
<1>1. TypeOK /\ MoveInv /\ TypeOK'
  BY RunTaskType DEF IInv
<1>2. CASE FinishUpgrade(l) /\ UNCHANGED <<awaitingClose, frames, stopPc>>
  BY <1>2, FinishUpgradeIInv
<1>3. CASE HandlerRemoved(l) \/ SendText(l) \/ CloseListener(l) \/ CloseLoop(l) \/ LoopExit(l)
  <2>1. UNCHANGED <<stage, addr, loopOf, connectedChannels, access, notes>>
    BY <1>3 DEF HandlerRemoved, SendText, CloseListener, CloseLoop, LoopExit,
                connVars, tableVars
  <2>2. \A d \in Conn : sock'[d] = "none" <=> sock[d] = "none"
    BY <1>3 DEF HandlerRemoved, SendText, CloseListener, CloseLoop, LoopExit,
                connVars, IsActive
  <2>3. ASSUME NEW k \in Loop PROVE NoNewMove(tasks[k], tasks'[k])
    <3>1. CASE tasks' = [tasks EXCEPT ![l] = Tail(@)] /\ tasks[l] # << >>
      BY <1>1, <3>1 DEF TypeOK, NoNewMove
    <3>2. CASE CloseLoop(l)
      <4>1. LoopTask("removed", None) \in Task /\ LoopTask("removed", None).kind \notin MoveKind
        BY LoopTaskType DEF TaskKind, LoopTask, MoveKind
      <4> QED
        BY <1>1, <3>2, <4>1 DEF TypeOK, CloseLoop, HeadIs, NoNewMove
    <3>3. CASE UNCHANGED tasks
      BY <3>3 DEF NoNewMove
    <3> QED
      BY <1>3, <3>1, <3>2, <3>3
      DEF HandlerRemoved, SendText, CloseListener, LoopExit, HeadIs, TaskDone
  <2>4. Located'
    BY <2>1, <2>2 DEF IInv, Located
  <2>5. MoveInv'
    BY <1>1, <2>1, <2>3, MovesKept
  <2> QED
    BY <1>1, <2>1, <2>4, <2>5, QuietStep
<1> QED
  BY <1>2, <1>3, AdmitIInv DEF RunTask

\* serverQueue begins to clear the dictionary: its change concerns no
\* connection, and is the only one of that thread.
LEMMA StopClearIInv ==
    ASSUME IInv, StopClear
    PROVE  IInv'
<1>0. serverQueue \in Thread /\ serverQueue \notin Loop
  BY ChannelsAssumption DEF Thread, serverQueue, Loop
<1>1. /\ UNCHANGED <<sock, stage, addr, loopOf, tasks, connectedChannels, notes>>
      /\ TypeOK /\ TypeOK'
  BY StopType DEF IInv, StopStep, StopClear, connVars, loopVars
<1>2. Located' /\ KeyedByAddress' /\ MoveInv' /\ ConnectFirst'
  BY <1>1 DEF IInv, Located, KeyedByAddress, MoveInv, ConnectFirst
<1>3. /\ \A t \in Thread \ {serverQueue} : access'[t] = access[t]
      /\ \/ UNCHANGED access
         \/ /\ access'[serverQueue].conn = None
            /\ access'[serverQueue].seen = connectedChannels
  BY <1>0, <1>1 DEF TypeOK, StopClear, BeginChange
<1>4. AccessInv'
  <2>1. Keyed(connectedChannels, addr, stage)
    BY DEF IInv, KeyedByAddress, Keyed, Upgraded
  <2> SUFFICES ASSUME NEW t \in Thread, access'[t] # None
               PROVE  /\ Keyed(access'[t].seen, addr, stage)
                      /\ t \in Loop <=> access'[t].conn # None
                      /\ t \in Loop => loopOf[access'[t].conn] = t
                      /\ t \in Loop => stage[access'[t].conn] \in Upgraded
    BY <1>1 DEF AccessInv
  <2>2. CASE access'[t] = access[t]
    BY <2>2 DEF IInv, AccessInv
  <2>3. CASE access'[t] # access[t]
    BY <1>0, <1>3, <2>1, <2>3
  <2> QED
    BY <2>2, <2>3
<1>5. NotesInv'
  <2>1. \A d \in Conn : access'[loopOf[d]] = access[loopOf[d]]
    BY <1>0, <1>1, <1>3 DEF TypeOK, Thread
  <2> QED
    BY <1>1, <2>1 DEF IInv, NotesInv, Connecting
<1> QED
  BY <1>1, <1>2, <1>4, <1>5 DEF IInv

\* clearChannelAll is done.
LEMMA StopClearedIInv ==
    ASSUME IInv, StopCleared
    PROVE  IInv'
<1>0. serverQueue \in Thread /\ serverQueue \notin Loop
  BY ChannelsAssumption DEF Thread, serverQueue, Loop
<1>1. /\ UNCHANGED <<sock, stage, addr, loopOf, tasks, notes>>
      /\ TypeOK /\ TypeOK' /\ Commit(serverQueue)
  BY StopType DEF IInv, StopStep, StopCleared, connVars, loopVars
<1>2. Located' /\ MoveInv' /\ ConnectFirst'
  BY <1>1 DEF IInv, Located, MoveInv, ConnectFirst
<1>3. KeyedByAddress'
  BY <1>0, <1>1, CommitKeyed DEF Keyed, KeyedByAddress, Upgraded
<1>4. AccessInv'
  BY <1>0, <1>1, CommitAccess
<1>5. NotesInv'
  <2>1. \A d \in Conn : access'[loopOf[d]] = access[loopOf[d]]
    BY <1>0, <1>1 DEF TypeOK, Commit, Thread
  <2> QED
    BY <1>1, <2>1 DEF IInv, NotesInv, Connecting
<1> QED
  BY <1>1, <1>2, <1>3, <1>4, <1>5 DEF IInv

\* stop(), from beginning to end.
LEMMA StopIInv ==
    ASSUME IInv, StopStep
    PROVE  IInv'
<1>1. TypeOK /\ MoveInv /\ TypeOK'
  BY StopType DEF IInv
<1>2. CASE StopListening \/ StopLoops \/ StopReturns
  <2>1. UNCHANGED <<sock, stage, addr, loopOf, connectedChannels, access, notes>>
    BY <1>2 DEF StopListening, StopLoops, StopReturns, connVars, tableVars
  <2>2. ASSUME NEW k \in {"closeListener", "closeLoop"}
        PROVE  LoopTask(k, None) \in Task /\ LoopTask(k, None).kind \notin MoveKind
    BY LoopTaskType DEF TaskKind, LoopTask, MoveKind
  <2>3. ASSUME NEW k \in Loop PROVE NoNewMove(tasks[k], tasks'[k])
    <3>1. CASE StopListening
      <4>1. 0 \in Loop
        BY ChannelsAssumption DEF Loop
      <4> QED
        BY <1>1, <2>2, <3>1, <4>1, ExecuteNoMove DEF StopListening
    <3>2. CASE StopLoops
      BY <2>2, <3>2 DEF StopLoops, NoNewMove
    <3>3. CASE StopReturns
      BY <3>3 DEF StopReturns, loopVars, NoNewMove
    <3> QED
      BY <1>2, <3>1, <3>2, <3>3
  <2>4. Located'
    BY <2>1 DEF IInv, Located
  <2>5. MoveInv'
    BY <1>1, <2>1, <2>3, MovesKept
  <2> QED
    BY <1>1, <2>1, <2>4, <2>5, QuietStep
<1> QED
  BY <1>2, StopClearIInv, StopClearedIInv DEF StopStep

\* Every step keeps the invariant; a crash and a stutter keep it for want of
\* anything to change.
LEMMA NextIInv == IInv /\ [Next]_vars => IInv'
<1> SUFFICES ASSUME IInv, [Next]_vars PROVE IInv'
  OBVIOUS
<1>1. ASSUME NEW c \in Conn, NEW a \in Addr, Accept(c, a),
             UNCHANGED <<awaitingClose, frames, stopPc>>
      PROVE  IInv'
  BY <1>1, AcceptIInv
<1>2. ASSUME NEW c \in Conn, Request(c), UNCHANGED <<awaitingClose, frames, stopPc>>
      PROVE  IInv'
  BY <1>2, RequestIInv
<1>3. ASSUME NEW c \in Conn, Frame(c), UNCHANGED <<responseBody, stopPc>>
      PROVE  IInv'
  BY <1>3, FrameIInv
<1>4. ASSUME NEW c \in Conn, Writable(c) \/ Lost(c)
      PROVE  IInv'
  BY <1>4, SocketIInv
<1>5. ASSUME NEW l \in Loop, RunTask(l)
      PROVE  IInv'
  BY <1>5, RunTaskIInv
<1>6. ASSUME NEW l \in Loop, Finish(l)
      PROVE  IInv'
  BY <1>6, EndChangeIInv, ReadCompleteIInv DEF Finish
<1>7. CASE StopStep
  BY <1>7, StopIInv
<1>8. CASE /\ trap' \in {"none", "nilBody", "race"}
           /\ UNCHANGED <<connVars, loopVars, tableVars, handlerVars, stopPc>>
  <2>1. TypeOK'
    BY <1>8 DEF IInv, TypeOK, connVars, loopVars, tableVars, handlerVars
  <2>2. Located' /\ MoveInv'
    BY <1>8 DEF IInv, Located, MoveInv, connVars, loopVars
  <2> QED
    BY <1>8, <2>1, <2>2, QuietStep DEF connVars, tableVars
<1>9. CASE UNCHANGED vars
  BY <1>8, <1>9 DEF IInv, TypeOK, vars
<1> QED
  BY <1>1, <1>2, <1>3, <1>4, <1>5, <1>6, <1>7, <1>8, <1>9 DEF Next, RaceCrash

\* The inductive invariant holds in every reachable state.
LEMMA Invariance == Spec => []IInv
  BY InitIInv, NextIInv, PTL DEF Spec

-----------------------------------------------------------------------------
(* What a step does to a queue, and what stop() leaves.                    *)

\* The queue has lost its head at most, and gained at most a task of T.
Turn(q, r, T) ==
    \/ r = q
    \/ \E t \in T : r = Append(q, t)
    \/ q # << >> /\ r = Tail(q)
    \/ q # << >> /\ \E t \in T : r = Append(Tail(q), t)

\* Tasks that neither send a text nor close a loop.
Ordinary == {t \in Task : t.kind \notin {"send", "closeLoop"}}

\* A loop that has ended is given no more tasks.
Deaf(l) == loopState[l] = "closed" => tasks'[l] = tasks[l]

\* execute, of a task of T, by a loop that may have ended.
LEMMA ExecuteTurn ==
    ASSUME TypeOK, NEW T, NEW t \in T, NEW k \in Loop, tasks' = Execute(k, t), NEW l \in Loop
    PROVE  Turn(tasks[l], tasks'[l], T) /\ Deaf(l)
  BY DEF TypeOK, Execute, Turn, Deaf

\* The head of a queue that runs leaves a loop that has not ended.
LEMMA TaskDoneTurn ==
    ASSUME TypeOK, NEW T, NEW k \in Loop, Idle(k), tasks[k] # << >>, TaskDone(k),
           NEW l \in Loop
    PROVE  Turn(tasks[l], tasks'[l], T) /\ Deaf(l)
  BY DEF TypeOK, Idle, TaskDone, Turn, Deaf

\* Closing a channel queues at most the removal of its handler.
LEMMA CloseTurn ==
    ASSUME TypeOK, NEW c \in Conn, NEW why, Close(c, why), NEW l \in Loop
    PROVE  Turn(tasks[l], tasks'[l], Ordinary) /\ Deaf(l)
<1>1. LoopTask("removed", c) \in Ordinary /\ loopOf[c] \in Loop
  BY LoopTaskType DEF TypeOK, TaskKind, Ordinary, LoopTask
<1>2. CASE tasks' = Execute(loopOf[c], LoopTask("removed", c))
  BY <1>1, <1>2, ExecuteTurn
<1>3. CASE tasks' = tasks
  BY <1>3 DEF Turn, Deaf
<1> QED
  BY <1>2, <1>3 DEF Close

\* A step of a connection on its way to its loop is the end of one task, and
\* for all but the last of them the start of another.
LEMMA AdmitEffect ==
    ASSUME IInv, NEW l \in Loop, Admit(l)
    PROVE  /\ UNCHANGED <<addr, loopOf, out, wire, reading, loopState, listening, nextLoop, trap>>
           /\ UNCHANGED <<connectedChannels, access, notes>>
           /\ Idle(l) /\ tasks[l] # << >>
           /\ Head(tasks[l]).kind \in {"setup", "accepted", "register", "refuse"}
           /\ \A m \in Loop : Turn(tasks[m], tasks'[m], Ordinary) /\ Deaf(m)
           /\ \/ UNCHANGED stage
              \/ \E c \in Conn : stage[c] = "bare" /\ stage' = [stage EXCEPT ![c] = "http"]
           /\ \A c \in Conn : sock'[c] # sock[c] =>
                 /\ sock[c] = "accepted" /\ sock'[c] \in {"open", "shutdown"}
                 /\ sock'[c] = "open" => loopState[loopOf[c]] = "open"
<1> DEFINE c == Head(tasks[l]).conn
<1>1. TypeOK /\ MoveInv
  BY DEF IInv
<1>2. /\ UNCHANGED <<addr, loopOf, out, wire, reading, loopState, listening, nextLoop, trap>>
      /\ UNCHANGED <<connectedChannels, access, notes>>
      /\ Idle(l) /\ tasks[l] # << >>
      /\ Head(tasks[l]).kind \in {"setup", "accepted", "register", "refuse"}
  BY DEF Admit, Setup, Accepted, Register, Refuse, HeadIs, connVars, tableVars
<1>3. /\ tasks[l] \in Seq(Task) /\ Head(tasks[l]) = tasks[l][1] /\ 1 \in 1 .. Len(tasks[l])
      /\ c \in Conn \cup {None} /\ loopState[l] # "closed"
  BY <1>1, <1>2 DEF TypeOK, Task, Idle
<1>4. \A k \in {"accepted", "register", "refuse", "removed"} : LoopTask(k, c) \in Ordinary
  BY <1>3, LoopTaskType DEF TaskKind, LoopTask, Ordinary
<1> HIDE DEF c
<1>5. ASSUME NEW k, NEW t \in Ordinary, HandOver(l, k, t), NEW m \in Loop
      PROVE  Turn(tasks[m], tasks'[m], Ordinary) /\ Deaf(m)
  <2>1. IF m = l
        THEN tasks'[m] \in {Tail(tasks[m]), Append(Tail(tasks[m]), t)}
        ELSE \/ tasks'[m] = tasks[m]
             \/ tasks'[m] = Append(tasks[m], t) /\ loopState[m] # "closed"
    BY <1>1, <1>2, <1>5, HandOverEffect
  <2> QED
    BY <1>2, <1>3, <2>1 DEF Turn, Deaf
<1>6. \A m \in Loop : Turn(tasks[m], tasks'[m], Ordinary) /\ Deaf(m)
  <2>1. CASE Register(l)
    BY <1>1, <1>2, <2>1, TaskDoneTurn DEF Register
  <2>2. CASE Setup(l) \/ Accepted(l) \/ Refuse(l)
    BY <1>4, <1>5, <2>2 DEF Setup, Accepted, Refuse, c
  <2> QED
    BY <2>1, <2>2 DEF Admit
<1>7. \/ UNCHANGED stage
      \/ \E d \in Conn : stage[d] = "bare" /\ stage' = [stage EXCEPT ![d] = "http"]
  <2>1. CASE Setup(l)
    <3>1. Head(tasks[l]).kind = "setup" /\ stage' = [stage EXCEPT ![c] = "http"]
      BY <2>1 DEF Setup, HeadIs, c
    <3>2. c \in Conn /\ stage[c] = "bare"
      BY <1>1, <1>3, <3>1 DEF MoveInv, MovesOf, MoveKind, Before, c
    <3> QED
      BY <3>1, <3>2
  <2>2. CASE Accepted(l) \/ Register(l) \/ Refuse(l)
    BY <2>2 DEF Accepted, Register, Refuse, connVars
  <2> QED
    BY <2>1, <2>2 DEF Admit
<1>8. ASSUME NEW d \in Conn, sock'[d] # sock[d]
      PROVE  /\ sock[d] = "accepted" /\ sock'[d] \in {"open", "shutdown"}
             /\ sock'[d] = "open" => loopState[loopOf[d]] = "open"
  BY <1>1, <1>8 DEF TypeOK, Admit, Setup, Accepted, Register, Refuse, connVars
<1> QED
  BY <1>2, <1>6, <1>7, <1>8

\* Accepting a connection queues the next step of its way.
LEMMA AcceptTurn ==
    ASSUME TypeOK, NEW c \in Conn, NEW a, Accept(c, a), NEW l \in Loop
    PROVE  Turn(tasks[l], tasks'[l], Ordinary) /\ Deaf(l)
<1>1. \A k \in {"setup", "register"} : LoopTask(k, c) \in Ordinary
  BY LoopTaskType DEF TaskKind, LoopTask, Ordinary
<1>2. nextLoop \in Loop /\ 0 \in Loop
  BY ChannelsAssumption DEF TypeOK, Loop
<1>3. CASE tasks' = Execute(0, LoopTask("register", c))
  BY <1>1, <1>2, <1>3, ExecuteTurn
<1>4. CASE tasks' = Execute(nextLoop, LoopTask("setup", c))
  BY <1>1, <1>2, <1>4, ExecuteTurn
<1> QED
  BY <1>3, <1>4 DEF Accept

\* Sends are queued by ReadText, the ends of loops by StopLoops; all else that
\* is queued is ordinary, and nothing is queued on a loop that has ended.
LEMMA TaskEffect ==
    ASSUME IInv, [Next]_vars, NEW l \in Loop
    PROVE  \/ Turn(tasks[l], tasks'[l], Ordinary) /\ Deaf(l)
           \/ \E c \in Conn : ReadText(c)
           \/ StopLoops
<1> DEFINE Goal == Turn(tasks[l], tasks'[l], Ordinary) /\ Deaf(l)
<1>0. TypeOK
  BY DEF IInv
<1>1. ASSUME UNCHANGED tasks PROVE Goal
  BY <1>1 DEF Turn, Deaf
<1>2. ASSUME NEW c \in Conn, ReadUpgrade(c) PROVE Goal
  <2>1. LoopTask("upgrade", c) \in Ordinary /\ loopOf[c] \in Loop
    BY <1>0, LoopTaskType DEF TypeOK, TaskKind, Ordinary, LoopTask
  <2> QED
    BY <1>0, <1>2, <2>1, ExecuteTurn DEF ReadUpgrade
<1>3. ASSUME NEW c \in Conn, NEW why, Close(c, why) PROVE Goal
  BY <1>0, <1>3, CloseTurn
<1>4. ASSUME NEW k \in Loop, Idle(k), tasks[k] # << >>, TaskDone(k) PROVE Goal
  BY <1>0, <1>4, TaskDoneTurn
<1>5. ASSUME NEW k \in Loop, CloseLoop(k) PROVE Goal
  <2>1. LoopTask("removed", None) \in Ordinary
    BY LoopTaskType DEF TaskKind, Ordinary, LoopTask
  <2> QED
    BY <1>0, <1>5, <2>1 DEF TypeOK, CloseLoop, HeadIs, Idle, Turn, Deaf
<1>6. ASSUME StopListening PROVE Goal
  <2>1. LoopTask("closeListener", None) \in Ordinary /\ 0 \in Loop
    BY ChannelsAssumption, LoopTaskType DEF TaskKind, Ordinary, LoopTask, Loop
  <2> QED
    BY <1>0, <1>6, <2>1, ExecuteTurn DEF StopListening
<1>7. ASSUME NEW c \in Conn, Frame(c) PROVE Goal \/ ReadText(c)
  BY <1>1, <1>3, <1>7 DEF Frame, ReadPing, ReadClose, ReadReserved, ReadInvalid
<1>8. ASSUME NEW c \in Conn, Request(c) PROVE Goal
  BY <1>1, <1>2, <1>8 DEF Request, ReadGet, ReadOther, loopVars
<1>9. ASSUME NEW c \in Conn, Writable(c) \/ Lost(c) PROVE Goal
  BY <1>1, <1>3, <1>9 DEF Writable, Written, Lost
<1>10. ASSUME NEW k \in Loop, RunTask(k) PROVE Goal
  <2>1. \/ Idle(k) /\ tasks[k] # << >> /\ TaskDone(k)
        \/ CloseLoop(k)
        \/ Admit(k)
        \/ UNCHANGED tasks
    BY <1>10 DEF RunTask, FinishUpgrade, HandlerRemoved, SendText, CloseListener, LoopExit,
                 HeadIs, TaskDone
  <2> QED
    BY <1>1, <1>4, <1>5, <2>1, AdmitEffect
<1>11. ASSUME NEW k \in Loop, Finish(k) PROVE UNCHANGED tasks
  BY <1>11 DEF Finish, ReadComplete, loopVars
<1>12. ASSUME NEW c \in Conn, NEW a \in Addr, Accept(c, a) PROVE Goal
  BY <1>0, <1>12, AcceptTurn
<1>13. CASE StopStep
  BY <1>1, <1>6, <1>13 DEF StopStep, StopClear, StopCleared, StopReturns, loopVars
<1> QED
  BY <1>1, <1>7, <1>8, <1>9, <1>10, <1>11, <1>12, <1>13 DEF Next, vars, loopVars

\* The loops end one by one.
LEMMA LoopEffect ==
    ASSUME IInv, [Next]_vars
    PROVE  \/ UNCHANGED loopState
           \/ \E l \in Loop : CloseLoop(l)
           \/ \E l \in Loop : LoopExit(l)
<1>1. ASSUME NEW c \in Conn, NEW a \in Addr, Accept(c, a) PROVE UNCHANGED loopState
  BY <1>1 DEF Accept
<1>2. ASSUME NEW c \in Conn, Request(c) PROVE UNCHANGED loopState
  BY <1>2 DEF Request, ReadUpgrade, ReadGet, ReadOther, loopVars
<1>3. ASSUME NEW c \in Conn, Frame(c) PROVE UNCHANGED loopState
  BY <1>3 DEF Frame, ReadText, ReadPing, ReadClose, ReadReserved, ReadInvalid
<1>4. ASSUME NEW c \in Conn, Writable(c) \/ Lost(c) PROVE UNCHANGED loopState
  BY <1>4 DEF Writable, Lost
<1>5. ASSUME NEW l \in Loop, RunTask(l)
      PROVE  UNCHANGED loopState \/ CloseLoop(l) \/ LoopExit(l)
  BY <1>5, AdmitEffect DEF RunTask, FinishUpgrade, HandlerRemoved, SendText, CloseListener
<1>6. ASSUME NEW l \in Loop, Finish(l) PROVE UNCHANGED loopState
  BY <1>6 DEF Finish, ReadComplete, loopVars
<1>7. CASE StopStep
  BY <1>7 DEF StopStep, StopClear, StopCleared, StopListening, StopLoops, StopReturns, loopVars
<1> QED
  BY <1>1, <1>2, <1>3, <1>4, <1>5, <1>6, <1>7 DEF Next, vars, loopVars

\* A loop that has ended begins nothing.
LEMMA EndedEffect ==
    ASSUME IInv, [Next]_vars, NEW l \in Loop, loopState[l] = "closed"
    PROVE  reading'[l] \in {reading[l], None} /\ access'[l] \in {access[l], None}
<1> DEFINE Goal == reading'[l] \in {reading[l], None} /\ access'[l] \in {access[l], None}
<1>0. TypeOK /\ serverQueue # l /\ l \in Thread
  BY ChannelsAssumption DEF IInv, Thread, serverQueue, Loop
<1>1. ASSUME UNCHANGED <<reading, access>> PROVE Goal
  BY <1>1
<1>2. ASSUME NEW c \in Conn, Frame(c) PROVE Goal
  <2>1. loopOf[c] # l /\ reading' = [reading EXCEPT ![loopOf[c]] = c]
    BY <1>2 DEF Frame, ReadText, ReadPing, ReadClose, ReadReserved, ReadInvalid, ReadsFrame
  <2>2. UNCHANGED access \/ \E k : BeginChange(loopOf[c], c, k)
    BY <1>2 DEF Frame, ReadText, ReadPing, ReadClose, ReadReserved, ReadInvalid, tableVars
  <2> QED
    BY <1>0, <2>1, <2>2 DEF TypeOK, BeginChange
<1>3. ASSUME NEW k \in Loop, RunTask(k) PROVE Goal
  <2>1. CASE FinishUpgrade(k)
    <3>1. /\ k # l /\ UNCHANGED reading
          /\ UNCHANGED access \/ \E c : BeginChange(k, c, "connect")
      BY <2>1 DEF FinishUpgrade, Idle
    <3> QED
      BY <1>0, <3>1 DEF TypeOK, BeginChange
  <2> QED
    BY <1>1, <1>3, <2>1, AdmitEffect
    DEF RunTask, HandlerRemoved, SendText, CloseListener, CloseLoop, LoopExit, tableVars
<1>4. ASSUME NEW k \in Loop, Finish(k) PROVE Goal
  BY <1>0, <1>4 DEF TypeOK, Finish, EndChange, Commit, ReadComplete, loopVars, tableVars
<1>5. ASSUME StopStep PROVE Goal
  BY <1>0, <1>5
  DEF TypeOK, StopStep, StopClear, StopCleared, StopListening, StopLoops, StopReturns,
      BeginChange, Commit, loopVars, tableVars
<1>6. ASSUME NEW c \in Conn, NEW a \in Addr, Accept(c, a) PROVE Goal
  BY <1>1, <1>6 DEF Accept, tableVars
<1>7. ASSUME NEW c \in Conn, Request(c) PROVE Goal
  BY <1>1, <1>7 DEF Request, ReadUpgrade, ReadGet, ReadOther, loopVars, tableVars
<1>8. ASSUME NEW c \in Conn, Writable(c) \/ Lost(c) PROVE Goal
  BY <1>1, <1>8 DEF Writable, Lost, tableVars
<1> QED
  BY <1>1, <1>2, <1>3, <1>4, <1>5, <1>6, <1>7, <1>8 DEF Next, vars, loopVars, tableVars

\* A connection becomes active when a loop that is open registers it, and an
\* active one keeps its loop.
LEMMA ActiveEffect ==
    ASSUME IInv, [Next]_vars, NEW c \in Conn, IsActive(c)'
    PROVE  \/ IsActive(c) /\ loopOf'[c] = loopOf[c] /\ addr'[c] = addr[c]
           \/ /\ sock[c] = "accepted" /\ loopState[loopOf[c]] = "open"
              /\ UNCHANGED <<loopOf, addr, loopState>>
              /\ \E l \in Loop : Admit(l)
<1> DEFINE Goal == IsActive(c) /\ loopOf'[c] = loopOf[c] /\ addr'[c] = addr[c]
           New == /\ sock[c] = "accepted" /\ loopState[loopOf[c]] = "open"
                  /\ UNCHANGED <<loopOf, addr, loopState>>
                  /\ \E l \in Loop : Admit(l)
<1>0. TypeOK
  BY DEF IInv
<1>1. ASSUME UNCHANGED <<sock, loopOf, addr>> PROVE Goal
  BY <1>1 DEF IsActive
<1>2. ASSUME NEW d \in Conn, NEW why \in {"lost", "closed"}, Close(d, why),
             UNCHANGED <<loopOf, addr>>
      PROVE  Goal
  BY <1>0, <1>2 DEF TypeOK, Close, IsActive
<1>3. ASSUME NEW d \in Conn, NEW a \in Addr, Accept(d, a)
      PROVE  Goal
  BY <1>0, <1>3 DEF TypeOK, Accept, IsActive
<1>4. ASSUME NEW d \in Conn, Request(d) PROVE Goal
  BY <1>1, <1>4 DEF Request, ReadUpgrade, ReadGet, ReadOther
<1>5. ASSUME NEW d \in Conn, Frame(d) PROVE Goal
  BY <1>1, <1>2, <1>5
  DEF Frame, ReadText, ReadPing, ReadClose, ReadReserved, ReadInvalid, connVars
<1>6. ASSUME NEW d \in Conn, Writable(d) \/ Lost(d) PROVE Goal
  <2>1. UNCHANGED <<loopOf, addr>> /\ IsActive(d)
    BY <1>6 DEF Writable, Lost
  <2>2. \/ UNCHANGED sock
        \/ sock' = [sock EXCEPT ![d] = "half"]
        \/ \E why \in {"lost", "closed"} : Close(d, why)
    BY <1>6 DEF Writable, Written, Lost
  <2> QED
    BY <1>0, <1>1, <1>2, <2>1, <2>2 DEF TypeOK, IsActive
<1>7. ASSUME NEW l \in Loop, RunTask(l) PROVE Goal \/ New
  <2>1. CASE CloseLoop(l)
    BY <1>0, <2>1 DEF TypeOK, CloseLoop, IsActive
  <2>2. CASE Admit(l)
    BY <2>2, AdmitEffect DEF IsActive
  <2> QED
    BY <1>1, <1>7, <2>1, <2>2
    DEF RunTask, FinishUpgrade, HandlerRemoved, SendText, CloseListener, LoopExit, connVars
<1>8. ASSUME NEW l \in Loop, Finish(l) PROVE Goal
  BY <1>1, <1>8 DEF Finish, ReadComplete, connVars
<1>9. ASSUME StopStep PROVE Goal
  BY <1>1, <1>9
  DEF StopStep, StopClear, StopCleared, StopListening, StopLoops, StopReturns, connVars
<1> QED
  BY <1>1, <1>3, <1>4, <1>5, <1>6, <1>7, <1>8, <1>9 DEF Next, vars, connVars

\* Until stop() has asked the loops to close, all run; when it has returned,
\* all have ended.
Asking ==
    /\ stopPc \notin {"waiting", "stopped"} =>
          \A l \in Loop :
             /\ loopState[l] = "open"
             /\ \A i \in 1 .. Len(tasks[l]) : tasks[l][i].kind # "closeLoop"
    /\ stopPc = "stopped" => \A l \in Loop : loopState[l] = "closed"

\* A loop that has ended has nothing to do.
Ended ==
    \A l \in Loop : loopState[l] = "closed" =>
        tasks[l] = << >> /\ reading[l] = None /\ access[l] = None

\* A loop that closes takes its connections and its listener with it.
Served ==
    /\ listening => loopState[0] = "open"
    /\ \A c \in Conn : IsActive(c) => loopState[loopOf[c]] = "open"

\* Of a connection that no loop serves yet nobody has heard.
Fresh ==
    \A c \in Conn : sock[c] \in {"none", "accepted"} =>
        stage[c] \in {"none", "bare", "http"} /\ wire[c] = << >>

\* A connection of the server channel's own loop is in that loop's queue until
\* it is registered.
Queued(q, c) == \E i \in 1 .. Len(q) : q[i] = LoopTask("register", c)

Registering ==
    \A c \in Conn : sock[c] = "accepted" /\ loopOf[c] = 0 => Queued(tasks[0], c)

StopInv == Asking /\ Ended /\ Served /\ Fresh /\ Registering

\* Nothing has stopped when the server starts.
LEMMA StopInit == Init => StopInv
<1> SUFFICES ASSUME Init PROVE StopInv
  OBVIOUS
<1>1. 0 \in Loop
  BY ChannelsAssumption DEF Loop
<1> QED
  BY <1>1 DEF Init, StopInv, Asking, Ended, Served, Fresh, Registering, IsActive

\* A queue whose turn brings no end of its loop has none if it had none.
LEMMA TurnAsksNothing ==
    ASSUME NEW q \in Seq(Task), NEW T \in SUBSET Task, NEW r, Turn(q, r, T),
           \A t \in T : t.kind # "closeLoop",
           \A i \in 1 .. Len(q) : q[i].kind # "closeLoop"
    PROVE  \A i \in 1 .. Len(r) : r[i].kind # "closeLoop"
<1>1. ASSUME NEW s \in Seq(Task), NEW t \in T,
             \A i \in 1 .. Len(s) : s[i].kind # "closeLoop"
      PROVE  \A i \in 1 .. Len(Append(s, t)) : Append(s, t)[i].kind # "closeLoop"
  BY <1>1
<1>2. q # << >> => /\ Tail(q) \in Seq(Task)
                   /\ \A i \in 1 .. Len(Tail(q)) : Tail(q)[i].kind # "closeLoop"
  OBVIOUS
<1> QED
  BY <1>1, <1>2 DEF Turn

\* A text is queued on a loop that has not ended, or dropped.
LEMMA ReadTextTurn ==
    ASSUME IInv, NEW c \in Conn, ReadText(c), NEW l \in Loop
    PROVE  Turn(tasks[l], tasks'[l], {t \in Task : t.kind = "send"}) /\ Deaf(l)
<1>1. /\ TypeOK /\ loopOf[c] \in Thread /\ addr[c] \in Addr
      /\ ThisFrame(c) \in Nat
  BY DEF IInv, TypeOK, Located, ReadText, ReadsFrame, Thread, ThisFrame
<1>2. PICK d \in Lookup(loopOf[c], addr[c]) :
         tasks' = IF d = None THEN tasks
                  ELSE Execute(loopOf[d], SendTask(d, c, ThisFrame(c)))
  BY DEF ReadText
<1>3. d \in Conn \cup {None}
  BY <1>1, LookupKeyed
<1>4. CASE d = None
  BY <1>2, <1>4 DEF Turn, Deaf
<1>5. CASE d # None
  <2>1. /\ SendTask(d, c, ThisFrame(c)) \in {t \in Task : t.kind = "send"}
        /\ loopOf[d] \in Loop
    BY <1>1, <1>3, <1>5 DEF TypeOK, SendTask, Task
  <2> QED
    BY <1>1, <1>2, <1>5, <2>1, ExecuteTurn
<1> QED
  BY <1>4, <1>5

\* Nothing but CloseLoop takes the end of a loop from the head of its queue,
\* and nothing but Register and Refuse takes a registration.
LEMMA HeadStays ==
    ASSUME IInv, [Next]_vars, ~StopLoops, NEW l \in Loop,
           tasks[l] # << >>, tasks[l][1].kind \in {"closeLoop", "register"},
           ~CloseLoop(l), ~Register(l), ~Refuse(l)
    PROVE  tasks'[l] = tasks[l] \/ \E t \in Task : tasks'[l] = Append(tasks[l], t)
<1> DEFINE Goal == tasks'[l] = tasks[l] \/ \E t \in Task : tasks'[l] = Append(tasks[l], t)
<1>0. TypeOK
  BY DEF IInv
<1>1. ASSUME UNCHANGED tasks PROVE Goal
  BY <1>1
<1>2. ASSUME NEW k \in Loop, NEW t \in Task, tasks' = Execute(k, t) PROVE Goal
  BY <1>0, <1>2 DEF TypeOK, Execute
<1>3. ASSUME NEW c \in Conn, NEW why, Close(c, why) PROVE Goal
  <2>1. LoopTask("removed", c) \in Task /\ loopOf[c] \in Loop
    BY <1>0, LoopTaskType DEF TypeOK, TaskKind
  <2> QED
    BY <1>1, <1>2, <1>3, <2>1 DEF Close
<1>4. ASSUME NEW k \in Loop, TaskDone(k), k # l PROVE Goal
  BY <1>0, <1>4 DEF TypeOK, TaskDone
<1>5. \A kind : HeadIs(l, kind) => kind \in {"closeLoop", "register"}
  BY DEF HeadIs
<1>6. ASSUME NEW k \in Loop, CloseLoop(k) PROVE Goal
  BY <1>0, <1>6 DEF TypeOK, CloseLoop
<1>7. ASSUME NEW c \in Conn, ReadText(c) PROVE Goal
  <2>1. /\ loopOf[c] \in Thread /\ addr[c] \in Addr /\ ThisFrame(c) \in Nat
    BY <1>0, <1>7 DEF IInv, TypeOK, Located, ReadText, ReadsFrame, Thread, ThisFrame
  <2>2. PICK d \in Lookup(loopOf[c], addr[c]) :
           tasks' = IF d = None THEN tasks
                    ELSE Execute(loopOf[d], SendTask(d, c, ThisFrame(c)))
    BY <1>7 DEF ReadText
  <2>3. d \in Conn \cup {None}
    BY <2>1, LookupKeyed DEF IInv
  <2>4. CASE d = None
    BY <1>1, <2>2, <2>4
  <2>5. CASE d # None
    <3>1. SendTask(d, c, ThisFrame(c)) \in Task /\ loopOf[d] \in Loop
      BY <1>0, <2>1, <2>3, <2>5 DEF TypeOK, SendTask, Task
    <3> QED
      BY <1>2, <2>2, <2>5, <3>1
  <2> QED
    BY <2>4, <2>5
<1>8. ASSUME NEW c \in Conn, Frame(c) PROVE Goal
  BY <1>1, <1>3, <1>7, <1>8 DEF Frame, ReadPing, ReadClose, ReadReserved, ReadInvalid
<1>9. ASSUME NEW c \in Conn, Request(c) PROVE Goal
  <2>1. LoopTask("upgrade", c) \in Task /\ loopOf[c] \in Loop
    BY <1>0, LoopTaskType DEF TypeOK, TaskKind
  <2>2. CASE ReadUpgrade(c)
    BY <1>2, <2>1, <2>2 DEF ReadUpgrade
  <2> QED
    BY <1>1, <1>9, <2>2 DEF Request, ReadGet, ReadOther, loopVars
<1>10. ASSUME NEW c \in Conn, Writable(c) \/ Lost(c) PROVE Goal
  BY <1>1, <1>3, <1>10 DEF Writable, Written, Lost
<1>11. ASSUME NEW k \in Loop, Admit(k), k # l PROVE Goal
  <2> DEFINE c == Head(tasks[k]).conn
  <2>1. tasks[k] # << >> /\ c \in Conn \cup {None}
    BY <1>0, <1>11, AdmitEffect DEF TypeOK, Task
  <2>2. \A n \in {"accepted", "register", "refuse", "removed"} : LoopTask(n, c) \in Task
    BY <2>1, LoopTaskType DEF TaskKind
  <2> HIDE DEF c
  <2>3. ASSUME NEW m, NEW t \in Task, HandOver(k, m, t) PROVE Goal
    BY <1>0, <1>11, <2>1, <2>3, HandOverEffect
  <2>4. CASE Register(k)
    BY <1>4, <1>11, <2>4 DEF Register
  <2>5. CASE Setup(k) \/ Accepted(k) \/ Refuse(k)
    BY <2>2, <2>3, <2>5 DEF Setup, Accepted, Refuse, c
  <2> QED
    BY <1>11, <2>4, <2>5 DEF Admit
<1>12. ASSUME NEW k \in Loop, RunTask(k) PROVE Goal
  <2>1. CASE k = l
    <3>1. /\ ~FinishUpgrade(l) /\ ~HandlerRemoved(l) /\ ~CloseListener(l)
          /\ ~Setup(l) /\ ~Accepted(l)
      BY <1>5 DEF FinishUpgrade, HandlerRemoved, CloseListener, Setup, Accepted
    <3>2. ~SendText(l)
      BY DEF SendText
    <3>3. LoopExit(l) => UNCHANGED tasks
      BY DEF LoopExit
    <3>4. LoopExit(l)
      BY <1>12, <2>1, <3>1, <3>2 DEF RunTask, Admit
    <3> QED
      BY <1>1, <3>3, <3>4
  <2>2. CASE k # l
    <3>1. SendText(k) => TaskDone(k)
      BY DEF SendText, TaskDone
    <3>2. LoopExit(k) => UNCHANGED tasks
      BY DEF LoopExit
    <3>3. Admit(k) \/ TaskDone(k) \/ CloseLoop(k) \/ UNCHANGED tasks
      BY <1>12, <3>1, <3>2 DEF RunTask, FinishUpgrade, HandlerRemoved, CloseListener
    <3> QED
      BY <1>1, <1>4, <1>6, <1>11, <2>2, <3>3
  <2> QED
    BY <2>1, <2>2
<1>13. ASSUME NEW k \in Loop, Finish(k) PROVE UNCHANGED tasks
  BY <1>13 DEF Finish, ReadComplete, loopVars
<1>14. ASSUME NEW c \in Conn, NEW a \in Addr, Accept(c, a) PROVE Goal
  <2>1. \A k \in {"setup", "register"} : LoopTask(k, c) \in Task
    BY LoopTaskType DEF TaskKind
  <2>2. nextLoop \in Loop /\ 0 \in Loop
    BY <1>0, ChannelsAssumption DEF TypeOK, Loop
  <2>3. \/ tasks' = Execute(0, LoopTask("register", c))
        \/ tasks' = Execute(nextLoop, LoopTask("setup", c))
    BY <1>14 DEF Accept
  <2> QED
    BY <1>2, <2>1, <2>2, <2>3
<1>15. CASE StopStep
  <2>1. LoopTask("closeListener", None) \in Task /\ 0 \in Loop
    BY ChannelsAssumption, LoopTaskType DEF TaskKind, Loop
  <2>2. CASE StopListening
    BY <1>2, <2>1, <2>2 DEF StopListening
  <2> QED
    BY <1>1, <1>15, <2>2 DEF StopStep, StopClear, StopCleared, StopReturns, loopVars
<1> QED
  BY <1>1, <1>8, <1>9, <1>10, <1>12, <1>13, <1>14, <1>15 DEF Next, vars, loopVars

\* What was in a queue still is after a turn that does not take it.
LEMMA TurnKeepsTask ==
    ASSUME NEW q \in Seq(Task), NEW T \in SUBSET Task, NEW r, Turn(q, r, T),
           NEW i \in 1 .. Len(q), i # 1 \/ r = q \/ \E t \in T : r = Append(q, t)
    PROVE  \E j \in 1 .. Len(r) : r[j] = q[i]
<1>1. ASSUME NEW t \in T, r = Append(q, t) PROVE i \in 1 .. Len(r) /\ r[i] = q[i]
  BY <1>1
<1>2. ASSUME q # << >>, i # 1, r = Tail(q) \/ \E t \in T : r = Append(Tail(q), t)
      PROVE  \E j \in 1 .. Len(r) : r[j] = q[i]
  <2>1. i - 1 \in 1 .. Len(Tail(q)) /\ Tail(q)[i - 1] = q[i] /\ Tail(q) \in Seq(Task)
    BY <1>2
  <2>2. CASE r = Tail(q)
    BY <2>1, <2>2
  <2>3. ASSUME NEW t \in T, r = Append(Tail(q), t) PROVE \E j \in 1 .. Len(r) : r[j] = q[i]
    <3> DEFINE s == Tail(q)
    <3>1. s \in Seq(Task) /\ r = Append(s, t) /\ i - 1 \in 1 .. Len(s) /\ s[i - 1] = q[i]
      BY <2>1, <2>3
    <3> HIDE DEF s
    <3>2. i - 1 \in 1 .. Len(r) /\ r[i - 1] = q[i]
      BY <3>1
    <3> QED
      BY <3>2
  <2> QED
    BY <1>2, <2>2, <2>3
<1> QED
  BY <1>1, <1>2 DEF Turn

\* stop() asks every loop once, and waits for all.
LEMMA AskingKept ==
    ASSUME IInv, StopInv, [Next]_vars
    PROVE  Asking'
<1>0. TypeOK /\ Asking
  BY DEF IInv, StopInv
<1>1. ASSUME stopPc \notin {"waiting", "stopped"}, ~StopLoops, stopPc' # "stopped"
      PROVE  Asking'
  <2>1. \A l \in Loop : ~CloseLoop(l) /\ ~LoopExit(l)
    BY <1>0, <1>1 DEF TypeOK, Asking, CloseLoop, LoopExit, HeadIs
  <2>2. UNCHANGED loopState
    BY <2>1, LoopEffect
  <2>3. ASSUME NEW l \in Loop
        PROVE  \A i \in 1 .. Len(tasks'[l]) : tasks'[l][i].kind # "closeLoop"
    <3>1. /\ tasks[l] \in Seq(Task)
          /\ \A i \in 1 .. Len(tasks[l]) : tasks[l][i].kind # "closeLoop"
      BY <1>0, <1>1 DEF TypeOK, Asking
    <3>2. CASE Turn(tasks[l], tasks'[l], Ordinary)
      BY <3>1, <3>2, TurnAsksNothing DEF Ordinary
    <3>3. CASE Turn(tasks[l], tasks'[l], {t \in Task : t.kind = "send"})
      BY <3>1, <3>3, TurnAsksNothing
    <3> QED
      BY <1>1, <3>2, <3>3, TaskEffect, ReadTextTurn
  <2> QED
    BY <1>0, <1>1, <2>2, <2>3 DEF Asking
<1>2. CASE StopLoops \/ StopReturns
  BY <1>2 DEF StopLoops, StopReturns, loopVars, Asking
<1>3. ASSUME UNCHANGED stopPc, stopPc \in {"waiting", "stopped"} PROVE Asking'
  <2>1. stopPc = "stopped" => \A l \in Loop : ~CloseLoop(l) /\ ~LoopExit(l)
    BY <1>0 DEF Asking, CloseLoop, LoopExit, Idle
  <2> QED
    BY <1>0, <1>3, <2>1, LoopEffect DEF Asking
<1>4. \/ UNCHANGED stopPc
      \/ StopLoops \/ StopReturns
      \/ stopPc \in {"running", "clearing", "cleared"} /\ stopPc' # "stopped"
  <2>1. ASSUME NEW c \in Conn, Writable(c) \/ Lost(c) PROVE UNCHANGED stopPc
    BY <2>1 DEF Writable, Lost
  <2>2. ASSUME NEW l \in Loop, RunTask(l) \/ Finish(l) PROVE UNCHANGED stopPc
    BY <2>2 DEF RunTask, CloseListener, CloseLoop, LoopExit, Finish
  <2>3. CASE StopStep
    BY <2>3 DEF StopStep, StopClear, StopCleared, StopListening
  <2> QED
    BY <2>1, <2>2, <2>3 DEF Next, vars
<1> QED
  BY <1>1, <1>2, <1>3, <1>4 DEF StopLoops

\* A loop that ends has nothing left, and nothing comes to it afterwards.
LEMMA EndedKept ==
    ASSUME IInv, StopInv, [Next]_vars
    PROVE  Ended'
<1> SUFFICES ASSUME NEW l \in Loop, loopState'[l] = "closed"
             PROVE  tasks'[l] = << >> /\ reading'[l] = None /\ access'[l] = None
  BY DEF Ended
<1>0. TypeOK /\ Asking /\ Ended
  BY DEF IInv, StopInv
<1>1. CASE loopState[l] = "closed"
  <2>1. tasks[l] = << >> /\ reading[l] = None /\ access[l] = None
    BY <1>0, <1>1 DEF Ended
  <2>2. tasks'[l] = tasks[l]
    <3>1. ~StopLoops
      BY <1>0, <1>1 DEF Asking, StopLoops
    <3> QED
      BY <1>1, <3>1, TaskEffect, ReadTextTurn DEF Deaf
  <2> QED
    BY <1>1, <2>1, <2>2, EndedEffect
<1>2. CASE loopState[l] # "closed"
  <2>1. PICK k \in Loop : CloseLoop(k) \/ LoopExit(k)
    BY <1>2, LoopEffect
  <2>2. k = l /\ LoopExit(l)
    BY <1>0, <1>2, <2>1 DEF TypeOK, CloseLoop, LoopExit
  <2> QED
    BY <2>2 DEF LoopExit, Idle, tableVars
<1> QED
  BY <1>1, <1>2

\* Connections and the listener are served by loops that have not been closed.
LEMMA ServedKept ==
    ASSUME IInv, StopInv, [Next]_vars
    PROVE  Served'
<1>0. TypeOK /\ Served /\ 0 \in Loop
  BY ChannelsAssumption DEF IInv, StopInv, Loop
<1>1. ASSUME NEW k \in Loop, loopState'[k] # loopState[k], loopState[k] = "open"
      PROVE  /\ k = 0 => ~listening'
             /\ \A c \in Conn : IsActive(c)' => loopOf'[c] # k
  <2>1. PICK j \in Loop : CloseLoop(j) \/ LoopExit(j)
    BY <1>1, LoopEffect
  <2>2. j = k
    BY <1>0, <1>1, <2>1 DEF TypeOK, CloseLoop, LoopExit
  <2>3. CloseLoop(k)
    BY <1>1, <2>1, <2>2 DEF LoopExit
  <2> QED
    BY <1>0, <2>3 DEF TypeOK, CloseLoop, IsActive
<1>2. listening' => listening
  <2>1. ASSUME NEW c \in Conn, NEW a \in Addr, Accept(c, a) PROVE UNCHANGED listening
    BY <2>1 DEF Accept
  <2>2. ASSUME NEW c \in Conn, Request(c) \/ Frame(c) PROVE UNCHANGED listening
    BY <2>2 DEF Request, ReadUpgrade, ReadGet, ReadOther, Frame, ReadText, ReadPing,
                ReadClose, ReadReserved, ReadInvalid, loopVars
  <2>3. ASSUME NEW c \in Conn, Writable(c) \/ Lost(c) PROVE UNCHANGED listening
    BY <2>3 DEF Writable, Lost
  <2>4. ASSUME NEW l \in Loop, RunTask(l) PROVE listening' => listening
    BY <2>4, AdmitEffect
    DEF RunTask, FinishUpgrade, HandlerRemoved, SendText, CloseListener, CloseLoop, LoopExit
  <2>5. ASSUME NEW l \in Loop, Finish(l) PROVE UNCHANGED listening
    BY <2>5 DEF Finish, ReadComplete, loopVars
  <2>6. CASE StopStep
    BY <2>6 DEF StopStep, StopClear, StopCleared, StopListening, StopLoops, StopReturns,
                loopVars
  <2> QED
    BY <2>1, <2>2, <2>3, <2>4, <2>5, <2>6 DEF Next, vars, loopVars
<1>3. listening' => loopState'[0] = "open"
  BY <1>0, <1>1, <1>2 DEF Served
<1>4. ASSUME NEW c \in Conn, IsActive(c)' PROVE loopState'[loopOf'[c]] = "open"
  <2>1. CASE IsActive(c) /\ loopOf'[c] = loopOf[c]
    BY <1>0, <1>1, <1>4, <2>1 DEF TypeOK, Served
  <2>2. CASE loopState[loopOf[c]] = "open" /\ UNCHANGED <<loopOf, loopState>>
    BY <2>2
  <2> QED
    BY <1>4, <2>1, <2>2, ActiveEffect
<1> QED
  BY <1>3, <1>4 DEF Served

\* A connection on its way to its loop hears and says nothing.
LEMMA FreshEffect ==
    ASSUME IInv, Fresh, [Next]_vars, NEW c \in Conn, sock'[c] \in {"none", "accepted"}
    PROVE  \/ \E a \in Addr : Accept(c, a)
           \/ /\ sock'[c] = sock[c] /\ loopOf'[c] = loopOf[c] /\ wire'[c] = wire[c]
              /\ stage'[c] = stage[c] \/ stage'[c] = "http"
<1> DEFINE Goal == /\ sock'[c] = sock[c] /\ loopOf'[c] = loopOf[c] /\ wire'[c] = wire[c]
                   /\ stage'[c] = stage[c] \/ stage'[c] = "http"
<1>0. TypeOK
  BY DEF IInv
<1>1. ASSUME UNCHANGED <<sock, loopOf, wire, stage>> PROVE Goal
  BY <1>1
<1>2. ASSUME NEW d \in Conn, sock[d] \notin {"none", "accepted"}, UNCHANGED loopOf,
             \A e \in Conn \ {d} : /\ sock'[e] = sock[e] /\ wire'[e] = wire[e]
                                   /\ stage'[e] = stage[e],
             sock'[d] \in {sock[d], "half", "lost", "closed"}
      PROVE  Goal
  <2>1. c # d
    BY <1>2
  <2> QED
    BY <1>2, <2>1
<1>3. ASSUME NEW d \in Conn, NEW a \in Addr, Accept(d, a) PROVE Goal \/ Accept(c, a)
  BY <1>0, <1>3 DEF TypeOK, Accept
<1>4. ASSUME NEW d \in Conn, Request(d) PROVE Goal
  <2>1. sock[d] \notin {"none", "accepted"} /\ UNCHANGED <<sock, loopOf, wire>>
    BY <1>4 DEF Request, ReadUpgrade, ReadGet, ReadOther, ReadsRequest, IsActive
  <2>2. \A e \in Conn \ {d} : stage'[e] = stage[e]
    BY <1>0, <1>4 DEF TypeOK, Request, ReadUpgrade, ReadGet, ReadOther
  <2>3. sock'[d] = sock[d] /\ \A e \in Conn : sock'[e] = sock[e] /\ wire'[e] = wire[e]
    BY <2>1
  <2> QED
    BY <1>2, <2>1, <2>2, <2>3
<1>5. ASSUME NEW d \in Conn, Frame(d) PROVE Goal
  <2>1. UNCHANGED <<loopOf, wire>>
    BY <1>5 DEF Frame, ReadText, ReadPing, ReadClose, ReadReserved, ReadInvalid, connVars
  <2>4. sock[d] \notin {"none", "accepted"}
    <3>1. stage[d] = "websocket"
      BY <1>5 DEF Frame, ReadText, ReadPing, ReadClose, ReadReserved, ReadInvalid, ReadsFrame
    <3> QED
      BY <3>1 DEF Fresh
  <2>2. \A e \in Conn \ {d} : stage'[e] = stage[e]
    BY <1>0, <1>5 DEF TypeOK, Frame, ReadText, ReadPing, ReadClose, ReadReserved,
                      ReadInvalid, connVars
  <2>3. /\ \A e \in Conn \ {d} : sock'[e] = sock[e]
        /\ sock'[d] \in {sock[d], "closed"}
    BY <1>0, <1>5 DEF TypeOK, Frame, ReadText, ReadPing, ReadClose, ReadReserved,
                      ReadInvalid, connVars, Close
  <2> QED
    BY <1>2, <2>1, <2>2, <2>3, <2>4
<1>6. ASSUME NEW d \in Conn, Writable(d) \/ Lost(d) PROVE Goal
  <2>1. sock[d] \notin {"none", "accepted"} /\ UNCHANGED <<loopOf, stage>>
    BY <1>6 DEF Writable, Lost, IsActive
  <2>2. /\ \A e \in Conn \ {d} : sock'[e] = sock[e] /\ wire'[e] = wire[e]
        /\ sock'[d] \in {sock[d], "half", "lost", "closed"}
    BY <1>0, <1>6 DEF TypeOK, Writable, Written, Lost, Close
  <2> QED
    BY <1>2, <2>1, <2>2
<1>7. ASSUME NEW l \in Loop, RunTask(l) PROVE Goal
  <2>1. CASE CloseLoop(l)
    BY <1>0, <2>1 DEF TypeOK, CloseLoop, IsActive
  <2>2. CASE Admit(l)
    BY <1>0, <2>2, AdmitEffect DEF TypeOK
  <2>3. CASE FinishUpgrade(l)
    <3> DEFINE d == Head(tasks[l]).conn
    <3>1. /\ UNCHANGED <<sock, loopOf>>
          /\ IF IsActive(d)
             THEN /\ stage' = [stage EXCEPT ![d] = "websocket"]
                  /\ wire' = [wire EXCEPT ![d] = Append(@, Msg("101", d, 0))]
             ELSE UNCHANGED <<stage, wire>>
      BY <2>3 DEF FinishUpgrade
    <3> HIDE DEF d
    <3>2. ~IsActive(c)
      BY <3>1 DEF IsActive
    <3> QED
      BY <1>0, <1>1, <3>1, <3>2 DEF TypeOK
  <2> QED
    BY <1>1, <1>7, <2>1, <2>2, <2>3
    DEF RunTask, HandlerRemoved, SendText, CloseListener, LoopExit, connVars
<1>8. ASSUME NEW l \in Loop, Finish(l) PROVE Goal
  BY <1>1, <1>8 DEF Finish, ReadComplete, connVars
<1>9. ASSUME StopStep PROVE Goal
  BY <1>1, <1>9
  DEF StopStep, StopClear, StopCleared, StopListening, StopLoops, StopReturns, connVars
<1> QED
  BY <1>1, <1>3, <1>4, <1>5, <1>6, <1>7, <1>8, <1>9 DEF Next, vars, connVars

\* ... so it stays unheard of.
LEMMA FreshKept ==
    ASSUME IInv, StopInv, [Next]_vars
    PROVE  Fresh'
<1> SUFFICES ASSUME NEW c \in Conn, sock'[c] \in {"none", "accepted"}
             PROVE  stage'[c] \in {"none", "bare", "http"} /\ wire'[c] = << >>
  BY DEF Fresh
<1>1. ASSUME NEW a \in Addr, Accept(c, a)
      PROVE  stage'[c] \in {"none", "bare", "http"} /\ wire'[c] = << >>
  BY <1>1 DEF IInv, TypeOK, StopInv, Fresh, Accept
<1> QED
  BY <1>1, FreshEffect DEF StopInv, Fresh

\* Its registration is queued as it is accepted, and leaves the queue as it is
\* registered or refused.
LEMMA RegisteringKept ==
    ASSUME IInv, StopInv, [Next]_vars
    PROVE  Registering'
<1> SUFFICES ASSUME NEW c \in Conn, sock'[c] = "accepted", loopOf'[c] = 0
             PROVE  Queued(tasks'[0], c)
  BY DEF Registering
<1> DEFINE q == tasks[0]
           r == tasks'[0]
           t == LoopTask("register", c)
<1>0. /\ TypeOK /\ 0 \in Loop /\ q \in Seq(Task) /\ t \in Task
      /\ t.kind = "register" /\ t.conn = c
  BY ChannelsAssumption, LoopTaskType DEF IInv, TypeOK, Loop, TaskKind, LoopTask
<1>1. ASSUME NEW a \in Addr, Accept(c, a) PROVE Queued(r, c)
  <2>1. nextLoop = 0
    BY <1>0, <1>1 DEF TypeOK, Accept
  <2>2. r = Append(q, t)
    BY <1>0, <1>1, <2>1 DEF TypeOK, Accept, Idle, Execute
  <2> HIDE DEF q, r
  <2>3. Len(q) + 1 \in 1 .. Len(r) /\ r[Len(q) + 1] = t
    BY <1>0, <2>2
  <2> QED
    BY <2>3 DEF Queued
<1>2. ASSUME sock[c] = "accepted", loopOf[c] = 0 PROVE Queued(r, c)
  <2>1. PICK i \in 1 .. Len(q) : q[i] = t
    BY <1>2 DEF StopInv, Registering, Queued
  <2>2. CASE StopLoops
    <3>1. r = Append(q, LoopTask("closeLoop", None))
      BY <1>0, <2>2 DEF StopLoops
    <3> HIDE DEF q, r, t
    <3>2. i \in 1 .. Len(r) /\ r[i] = q[i]
      BY <1>0, <3>1
    <3> QED
      BY <2>1, <3>2 DEF Queued, t
  <2>3. CASE ~StopLoops /\ i = 1
    <3>1. q # << >> /\ q[1] = t /\ Head(q) = t
      BY <1>0, <2>1, <2>3
    <3>2. ~CloseLoop(0) /\ ~Register(0) /\ ~Refuse(0)
      <4>1. ~CloseLoop(0)
        BY <1>0, <3>1 DEF CloseLoop, HeadIs
      <4>2. ~Register(0)
        BY <1>0, <3>1 DEF TypeOK, Register
      <4>3. ~Refuse(0)
        BY <1>0, <3>1 DEF TypeOK, Refuse
      <4> QED
        BY <4>1, <4>2, <4>3
    <3>3. r = q \/ \E u \in Task : r = Append(q, u)
      BY <1>0, <2>3, <3>1, <3>2, HeadStays
    <3> HIDE DEF q, r, t
    <3>4. i \in 1 .. Len(r) /\ r[i] = q[i]
      BY <1>0, <3>3
    <3> QED
      BY <2>1, <3>4 DEF Queued, t
  <2>4. CASE ~StopLoops /\ i # 1
    <3>1. PICK T \in SUBSET Task : Turn(q, r, T)
      <4>1. Ordinary \in SUBSET Task /\ {u \in Task : u.kind = "send"} \in SUBSET Task
        BY DEF Ordinary
      <4> QED
        BY <1>0, <2>4, <4>1, TaskEffect, ReadTextTurn
    <3> HIDE DEF q, r, t
    <3>2. \E j \in 1 .. Len(r) : r[j] = q[i]
      BY <1>0, <2>4, <3>1, TurnKeepsTask
    <3> QED
      BY <2>1, <3>2 DEF Queued, t
  <2> QED
    BY <2>2, <2>3, <2>4
<1> QED
  BY <1>1, <1>2, FreshEffect DEF StopInv

\* What stop() does to loops, tasks and connections is kept by every step.
LEMMA StopInvariance == Spec => []StopInv
<1>1. IInv /\ StopInv /\ [Next]_vars => StopInv'
  BY AskingKept, EndedKept, ServedKept, FreshKept, RegisteringKept DEF StopInv
<1> QED
  BY <1>1, StopInit, Invariance, PTL DEF Spec

-----------------------------------------------------------------------------
(* The theorems.                                                           *)

\* Every variable has its type in every reachable state: next() never names a
\* loop there is not, and the queues hold nothing but what the handlers put there.
THEOREM TypeCorrect == Spec => []TypeOK
<1>1. IInv => TypeOK
  BY DEF IInv
<1> QED
  BY <1>1, Invariance, PTL

\* cacheChannel and clearChannel, whichever threads call them at once and
\* whatever they lose of each other's changes, leave under an address no
\* connection but one that has it and has been upgraded.
THEOREM AddressesKeyed == Spec => []KeyedByAddress
<1>1. IInv => KeyedByAddress
  BY DEF IInv
<1> QED
  BY <1>1, Invariance, PTL

\* The application is told of a connection first, and once, by channelAdded.
THEOREM ConnectComesFirst == Spec => []ConnectFirst
<1>1. IInv => ConnectFirst
  BY DEF IInv
<1> QED
  BY <1>1, Invariance, PTL

\* When stop() returns, its event loops have ended with nothing left to run,
\* nobody can connect, and no connection is active, whatever was being read,
\* written, upgraded or sent when it was called.  What it can leave open is a
\* connection that was being handed to its loop: never one of the server
\* channel's own loop, whose queue still holds its registration, and never one
\* the application has heard of or whose peer has been sent anything.
THEOREM StopLeavesNothing == Spec => []StoppedQuiet
<1>1. IInv /\ StopInv => StoppedQuiet
  <2> SUFFICES ASSUME IInv, StopInv, stopPc = "stopped"
               PROVE  /\ ~listening
                      /\ \A c \in Conn :
                            /\ ~IsActive(c)
                            /\ IsOpen(c) =>
                                  loopOf[c] # 0 /\ notes[c] = << >> /\ wire[c] = << >>
                      /\ \A l \in Loop :
                            tasks[l] = << >> /\ reading[l] = None /\ access[l] = None
    BY DEF StoppedQuiet
  <2>1. 0 \in Loop /\ \A l \in Loop : loopState[l] = "closed"
    BY ChannelsAssumption DEF StopInv, Asking, Loop
  <2>2. \A l \in Loop : tasks[l] = << >> /\ reading[l] = None /\ access[l] = None
    BY <2>1 DEF StopInv, Ended
  <2>3. ~listening /\ \A c \in Conn : ~IsActive(c)
    BY <2>1 DEF IInv, TypeOK, StopInv, Served
  <2>4. ASSUME NEW c \in Conn, IsOpen(c)
        PROVE  loopOf[c] # 0 /\ notes[c] = << >> /\ wire[c] = << >>
    <3>1. sock[c] = "accepted"
      BY <2>3, <2>4 DEF IsOpen
    <3>2. stage[c] \notin Upgraded /\ wire[c] = << >>
      BY <3>1 DEF StopInv, Fresh, Upgraded
    <3>3. notes[c] = << >>
      BY <3>2 DEF IInv, NotesInv
    <3>4. ~Queued(tasks[0], c)
      BY <2>1, <2>2 DEF Queued
    <3> QED
      BY <3>1, <3>2, <3>3, <3>4 DEF StopInv, Registering
  <2> QED
    BY <2>2, <2>3, <2>4
<1> QED
  BY <1>1, Invariance, StopInvariance, PTL

\* syncShutdownGracefully has waited for every loop: once stop() returns, no
\* frame is read, nothing is written, nobody is accepted and the application
\* hears of no connection, whatever was under way when it was called.
THEOREM NothingRuns == Spec => NothingRunsAfterStop
<1>1. IInv /\ StopInv /\ [Next]_vars => [stopPc # "stopped"]_vars
  <2> SUFFICES ASSUME IInv, StopInv, Next, stopPc = "stopped" PROVE FALSE
    OBVIOUS
  <2>1. /\ \A l \in Loop : /\ loopState[l] = "closed" /\ tasks[l] = << >>
                           /\ reading[l] = None /\ access[l] = None
        /\ ~listening
        /\ \A c \in Conn : ~IsActive(c) /\ loopOf[c] \in Loop
    <3>1. \A l \in Loop : loopState[l] = "closed"
      BY DEF StopInv, Asking
    <3>2. \A c \in Conn : loopOf[c] \in Loop
      BY DEF IInv, TypeOK
    <3>3. 0 \in Loop
      BY ChannelsAssumption DEF Loop
    <3>4. ~listening /\ \A c \in Conn : ~IsActive(c)
      BY <3>1, <3>2, <3>3 DEF StopInv, Served
    <3> QED
      BY <3>1, <3>2, <3>4 DEF StopInv, Ended
  <2>2. \A l \in Loop : ~Idle(l)
    BY <2>1 DEF Idle
  <2>3. ASSUME NEW c \in Conn, NEW a \in Addr PROVE ~Accept(c, a)
    BY <2>1 DEF Accept
  <2>4. ASSUME NEW c \in Conn PROVE ~Request(c)
    <3>1. ASSUME NEW kind PROVE ~ReadsRequest(c, kind)
      BY <2>1 DEF ReadsRequest
    <3> QED
      BY <3>1 DEF Request, ReadUpgrade, ReadGet, ReadOther
  <2>5. ASSUME NEW c \in Conn PROVE ~Frame(c)
    <3>1. ASSUME NEW kind PROVE ~ReadsFrame(c, kind)
      BY <2>1 DEF ReadsFrame
    <3> QED
      BY <3>1 DEF Frame, ReadText, ReadPing, ReadClose, ReadReserved, ReadInvalid
  <2>6. ASSUME NEW c \in Conn PROVE ~Writable(c) /\ ~Lost(c)
    BY <2>1 DEF Writable, Lost
  <2>7. ASSUME NEW l \in Loop PROVE ~RunTask(l)
    BY <2>1, <2>2, AdmitEffect
    DEF RunTask, FinishUpgrade, HandlerRemoved, SendText, CloseListener, CloseLoop, LoopExit
  <2>8. ASSUME NEW l \in Loop PROVE ~Finish(l)
    BY <2>1 DEF Finish, EndChange, Commit, ReadComplete
  <2>9. ~StopStep
    BY DEF StopStep, StopClear, StopCleared, StopListening, StopLoops, StopReturns
  <2>10. ~RaceCrash
    BY <2>1 DEF RaceCrash, Thread
  <2> QED
    BY <2>3, <2>4, <2>5, <2>6, <2>7, <2>8, <2>9, <2>10 DEF Next
<1> QED
  BY <1>1, Invariance, StopInvariance, PTL DEF Spec, NothingRunsAfterStop

-----------------------------------------------------------------------------
(* What stop() waits for.                                                  *)

AsksToEnd(q) == \E i \in 1 .. Len(q) : q[i].kind = "closeLoop"

\* stop() never waits for a loop that does not know of it: every loop that is
\* still open has its end in its queue.
StopIsKnown ==
    stopPc = "waiting" => \A l \in Loop : loopState[l] = "open" => AsksToEnd(tasks[l])

\* Only stop() itself goes on to wait, and only it ends the waiting.
LEMMA WaitingKept ==
    ASSUME IInv, StopIsKnown, [Next]_vars
    PROVE  StopIsKnown'
<1> SUFFICES ASSUME stopPc' = "waiting", NEW l \in Loop, loopState'[l] = "open"
             PROVE  AsksToEnd(tasks'[l])
  BY DEF StopIsKnown
<1>0. TypeOK
  BY DEF IInv
<1>1. CASE StopLoops
  <2> DEFINE q == tasks[l]
             t == LoopTask("closeLoop", None)
  <2>1. tasks'[l] = Append(q, t) /\ q \in Seq(Task) /\ t.kind = "closeLoop"
    BY <1>0, <1>1 DEF StopLoops, TypeOK, LoopTask
  <2> HIDE DEF q, t
  <2>2. Len(q) + 1 \in 1 .. Len(tasks'[l]) /\ tasks'[l][Len(q) + 1] = t
    BY <2>1
  <2> QED
    BY <2>1, <2>2 DEF AsksToEnd
<1>2. CASE ~StopLoops
  <2>1. stopPc = "waiting"
    <3>1. ASSUME NEW c \in Conn, Writable(c) \/ Lost(c) PROVE UNCHANGED stopPc
      BY <3>1 DEF Writable, Lost
    <3>2. ASSUME NEW k \in Loop, RunTask(k) \/ Finish(k) PROVE UNCHANGED stopPc
      BY <3>2 DEF RunTask, CloseListener, CloseLoop, LoopExit, Finish
    <3>3. CASE StopStep
      BY <1>2, <3>3 DEF StopStep, StopClear, StopCleared, StopListening, StopReturns
    <3> QED
      BY <3>1, <3>2, <3>3 DEF Next, vars
  <2>2. loopState[l] = "open" /\ ~CloseLoop(l)
    <3>1. ~CloseLoop(l)
      BY <1>0 DEF TypeOK, CloseLoop
    <3>2. ASSUME NEW k \in Loop, CloseLoop(k) \/ LoopExit(k) PROVE loopState[l] = "open"
      BY <1>0, <3>2 DEF TypeOK, CloseLoop, LoopExit
    <3> QED
      BY <3>1, <3>2, LoopEffect
  <2>3. AsksToEnd(tasks[l]) /\ tasks[l] \in Seq(Task)
    BY <1>0, <2>1, <2>2 DEF StopIsKnown, TypeOK
  <2>4. tasks[l] # << >>
    BY <2>3 DEF AsksToEnd
  <2>5. PICK i \in 1 .. Len(tasks[l]) : tasks[l][i].kind = "closeLoop"
    BY <2>3 DEF AsksToEnd
  <2>6. \E j \in 1 .. Len(tasks'[l]) : tasks'[l][j] = tasks[l][i]
    <3>1. CASE i = 1
      <4>1. ~Register(l) /\ ~Refuse(l)
        BY <2>3, <2>5, <3>1 DEF Register, Refuse, HeadIs
      <4>2. tasks'[l] = tasks[l] \/ \E t \in Task : tasks'[l] = Append(tasks[l], t)
        BY <1>2, <2>2, <2>4, <2>5, <3>1, <4>1, HeadStays
      <4>3. Turn(tasks[l], tasks'[l], Task)
        BY <4>2 DEF Turn
      <4> DEFINE q == tasks[l]
                 r == tasks'[l]
      <4>4. r = q \/ \E t \in Task : r = Append(q, t)
        BY <4>2
      <4>5. q \in Seq(Task) /\ Turn(q, r, Task) /\ i \in 1 .. Len(q) /\ Task \in SUBSET Task
        BY <2>3, <4>3
      <4> HIDE DEF q, r
      <4>6. \E j \in 1 .. Len(r) : r[j] = q[i]
        BY <4>4, <4>5, TurnKeepsTask
      <4> QED
        BY <4>6 DEF q, r
    <3>2. CASE i # 1
      <4>1. Ordinary \in SUBSET Task /\ {t \in Task : t.kind = "send"} \in SUBSET Task
        BY DEF Ordinary
      <4> DEFINE q == tasks[l]
                 r == tasks'[l]
      <4>2. PICK T \in SUBSET Task : Turn(q, r, T)
        BY <1>2, <4>1, TaskEffect, ReadTextTurn
      <4>3. q \in Seq(Task) /\ i \in 1 .. Len(q)
        BY <2>3
      <4> HIDE DEF q, r
      <4>4. \E j \in 1 .. Len(r) : r[j] = q[i]
        BY <3>2, <4>2, <4>3, TurnKeepsTask
      <4> QED
        BY <4>4 DEF q, r
    <3> QED
      BY <3>1, <3>2
  <2> QED
    BY <2>5, <2>6 DEF AsksToEnd
<1> QED
  BY <1>1, <1>2

\* syncShutdownGracefully waits for no loop that will not end: each has been
\* told, and what tells it stays in its queue until it closes (the half of
\* StopEnds that no fairness is needed for).
THEOREM StopWaitsForTold == Spec => []StopIsKnown
<1>1. Init => StopIsKnown
  BY DEF Init, StopIsKnown
<1>2. IInv /\ StopIsKnown /\ [Next]_vars => StopIsKnown'
  BY WaitingKept
<1> QED
  BY <1>1, <1>2, Invariance, PTL DEF Spec

=============================================================================
