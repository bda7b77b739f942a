-------------------- MODULE NIOHttpServerSessions_proofs --------------------
(***************************************************************************)
(* What NIOHttpServer keeps true on one event loop, for any number of      *)
(* connections, addresses and frames: a client is found under its address, *)
(* its texts come back to it, and the server implements Sessions.          *)
(***************************************************************************)
EXTENDS NIOHttpServerSessions, NIOHttpServerWire_proofs

Leaving == {"disconnect", "close"}

\* c is open, or frames of its last batch are still delivered.
Attended(c) == IsActive(c) \/ reading[0] = c

\* No other open connection has the address of d.
Alone(d) == \A c \in Conn : IsOpen(c) /\ addr[c] = addr[d] => c = d

\* Addresses are unique among open connections, and what the loop reads or
\* changes the dictionary for shares its address with none of them.
AloneInv ==
    /\ \A c \in Conn : IsOpen(c) => Alone(c)
    /\ reading[0] # None => stage[reading[0]] \in Upgraded /\ Alone(reading[0])
    /\ access[0] # None =>
          /\ Alone(access[0].conn)
          /\ reading[0] \in {None, access[0].conn}
          /\ access[0].note \in Leaving \cup {"connect"}
          /\ access[0].note = "connect" =>
                IsActive(access[0].conn) /\ stage[access[0].conn] = "websocket"

\* The dictionary has nobody else under the address of an announced client that
\* is open.
Own(table) ==
    \A c \in Conn : notes[c] # << >> /\ Attended(c) => table[addr[c]] \in {c, None}

OwnInv ==
    /\ Own(connectedChannels)
    /\ access[0] # None => Own(access[0].seen)

\* Texts go home, those that are queued and those that are written.
HomeInv ==
    /\ \A i \in 1 .. Len(tasks[0]) :
          tasks[0][i].kind = "send" => tasks[0][i].conn = tasks[0][i].from
    /\ \A c \in Conn : \A i \in 1 .. Len(Line(c)) :
          Line(c)[i].kind = "text" => Line(c)[i].from = c

\* c is a client the application has heard of and has not heard leave.
Known(c) ==
    /\ sock[c] = "open"
    /\ stage[c] = "websocket"
    /\ notes[c] # << >>
    /\ Kinds(notes[c]) \cap Leaving = {}

\* Before stop() is called, no change of the dictionary is lost, and it holds
\* every known client whose entry is not just being removed.
ReachInv ==
    stopPc = "running" =>
        /\ access[serverQueue] = None
        /\ access[0] # None => access[0].seen = connectedChannels
        /\ \A c \in Conn :
              Known(c) /\ ~(access[0] # None /\ access[0].conn = c)
                  => connectedChannels[addr[c]] = c

\* Notifications carry the numbers of frames that have been read.
NumberInv == \A c \in Conn : \A i \in 1 .. Len(notes[c]) : notes[c][i].n <= frames[c]

SessionInv == AloneInv /\ OwnInv /\ HomeInv /\ ReachInv /\ NumberInv

-----------------------------------------------------------------------------
(* The steps, as sessions see them.                                        *)

\* With one loop, everything happens on it.
LEMMA OneLoop ==
    ASSUME NLoops = 1
    PROVE  /\ Loop = {0} /\ serverQueue = 1 /\ Thread = {0, 1}
           /\ TypeOK => \A c \in Conn : loopOf[c] = 0
<1>1. Loop = {0}
  BY DEF Loop
<1> QED
  BY <1>1 DEF serverQueue, Thread, TypeOK

\* No connection opens, none becomes a WebSocket.
Shrinks ==
    \A c \in Conn :
        /\ IsActive(c)' => IsActive(c)
        /\ IsOpen(c)' => IsOpen(c)
        /\ sock'[c] = "open" => sock[c] = "open"
        /\ stage'[c] = "websocket" => stage[c] = "websocket"

\* Nothing happens to sessions, except that some may close while the loop has
\* no change of the dictionary in hand.
Quiet ==
    /\ Shrinks
    /\ access[0] # None => UNCHANGED <<sock, stage>>
    /\ UNCHANGED <<addr, reading, access, connectedChannels, notes>>

\* A connection goes on its way to its loop, unheard of as yet.
Enters ==
    /\ access[0] = None
    /\ \A c \in Conn :
          /\ IsOpen(c)' => IsOpen(c)
          /\ sock'[c] # sock[c] \/ stage'[c] # stage[c] => notes[c] = << >>
    /\ UNCHANGED <<addr, reading, access, connectedChannels, notes>>

\* A frame of c is read.
Reads(c) ==
    /\ stage[c] = "websocket"
    /\ access[0] = None
    /\ reading[0] = c \/ (reading[0] = None /\ IsActive(c))
    /\ reading' = [reading EXCEPT ![0] = c]
    /\ Shrinks
    /\ UNCHANGED <<addr, connectedChannels>>
    /\ \/ UNCHANGED <<access, notes>>
       \/ UNCHANGED notes /\ \E k \in Leaving : BeginChange(0, c, k)
       \/ UNCHANGED access /\ ReadText(c)

\* c becomes a WebSocket.
Joins(c) ==
    /\ c \in Conn
    /\ stage[c] = "upgrading"
    /\ IsActive(c)
    /\ Idle(0)
    /\ stage' = [stage EXCEPT ![c] = "websocket"]
    /\ BeginChange(0, c, "connect")
    /\ UNCHANGED <<sock, addr, reading, connectedChannels, notes>>

\* Every step is one of these.
LEMMA SessionStep ==
    ASSUME NLoops = 1, IInv, Fresh, [Next]_vars
    PROVE  \/ Quiet
           \/ Enters
           \/ \E c \in Conn : \E a \in Addr : Accept(c, a)
           \/ \E c \in Conn : Reads(c)
           \/ \E c \in Conn : Joins(c)
           \/ EndChange(0) /\ UNCHANGED <<connVars, loopVars, trap, handlerVars, stopPc>>
           \/ ReadComplete(0)
           \/ StopClear \/ StopCleared
<1>0. TypeOK /\ Located /\ MoveInv /\ Loop = {0} /\ \A c \in Conn : loopOf[c] = 0
  BY OneLoop DEF IInv
<1>1. ASSUME UNCHANGED <<sock, stage>> PROVE Shrinks
  BY <1>1 DEF Shrinks, IsActive, IsOpen
<1>2. ASSUME NEW c \in Conn, NEW why \in {"lost", "closed"}, Close(c, why), UNCHANGED stage
      PROVE  Shrinks
  BY <1>0, <1>2 DEF TypeOK, Close, Shrinks, IsActive, IsOpen
<1>3. ASSUME NEW c \in Conn, Request(c) PROVE Quiet
  <2>0. access[0] = None
    BY <1>0, <1>3 DEF Request, ReadUpgrade, ReadGet, ReadOther, ReadsRequest, Idle
  <2>1. UNCHANGED <<sock, addr, reading, access, connectedChannels, notes>>
    BY <1>3 DEF Request, ReadUpgrade, ReadGet, ReadOther, loopVars, tableVars
  <2>2. \A d \in Conn : stage'[d] = "websocket" => stage[d] = "websocket"
    BY <1>0, <1>3 DEF TypeOK, Request, ReadUpgrade, ReadGet, ReadOther
  <2> QED
    BY <2>0, <2>1, <2>2 DEF Quiet, Shrinks, IsActive, IsOpen
<1>4. ASSUME NEW c \in Conn, Frame(c) PROVE Reads(c)
  <2>1. PICK k \in {"text", "ping", "close", "reserved", "invalid"} : ReadsFrame(c, k)
    BY <1>4 DEF Frame, ReadText, ReadPing, ReadClose, ReadReserved, ReadInvalid
  <2>2. /\ stage[c] = "websocket"
        /\ access[0] = None
        /\ reading[0] = c \/ (reading[0] = None /\ IsActive(c))
        /\ reading' = [reading EXCEPT ![0] = c]
    BY <1>0, <2>1 DEF ReadsFrame
  <2>3. UNCHANGED <<addr, connectedChannels>>
    BY <1>4
    DEF Frame, ReadText, ReadPing, ReadClose, ReadReserved, ReadInvalid, connVars, tableVars
  <2>4. Shrinks
    <3>1. CASE ReadText(c)
      BY <1>1, <3>1 DEF ReadText, connVars
    <3>2. CASE ReadPing(c) \/ ReadReserved(c)
      BY <1>1, <3>2 DEF ReadPing, ReadReserved
    <3>3. CASE ReadClose(c)
      BY <1>1, <1>2, <3>3 DEF ReadClose
    <3>4. CASE ReadInvalid(c)
      BY <1>0, <3>4 DEF TypeOK, ReadInvalid, Close, Shrinks, IsActive, IsOpen
    <3> QED
      BY <1>4, <3>1, <3>2, <3>3, <3>4 DEF Frame
  <2>5. \/ UNCHANGED <<access, notes>>
        \/ UNCHANGED notes /\ \E note \in Leaving : BeginChange(0, c, note)
        \/ UNCHANGED access /\ ReadText(c)
    <3>1. CASE ReadText(c)
      BY <3>1 DEF ReadText
    <3>2. CASE ReadPing(c) \/ ReadInvalid(c)
      BY <3>2 DEF ReadPing, ReadInvalid, tableVars
    <3>3. CASE ReadClose(c) \/ ReadReserved(c)
      BY <1>0, <3>3 DEF ReadClose, ReadReserved, Leaving
    <3> QED
      BY <1>4, <3>1, <3>2, <3>3 DEF Frame
  <2> QED
    BY <2>2, <2>3, <2>4, <2>5 DEF Reads
<1>5. ASSUME NEW c \in Conn, Writable(c) PROVE Quiet
  <2>0. access[0] = None
    BY <1>0, <1>5 DEF Writable, Idle
  <2>1. IsActive(c) /\ UNCHANGED <<stage, addr, reading, access, connectedChannels, notes>>
    BY <1>5 DEF Writable, tableVars
  <2>2. \/ UNCHANGED sock
        \/ sock' = [sock EXCEPT ![c] = "half"]
        \/ Close(c, "closed")
    BY <1>5 DEF Writable, Written
  <2>3. sock' = [sock EXCEPT ![c] = "half"] => Shrinks
    BY <1>0, <2>1 DEF TypeOK, Shrinks, IsActive, IsOpen
  <2> QED
    BY <1>1, <1>2, <2>0, <2>1, <2>2, <2>3 DEF Quiet
<1>6. ASSUME NEW c \in Conn, Lost(c) PROVE Quiet
  BY <1>0, <1>2, <1>6 DEF Lost, Quiet, tableVars, Idle
<1>7. ASSUME NEW l \in Loop, RunTask(l)
      PROVE  Quiet \/ Enters \/ \E c \in Conn : Joins(c)
  <2>1. CASE FinishUpgrade(l)
    <3> DEFINE c == Head(tasks[l]).conn
    <3>1. l = 0 /\ UNCHANGED <<sock, addr, reading, connectedChannels, notes>> /\ Idle(0)
      BY <1>0, <2>1 DEF FinishUpgrade
    <3>2. CASE ~IsActive(c)
      <4>1. UNCHANGED <<stage, access>>
        BY <2>1, <3>2 DEF FinishUpgrade
      <4> QED
        BY <1>1, <3>1, <4>1 DEF Quiet
    <3>3. CASE IsActive(c)
      <4>1. /\ tasks[l] \in Seq(Task) /\ tasks[l] # << >> /\ Head(tasks[l]).kind = "upgrade"
            /\ MovesOf(tasks[l], l, stage, loopOf)
        BY <1>0, <2>1 DEF TypeOK, MoveInv, FinishUpgrade, HeadIs
      <4>2. 1 \in 1 .. Len(tasks[l]) /\ Head(tasks[l]) = tasks[l][1]
        BY <4>1
      <4>3. c \in Conn /\ stage[c] = "upgrading"
        BY <4>1, <4>2 DEF MovesOf, MoveKind, Before
      <4>4. stage' = [stage EXCEPT ![c] = "websocket"] /\ BeginChange(0, c, "connect")
        BY <2>1, <3>1, <3>3 DEF FinishUpgrade
      <4>5. Joins(c)
        BY <3>1, <3>3, <4>3, <4>4 DEF Joins
      <4> QED
        BY <4>3, <4>5
    <3> QED
      BY <3>2, <3>3
  <2>2. CASE CloseLoop(l)
    <3>1. Shrinks /\ access[0] = None
      BY <1>0, <2>2 DEF TypeOK, CloseLoop, Shrinks, IsActive, IsOpen, Idle
    <3> QED
      BY <2>2, <3>1 DEF CloseLoop, Quiet, tableVars
  <2>3. ASSUME HandlerRemoved(l) \/ SendText(l) \/ CloseListener(l) \/ LoopExit(l) PROVE Quiet
    BY <1>1, <2>3
    DEF HandlerRemoved, SendText, CloseListener, LoopExit, Quiet, connVars, tableVars
  <2>4. CASE Admit(l)
    <3>1. /\ UNCHANGED <<addr, reading, access, connectedChannels, notes>>
          /\ access[0] = None
      BY <1>0, <2>4, AdmitEffect DEF Idle
    <3>2. ASSUME NEW c \in Conn, sock'[c] # sock[c] \/ stage'[c] # stage[c]
          PROVE  stage[c] \notin Upgraded
      <4>1. CASE sock'[c] # sock[c]
        BY <2>4, <4>1, AdmitEffect DEF Fresh, Upgraded
      <4>2. CASE stage'[c] # stage[c]
        BY <1>0, <2>4, <4>2, AdmitEffect DEF TypeOK, Upgraded
      <4> QED
        BY <3>2, <4>1, <4>2
    <3>3. \A c \in Conn : IsOpen(c)' => IsOpen(c)
      BY <2>4, AdmitEffect DEF IsOpen, IsActive
    <3> QED
      BY <3>1, <3>2, <3>3 DEF Enters, IInv, NotesInv
  <2> QED
    BY <1>7, <2>1, <2>2, <2>3, <2>4 DEF RunTask
<1>8. ASSUME NEW l \in Loop, Finish(l)
      PROVE  \/ EndChange(0) /\ UNCHANGED <<connVars, loopVars, trap, handlerVars, stopPc>>
             \/ ReadComplete(0)
  BY <1>0, <1>8 DEF Finish
<1>9. CASE StopStep
  <2>1. ASSUME StopListening \/ StopLoops \/ StopReturns PROVE Quiet
    BY <1>1, <2>1
    DEF StopListening, StopLoops, StopReturns, Quiet, connVars, loopVars, tableVars
  <2> QED
    BY <1>9, <2>1 DEF StopStep
<1>10. CASE UNCHANGED vars
  BY <1>1, <1>10 DEF vars, Quiet, connVars, loopVars, tableVars
<1>11. CASE RaceCrash /\ UNCHANGED <<connVars, loopVars, tableVars, handlerVars, stopPc>>
  BY <1>1, <1>11 DEF Quiet, connVars, loopVars, tableVars
<1> QED
  BY <1>3, <1>4, <1>5, <1>6, <1>7, <1>8, <1>9, <1>10, <1>11 DEF Next

-----------------------------------------------------------------------------
(* The parts of the invariant, one by one.                                 *)

\* A connection that is accepted finds its address free.
LEMMA AcceptAlone ==
    ASSUME NLoops = 1, IInv, AloneInv, NEW c \in Conn, NEW a \in Addr, Accept(c, a)
    PROVE  AloneInv'
<1>0. TypeOK /\ nextLoop = 0
  BY OneLoop DEF IInv, TypeOK
<1>1. reading[0] = None /\ access[0] = None /\ UNCHANGED <<reading, access>>
  BY <1>0 DEF Accept, Idle, tableVars
<1>2. \A d \in Conn : IsOpen(d)' => IF d = c THEN addr'[d] = a
                                    ELSE IsOpen(d) /\ addr'[d] = addr[d]
  BY <1>0 DEF TypeOK, Accept, IsOpen, IsActive
<1>3. \A d \in Conn : IsOpen(d) => addr[d] # a
  BY DEF Accept
<1>4. \A d, e \in Conn : IsOpen(d)' /\ IsOpen(e)' /\ addr'[e] = addr'[d] => e = d
  BY <1>2, <1>3 DEF AloneInv, Alone
<1> QED
  BY <1>1, <1>4 DEF AloneInv, Alone

\* Addresses stay unique.
LEMMA AloneKept ==
    ASSUME NLoops = 1, IInv, Fresh, AloneInv, [Next]_vars
    PROVE  AloneInv'
<1>0. TypeOK /\ AccessInv /\ Loop = {0} /\ Thread = {0, 1} /\ serverQueue = 1
  BY OneLoop DEF IInv
<1>1. \A c \in Conn : stage[c] \in Upgraded => stage'[c] \in Upgraded
  BY Steady
<1>2. ASSUME \A c \in Conn : IsOpen(c)' => IsOpen(c), UNCHANGED addr,
             NEW c \in Conn, Alone(c)
      PROVE  Alone(c)'
  BY <1>2 DEF Alone
<1>3. reading[0] \in Conn \cup {None} /\ (access[0] # None => access[0].conn \in Conn)
  <2>1. reading[0] \in Conn \cup {None} /\ access[0] \in Change \cup {None}
    BY <1>0 DEF TypeOK
  <2>2. access[0] # None => access[0].conn # None
    BY <1>0 DEF AccessInv
  <2> QED
    BY <2>1, <2>2 DEF Change
<1>4. CASE Quiet
  <2>1. access[0] # None => \A c \in Conn : IsActive(c)' = IsActive(c)
    BY <1>4 DEF Quiet, IsActive
  <2>2. UNCHANGED <<reading, access>> /\ \A d \in Conn : Alone(d) => Alone(d)'
    BY <1>2, <1>4 DEF Quiet, Shrinks
  <2>3. \A d \in Conn : IsOpen(d)' => Alone(d)'
    BY <1>4, <2>2 DEF Quiet, Shrinks, AloneInv
  <2>4. access[0] # None => UNCHANGED stage
    BY <1>4 DEF Quiet
  <2>5. reading[0] # None => stage'[reading[0]] \in Upgraded /\ Alone(reading[0])'
    BY <1>1, <1>3, <2>2 DEF AloneInv
  <2>6. ASSUME access[0] # None, NEW d \in Conn, d = access[0].conn
        PROVE  /\ Alone(d)' /\ reading'[0] \in {None, d}
               /\ access'[0].note \in Leaving \cup {"connect"}
               /\ access'[0].note = "connect" => IsActive(d)' /\ stage'[d] = "websocket"
    BY <2>1, <2>2, <2>4, <2>6 DEF AloneInv
  <2>7. access'[0] # None =>
          /\ Alone(access[0].conn)' /\ reading'[0] \in {None, access'[0].conn}
          /\ access'[0].note \in Leaving \cup {"connect"}
          /\ access'[0].note = "connect" =>
                IsActive(access[0].conn)' /\ stage'[access'[0].conn] = "websocket"
    BY <1>3, <2>2, <2>6
  <2> QED
    BY <2>2, <2>3, <2>5, <2>7 DEF AloneInv
<1>5. ASSUME NEW c \in Conn, Reads(c) PROVE AloneInv'
  <2>0. UNCHANGED addr /\ \A d \in Conn : IsOpen(d)' => IsOpen(d)
    BY <1>5 DEF Reads, Shrinks
  <2>1. Alone(c)' /\ reading'[0] = c /\ stage'[c] \in Upgraded
    <3>1. Alone(c)
      BY <1>5, ChannelsAssumption DEF Reads, AloneInv, IsOpen
    <3>2. Alone(c)'
      BY <1>2, <2>0, <3>1
    <3>3. reading'[0] = c /\ stage[c] \in Upgraded
      BY <1>0, <1>5 DEF TypeOK, Reads, Upgraded
    <3> QED
      BY <1>1, <3>2, <3>3
  <2>2. \A d \in Conn : IsOpen(d)' => Alone(d)'
    BY <1>2, <2>0 DEF AloneInv
  <2>3. \/ access'[0] = None
        \/ access'[0].conn = c /\ access'[0].note \in Leaving
    BY <1>0, <1>5 DEF TypeOK, Reads, ReadText, BeginChange
  <2> QED
    BY <2>1, <2>2, <2>3 DEF AloneInv, Leaving
<1>6. ASSUME NEW c \in Conn, Joins(c) PROVE AloneInv'
  <2>1. /\ access'[0].conn = c /\ access'[0].note = "connect"
        /\ stage'[c] = "websocket" /\ reading'[0] = None
    BY <1>0, <1>6 DEF TypeOK, Joins, BeginChange, Idle
  <2>2. \A d \in Conn : /\ IsOpen(d)' = IsOpen(d) /\ Alone(d)' = Alone(d)
                        /\ IsActive(d)' = IsActive(d)
    BY <1>6 DEF Joins, IsActive, IsOpen, Alone
  <2>3. /\ \A d \in Conn : IsOpen(d)' => Alone(d)'
        /\ Alone(c)' /\ IsActive(c)'
    BY <1>6, <2>2 DEF Joins, AloneInv, IsOpen
  <2> QED
    BY <2>1, <2>3 DEF AloneInv
<1>7. ASSUME UNCHANGED <<sock, addr, stage>>,
             reading' = reading \/ reading'[0] = None,
             access'[0] \in {access[0], None}
      PROVE  AloneInv'
  <2>1. \A d \in Conn : /\ IsOpen(d)' = IsOpen(d) /\ Alone(d)' = Alone(d)
                        /\ IsActive(d)' = IsActive(d)
    BY <1>7 DEF IsActive, IsOpen, Alone
  <2> QED
    BY <1>3, <1>7, <2>1 DEF AloneInv
<1>8. CASE EndChange(0) /\ UNCHANGED <<connVars, loopVars, trap, handlerVars, stopPc>>
  BY <1>0, <1>7, <1>8 DEF TypeOK, EndChange, Commit, connVars, loopVars
<1>9. CASE ReadComplete(0)
  BY <1>0, <1>7, <1>9 DEF TypeOK, ReadComplete, connVars, tableVars
<1>10. CASE StopClear \/ StopCleared
  BY <1>0, <1>7, <1>10
  DEF TypeOK, StopClear, StopCleared, Commit, BeginChange, connVars, loopVars
<1>11. CASE Enters
  <2>1. UNCHANGED <<addr, reading, access>> /\ access[0] = None
    BY <1>11 DEF Enters
  <2>2. \A d \in Conn : (IsOpen(d)' => IsOpen(d)) /\ (Alone(d) => Alone(d)')
    BY <1>2, <1>11 DEF Enters
  <2>3. ASSUME NEW d \in Conn, d = reading[0] PROVE stage'[d] \in Upgraded /\ Alone(d)'
    BY <1>1, <2>2, <2>3, ChannelsAssumption DEF AloneInv
  <2>4. reading'[0] # None => reading'[0] \in Conn /\ reading'[0] = reading[0]
    BY <1>3, <2>1
  <2>5. reading'[0] # None => stage'[reading'[0]] \in Upgraded /\ Alone(reading[0])'
    BY <2>3, <2>4
  <2>6. \A d \in Conn : IsOpen(d)' => Alone(d)'
    BY <2>2 DEF AloneInv
  <2> QED
    BY <2>1, <2>5, <2>6 DEF AloneInv
<1> QED
  BY SessionStep, AcceptAlone, <1>4, <1>5, <1>6, <1>8, <1>9, <1>10, <1>11

\* A change of the loop leaves no other open connection's entry behind: the
\* address it writes belongs to the connection it is made for.
LEMMA ChangeOwns ==
    ASSUME NLoops = 1, IInv, AloneInv, access[0] # None,
           NEW T \in Table, Own(T), NEW c \in Conn,
           notes[c] # << >> \/ c = access[0].conn, Attended(c)
    PROVE  Changed(T, access[0])[addr[c]] \in {c, None}
<1> DEFINE d == access[0].conn
<1>1. d \in Conn /\ addr[d] \in Addr /\ addr[c] \in Addr
  <2>1. 0 \in Loop /\ 0 \in Thread
    BY OneLoop
  <2>2. access[0] \in Change /\ d # None /\ stage[d] \in Upgraded
    BY <2>1 DEF IInv, TypeOK, AccessInv
  <2>3. d \in Conn
    BY <2>2 DEF Change
  <2>4. \A e \in Conn : stage[e] \in Upgraded => addr[e] \in Addr
    BY DEF IInv, Located, Upgraded
  <2>5. notes[c] # << >> => stage[c] \in Upgraded
    BY DEF IInv, NotesInv
  <2> QED
    BY <2>2, <2>3, <2>4, <2>5
<1>2. CASE c = d
  BY <1>1, <1>2, ChannelsAssumption DEF Changed, Table
<1>3. CASE c # d
  <2>1. addr[c] # addr[d]
    <3>1. IsActive(c) /\ addr[c] = addr[d] => c = d
      BY <1>1 DEF AloneInv, Alone, IsOpen
    <3>2. reading[0] = c => c = d
      BY ChannelsAssumption DEF AloneInv
    <3> QED
      BY <1>3, <3>1, <3>2 DEF Attended
  <2>2. Changed(T, access[0])[addr[c]] = T[addr[c]]
    BY <1>1, <2>1, ChannelsAssumption DEF Changed, Table
  <2> QED
    BY <1>3, <2>2 DEF Own
<1> QED
  BY <1>2, <1>3

\* An announced client that is open keeps its address for itself.
LEMMA OwnKept ==
    ASSUME NLoops = 1, IInv, Fresh, AloneInv, OwnInv, [Next]_vars
    PROVE  OwnInv'
<1> DEFINE Owns(T) == \A c \in Conn :
               notes'[c] # << >> /\ Attended(c)' => T[addr'[c]] \in {c, None}
           Fewer == \A c \in Conn : notes'[c] # << >> /\ Attended(c)' =>
                       notes[c] # << >> /\ Attended(c) /\ addr'[c] = addr[c]
<1>0. /\ TypeOK /\ AccessInv /\ NotesInv /\ Located /\ ConnectFirst
      /\ Loop = {0} /\ Thread = {0, 1} /\ serverQueue = 1
      /\ \A c \in Conn : loopOf[c] = 0
  BY OneLoop DEF IInv
<1>1. ASSUME Fewer, NEW T, Own(T) PROVE Owns(T)
  BY <1>1 DEF Own
<1>2. ASSUME Owns(connectedChannels'), access'[0] # None => Owns(access'[0].seen)
      PROVE  OwnInv'
  BY <1>2 DEF OwnInv, Own
<1>3. ASSUME Fewer, UNCHANGED connectedChannels,
             access'[0] # None =>
                access'[0].seen = connectedChannels \/ access'[0] = access[0]
      PROVE  OwnInv'
  BY <1>1, <1>2, <1>3 DEF OwnInv
<1> HIDE DEF Owns
<1>4. CASE Quiet
  <2>1. Fewer
    BY <1>4 DEF Quiet, Shrinks, Attended
  <2> QED
    BY <1>3, <1>4, <2>1 DEF Quiet
<1>5. ASSUME NEW c \in Conn, NEW a \in Addr, Accept(c, a) PROVE OwnInv'
  <2>1. notes[c] = << >> /\ UNCHANGED tableVars /\ UNCHANGED reading
    BY <1>0, <1>5 DEF Accept, Located, NotesInv, Upgraded
  <2>2. \A d \in Conn : d # c => sock'[d] = sock[d] /\ addr'[d] = addr[d]
    BY <1>0, <1>5 DEF TypeOK, Accept
  <2>3. Fewer
    BY <2>1, <2>2 DEF tableVars, Attended, IsActive
  <2> QED
    BY <1>3, <2>1, <2>3 DEF tableVars
<1>6. ASSUME NEW c \in Conn, Reads(c) PROVE OwnInv'
  <2>1. notes[c] # << >> /\ Attended(c)
    BY <1>0, <1>6 DEF Reads, NotesInv, Connecting, Upgraded, Attended
  <2>2. \A d \in Conn : d # c => notes'[d] = notes[d]
    BY <1>0, <1>6 DEF TypeOK, Reads, ReadText
  <2>3. \A d \in Conn : d # c /\ Attended(d)' => IsActive(d)
    BY <1>0, <1>6 DEF TypeOK, Reads, Shrinks, Attended
  <2>4. Fewer
    BY <1>6, <2>1, <2>2, <2>3 DEF Reads, Attended
  <2>5. access'[0] # None =>
           access'[0].seen = connectedChannels \/ access'[0] = access[0]
    BY <1>0, <1>6 DEF TypeOK, Reads, BeginChange
  <2> QED
    BY <1>3, <1>6, <2>4, <2>5 DEF Reads
<1>7. ASSUME NEW c \in Conn, Joins(c) PROVE OwnInv'
  <2>1. Fewer
    BY <1>7 DEF Joins, Attended, IsActive
  <2>2. access'[0].seen = connectedChannels
    BY <1>0, <1>7 DEF TypeOK, Joins, BeginChange
  <2> QED
    BY <1>3, <1>7, <2>1, <2>2 DEF Joins
<1>8. CASE EndChange(0) /\ UNCHANGED <<connVars, loopVars, trap, handlerVars, stopPc>>
  <2>1. PICK T \in {connectedChannels, access[0].seen} :
           connectedChannels' = Changed(T, access[0])
    BY <1>8 DEF EndChange, Commit
  <2>2. access[0] # None /\ access'[0] = None
    BY <1>0, <1>8 DEF TypeOK, EndChange, Commit
  <2>3. T \in Table /\ Own(T)
    BY <1>0, <2>1, <2>2 DEF TypeOK, Change, Table, OwnInv
  <2>4. UNCHANGED addr /\ \A c \in Conn : Attended(c)' = Attended(c)
    BY <1>8 DEF connVars, loopVars, Attended, IsActive
  <2>5. \A c \in Conn : c # access[0].conn => notes'[c] = notes[c]
    BY <1>0, <1>8 DEF TypeOK, EndChange
  <2>6. Owns(connectedChannels')
    BY <2>1, <2>2, <2>3, <2>4, <2>5, ChangeOwns DEF Owns
  <2> QED
    BY <1>2, <2>2, <2>6
<1>9. CASE ReadComplete(0)
  <2>1. Fewer
    BY <1>0, <1>9, ChannelsAssumption
    DEF TypeOK, ReadComplete, connVars, tableVars, Attended, IsActive
  <2> QED
    BY <1>3, <1>9, <2>1 DEF ReadComplete, tableVars
<1>10. CASE StopClear
  <2>1. Fewer
    BY <1>10 DEF StopClear, connVars, loopVars, Attended, IsActive
  <2>2. access'[0] = access[0]
    BY <1>0, <1>10 DEF TypeOK, StopClear, BeginChange
  <2> QED
    BY <1>3, <1>10, <2>1, <2>2 DEF StopClear
<1>11. CASE StopCleared
  <2>1. Fewer
    BY <1>11 DEF StopCleared, connVars, loopVars, Attended, IsActive
  <2>2. access'[0] = access[0] /\ access[1] # None /\ access[1].conn = None
    BY <1>0, <1>11 DEF TypeOK, StopCleared, Commit, AccessInv
  <2>3. connectedChannels' = EmptyTable
    BY <1>0, <1>11, <2>2 DEF StopCleared, Commit, Changed
  <2>4. \A c \in Conn : notes[c] # << >> => addr[c] \in Addr
    BY <1>0 DEF NotesInv, Located, Upgraded
  <2>5. Owns(connectedChannels')
    BY <2>1, <2>3, <2>4 DEF Owns, EmptyTable
  <2>6. access'[0] # None => Owns(access'[0].seen)
    BY <1>1, <2>1, <2>2 DEF OwnInv
  <2> QED
    BY <1>2, <2>5, <2>6
<1>12. CASE Enters
  <2>1. Fewer
    BY <1>12 DEF Enters, Attended, IsActive
  <2> QED
    BY <1>3, <1>12, <2>1 DEF Enters
<1> QED
  BY SessionStep, <1>4, <1>5, <1>6, <1>7, <1>8, <1>9, <1>10, <1>11, <1>12

\* The application's answer goes back to the client whose frame was read, or is
\* lost with its entry.
LEMMA ReadTextHome ==
    ASSUME NLoops = 1, IInv, OwnInv, NEW c \in Conn, ReadText(c)
    PROVE  \/ tasks' = tasks
           \/ connectedChannels[addr[c]] = c
              /\ tasks' = [tasks EXCEPT ![0] = Append(@, SendTask(c, c, ThisFrame(c)))]
<1>0. /\ TypeOK /\ AccessInv /\ NotesInv /\ Located /\ stage[c] = "websocket"
      /\ Loop = {0} /\ Thread = {0, 1} /\ loopOf[c] = 0 /\ access[0] = None
      /\ loopState[0] # "closed"
      /\ reading[0] = c \/ IsActive(c)
  BY OneLoop DEF IInv, ReadText, ReadsFrame
<1>1. PICK d \in Lookup(0, addr[c]) :
         tasks' = IF d = None THEN tasks
                  ELSE Execute(loopOf[d], SendTask(d, c, ThisFrame(c)))
  BY <1>0 DEF ReadText
<1>2. addr[c] \in Addr /\ notes[c] # << >> /\ Attended(c)
  BY <1>0 DEF Located, NotesInv, Connecting, Upgraded, Attended
<1>3. \A u \in Thread \ {0} : access[u] # None => access[u].conn = None
  BY <1>0 DEF AccessInv
<1>4. d \in {connectedChannels[addr[c]], None}
  <2>1. ASSUME NEW u \in Thread \ {0}, access[u] # None,
               d = Changed(connectedChannels, access[u])[addr[c]]
        PROVE  d = None
    BY <1>2, <1>3, <2>1 DEF Changed, EmptyTable
  <2> QED
    BY <1>1, <2>1 DEF Lookup
<1>5. d = None \/ (d = c /\ connectedChannels[addr[c]] = c)
  BY <1>2, <1>4 DEF OwnInv, Own
<1>6. c # None
  BY ChannelsAssumption
<1> QED
  BY <1>0, <1>1, <1>5, <1>6 DEF Execute

\* Texts stay on their way home.
LEMMA HomeKept ==
    ASSUME NLoops = 1, IInv, WireInv, OwnInv, HomeInv, [Next]_vars
    PROVE  HomeInv'
<1> DEFINE q == tasks[0]
           r == tasks'[0]
<1>0. /\ TypeOK /\ 0 \in Loop /\ Loop = {0} /\ q \in Seq(Task) /\ r \in Seq(Task)
      /\ \A c \in Conn : Line(c) \in Seq(Message)
  BY OneLoop, NextIInv, LineType DEF IInv, TypeOK
<1>1. ASSUME NEW i \in 1 .. Len(r), r[i].kind = "send" PROVE r[i].conn = r[i].from
  <2>1. CASE Shifted(q, r)
    BY <1>1, <2>1 DEF Shifted, HomeInv
  <2>2. ASSUME NEW c \in Conn, ReadText(c) PROVE r[i].conn = r[i].from
    <3> DEFINE t == SendTask(c, c, ThisFrame(c))
    <3>1. r = q \/ r = Append(q, t)
      BY <1>0, <2>2, ReadTextHome DEF TypeOK
    <3>2. t.conn = t.from
      BY DEF SendTask
    <3> HIDE DEF t, q, r
    <3>3. \A j \in 1 .. Len(q) : q[j].kind = "send" => q[j].conn = q[j].from
      BY DEF HomeInv, q
    <3>4. r[i] \in {q[i], t} /\ (r[i] # t => i \in 1 .. Len(q))
      BY <1>0, <1>1, <3>1
    <3> QED
      BY <1>1, <3>2, <3>3, <3>4
  <2> QED
    BY <1>0, <2>1, <2>2, SendTextSends, OtherSends
<1>2. ASSUME NEW c \in Conn, NEW m \in Message, Line(c)' = Append(Line(c), m),
             m.kind = "text" => m.from = c,
             NEW i \in 1 .. Len(Line(c)'), Line(c)'[i].kind = "text"
      PROVE  Line(c)'[i].from = c
  <2> DEFINE s == Line(c)
  <2>1. s \in Seq(Message) /\ \A j \in 1 .. Len(s) : s[j].kind = "text" => s[j].from = c
    BY <1>0 DEF HomeInv
  <2> HIDE DEF s
  <2>2. Append(s, m)[i] \in {s[i], m} /\ (Append(s, m)[i] # m => i \in 1 .. Len(s))
    BY <1>2, <2>1 DEF s
  <2>3. Append(s, m)[i].kind = "text"
    BY <1>2 DEF s
  <2>4. Append(s, m)[i].from = c
    BY <1>2, <2>1, <2>2, <2>3
  <2> QED
    BY <1>2, <2>4 DEF s
<1>3. ASSUME NEW c \in Conn, Line(c)' = Line(c) \/ Prefix(Line(c)', Line(c)),
             NEW i \in 1 .. Len(Line(c)'), Line(c)'[i].kind = "text"
      PROVE  Line(c)'[i].from = c
  <2>1. i \in 1 .. Len(Line(c)) /\ Line(c)'[i] = Line(c)[i]
    BY <1>0, <1>3 DEF Prefix
  <2> QED
    BY <1>3, <2>1 DEF HomeInv
<1>4. ASSUME NEW c \in Conn, NEW i \in 1 .. Len(Line(c)'), Line(c)'[i].kind = "text"
      PROVE  Line(c)'[i].from = c
  <2>1. ASSUME SendText(0) PROVE Line(c)'[i].from = c
    <3>1. Head(q).from = Head(q).conn
      <4>1. q # << >> /\ Head(q).kind = "send"
        BY <2>1 DEF SendText
      <4>2. 1 \in 1 .. Len(q) /\ Head(q) = q[1]
        BY <1>0, <4>1
      <4> QED
        BY <4>1, <4>2 DEF HomeInv
    <3>2. ASSUME NEW m \in Message, Texted(c, m), m.from = c PROVE Line(c)'[i].from = c
      <4>1. Line(c)' = Append(Line(c), m)
        BY <3>2 DEF Texted
      <4> QED
        BY <1>2, <1>4, <3>2, <4>1
    <3>3. \/ Line(c)' = Line(c)
          \/ \E m \in Message : Texted(c, m) /\ m.from = c
      BY <1>0, <2>1, <3>1, SendTextLine DEF WireInv
    <3> QED
      BY <1>3, <1>4, <3>2, <3>3
  <2>2. CASE Dropped(c)
    BY <1>3, <1>4, <2>2 DEF Dropped
  <2>3. ASSUME NEW m \in Message, Added(c, m) PROVE Line(c)'[i].from = c
    <3>1. Line(c)' = Append(Line(c), m) /\ m.kind # "text"
      BY <2>3 DEF Added
    <3> QED
      BY <1>2, <1>4, <3>1
  <2> QED
    BY <1>0, <2>1, <2>2, <2>3, LineEffect DEF WireInv
<1> QED
  BY <1>1, <1>4 DEF HomeInv

\* stop() is called once.
LEMMA StopsOnce ==
    ASSUME [Next]_vars, stopPc' = "running"
    PROVE  stopPc = "running"
<1>1. CASE Next
  BY <1>1
  DEF Next, Writable, Lost, RunTask, Finish, StopStep, CloseListener, CloseLoop, LoopExit,
      StopClear, StopCleared, StopListening, StopLoops, StopReturns
<1> QED
  BY <1>1 DEF vars

\* The kinds of notifications when one more has been sent.
LEMMA KindsAppend ==
    ASSUME NEW s \in Seq(Notification), NEW m \in Notification
    PROVE  Kinds(Append(s, m)) = Kinds(s) \cup {m.kind}
<1> DEFINE r == Append(s, m)
<1>1. /\ Len(s) \in Nat /\ DOMAIN s = 1 .. Len(s) /\ DOMAIN r = 1 .. Len(s) + 1
      /\ r[Len(s) + 1] = m /\ \A i \in 1 .. Len(s) : r[i] = s[i]
  BY LenProperties, AppendProperties
<1> HIDE DEF r
<1>2. Kinds(r) \subseteq Kinds(s) \cup {m.kind}
  <2> SUFFICES ASSUME NEW i \in DOMAIN r PROVE r[i].kind \in Kinds(s) \cup {m.kind}
    BY DEF Kinds
  <2>1. i = Len(s) + 1 \/ i \in 1 .. Len(s)
    BY <1>1
  <2> QED
    BY <1>1, <2>1 DEF Kinds
<1>3. Kinds(s) \subseteq Kinds(r)
  <2> SUFFICES ASSUME NEW i \in DOMAIN s PROVE s[i].kind \in Kinds(r)
    BY DEF Kinds
  <2>1. i \in DOMAIN r /\ r[i] = s[i]
    BY <1>1
  <2> QED
    BY <2>1 DEF Kinds
<1>4. m.kind \in Kinds(r)
  <2>1. Len(s) + 1 \in DOMAIN r
    BY <1>1
  <2> QED
    BY <1>1, <2>1 DEF Kinds
<1> QED
  BY <1>2, <1>3, <1>4 DEF r

\* A client that was known before a frame of it was read is known after it, if it
\* still is.
LEMMA ReadsKnown ==
    ASSUME NLoops = 1, IInv, NEW c \in Conn, Reads(c), NEW d \in Conn, Known(d)'
    PROVE  Known(d)
<1>0. /\ TypeOK /\ NotesInv /\ loopOf[c] = 0 /\ notes[d] \in Seq(Notification)
  BY OneLoop DEF IInv, TypeOK
<1>1. sock[d] = "open" /\ stage[d] = "websocket"
  BY DEF Reads, Shrinks, Known
<1>2. notes[c] # << >>
  BY <1>0 DEF Reads, NotesInv, Connecting, Upgraded
<1>3. CASE notes'[d] = notes[d]
  BY <1>1, <1>3 DEF Known
<1>4. CASE d = c /\ ReadText(c)
  <2>1. Note("text", ThisFrame(c)) \in Notification
    BY <1>0 DEF TypeOK, Note, Notification, NoteKind, ThisFrame
  <2>2. notes'[d] = Append(notes[d], Note("text", ThisFrame(c)))
    BY <1>0, <1>4 DEF TypeOK, ReadText
  <2>3. Kinds(notes[d]) \subseteq Kinds(notes'[d])
    BY <1>0, <2>1, <2>2, KindsAppend
  <2> QED
    BY <1>1, <1>2, <1>4, <2>3 DEF Known
<1> QED
  BY <1>0, <1>3, <1>4 DEF TypeOK, Reads, ReadText

\* Writing an entry or removing one keeps the entries of the other clients.
LEMMA EndChangeReach ==
    ASSUME NLoops = 1, IInv, AloneInv, ReachInv, stopPc = "running",
           EndChange(0), UNCHANGED <<connVars, loopVars, trap, handlerVars, stopPc>>
    PROVE  ReachInv'
<1> DEFINE d == access[0].conn
           k == access[0].note
<1>0. /\ TypeOK /\ AccessInv /\ Located /\ 0 \in Loop /\ 0 \in Thread
      /\ Thread = {0, 1} /\ serverQueue = 1
  BY OneLoop DEF IInv
<1>1. access[0] # None /\ access[0].seen = connectedChannels /\ access[1] = None
  BY <1>0 DEF EndChange, Commit, ReachInv
<1>2. access[0] \in Change /\ d \in Conn /\ addr[d] \in Addr /\ k \in NoteKind
  <2>1. access[0] \in Change /\ d # None /\ stage[d] \in Upgraded
    BY <1>0, <1>1 DEF TypeOK, AccessInv
  <2>2. d \in Conn /\ k \in NoteKind
    BY <2>1 DEF Change
  <2> QED
    BY <1>0, <2>1, <2>2 DEF Located, Upgraded
<1>3. /\ connectedChannels' = [connectedChannels EXCEPT ![addr[d]] =
                                  IF k = "connect" THEN d ELSE None]
      /\ access'[0] = None /\ access'[1] = None
      /\ notes' = [notes EXCEPT ![d] = Append(@, Note(k, 0))]
      /\ UNCHANGED <<sock, stage, addr, stopPc>>
  BY <1>0, <1>1, <1>2, ChannelsAssumption
  DEF TypeOK, EndChange, Commit, Changed, connVars
<1>4. Alone(d) /\ k \in Leaving \cup {"connect"}
  BY <1>1 DEF AloneInv
<1> HIDE DEF d, k
<1>5. ASSUME NEW c \in Conn, Known(c)' PROVE connectedChannels'[addr'[c]] = c
  <2>1. CASE c # d
    <3>1. Known(c) /\ IsActive(c) /\ stage[c] = "websocket"
      BY <1>0, <1>2, <1>3, <1>5, <2>1 DEF TypeOK, Known, IsActive
    <3>2. connectedChannels[addr[c]] = c /\ addr[c] \in Addr
      BY <1>0, <2>1, <3>1 DEF ReachInv, Located, d
    <3>3. addr[c] # addr[d]
      BY <1>4, <2>1, <3>1 DEF Alone, IsOpen
    <3> QED
      BY <1>0, <1>2, <1>3, <3>2, <3>3 DEF TypeOK
  <2>2. CASE c = d
    <3>1. Note(k, 0) \in Notification /\ Note(k, 0).kind = k /\ notes[d] \in Seq(Notification)
      BY <1>0, <1>2 DEF TypeOK, Note, Notification
    <3>2. k \in Kinds(notes'[d])
      BY <1>0, <1>2, <1>3, <3>1, KindsAppend DEF TypeOK
    <3>3. k = "connect"
      BY <1>4, <1>5, <2>2, <3>2 DEF Known
    <3> QED
      BY <1>0, <1>2, <1>3, <2>2, <3>3 DEF TypeOK
  <2> QED
    BY <2>1, <2>2
<1> QED
  BY <1>0, <1>3, <1>5 DEF ReachInv

\* Known clients stay in the dictionary.
LEMMA ReachKept ==
    ASSUME NLoops = 1, IInv, Fresh, AloneInv, ReachInv, [Next]_vars
    PROVE  ReachInv'
<1> SUFFICES ASSUME stopPc' = "running" PROVE ReachInv'
  BY DEF ReachInv
<1>0. /\ TypeOK /\ 0 \in Thread /\ Thread = {0, 1} /\ serverQueue = 1
      /\ stopPc = "running" /\ access[1] = None
      /\ access[0] # None => access[0].seen = connectedChannels
  BY OneLoop, StopsOnce DEF IInv, ReachInv
<1>1. ASSUME access'[1] = None,
             access'[0] # None => access'[0].seen = connectedChannels,
             UNCHANGED connectedChannels,
             \A c \in Conn : Known(c)' => Known(c) /\ addr'[c] = addr[c],
             access' = access \/ access[0] = None
      PROVE  ReachInv'
  BY <1>0, <1>1 DEF ReachInv
<1>2. CASE Quiet
  <2>1. \A c \in Conn : Known(c)' => Known(c) /\ addr'[c] = addr[c]
    BY <1>2 DEF Quiet, Shrinks, Known
  <2> QED
    BY <1>0, <1>1, <1>2, <2>1 DEF Quiet
<1>3. ASSUME NEW c \in Conn, NEW a \in Addr, Accept(c, a) PROVE ReachInv'
  <2>1. UNCHANGED tableVars
    BY <1>3 DEF Accept
  <2>2. \A d \in Conn : Known(d)' => Known(d) /\ addr'[d] = addr[d]
    BY <1>0, <1>3 DEF TypeOK, Accept, tableVars, Known
  <2> QED
    BY <1>0, <1>1, <2>1, <2>2 DEF tableVars
<1>4. ASSUME NEW c \in Conn, Reads(c) PROVE ReachInv'
  <2>1. \A d \in Conn : Known(d)' => Known(d) /\ addr'[d] = addr[d]
    BY <1>4, ReadsKnown DEF Reads
  <2>2. /\ access[0] = None /\ access'[1] = None
        /\ access'[0] # None => access'[0].seen = connectedChannels
        /\ UNCHANGED connectedChannels
    BY <1>0, <1>4 DEF TypeOK, Reads, BeginChange
  <2> QED
    BY <1>1, <2>1, <2>2
<1>5. ASSUME NEW c \in Conn, Joins(c) PROVE ReachInv'
  <2>1. /\ access[0] = None /\ access'[1] = None
        /\ access'[0] # None /\ access'[0].conn = c /\ access'[0].seen = connectedChannels
        /\ UNCHANGED connectedChannels
    BY <1>0, <1>5, ChannelsAssumption, ConnectedChannelsAssumption
    DEF TypeOK, Joins, BeginChange, Idle, Change, Table, NoteKind
  <2>2. \A d \in Conn : Known(d)' /\ d # c => Known(d) /\ addr'[d] = addr[d]
    BY <1>0, <1>5 DEF TypeOK, Joins, Known
  <2> QED
    BY <1>0, <2>1, <2>2 DEF ReachInv
<1>6. CASE EndChange(0) /\ UNCHANGED <<connVars, loopVars, trap, handlerVars, stopPc>>
  BY <1>0, <1>6, EndChangeReach
<1>7. CASE ReadComplete(0)
  <2>1. UNCHANGED <<tableVars, connVars>>
    BY <1>7 DEF ReadComplete
  <2> QED
    BY <1>0, <1>1, <2>1 DEF tableVars, connVars, Known
<1>8. CASE StopClear \/ StopCleared
  BY <1>0, <1>8 DEF StopClear, StopCleared
<1>9. CASE Enters
  <2>1. \A c \in Conn : Known(c)' => Known(c) /\ addr'[c] = addr[c]
    BY <1>9 DEF Enters, Known
  <2> QED
    BY <1>0, <1>1, <1>9, <2>1 DEF Enters
<1> QED
  BY SessionStep, <1>2, <1>3, <1>4, <1>5, <1>6, <1>7, <1>8, <1>9

\* Notifications carry numbers of frames that have been read.
LEMMA NumberKept ==
    ASSUME NLoops = 1, IInv, Fresh, NumberInv, [Next]_vars
    PROVE  NumberInv'
<1>0. /\ TypeOK /\ AccessInv /\ 0 \in Loop /\ 0 \in Thread
      /\ \A c \in Conn : frames[c] \in Nat /\ notes[c] \in Seq(Notification)
  BY OneLoop DEF IInv, TypeOK
<1>1. \A c \in Conn : frames'[c] \in Nat /\ frames[c] <= frames'[c]
  BY Steady
<1>2. ASSUME NEW c \in Conn, NEW i \in 1 .. Len(notes[c])
      PROVE  notes[c][i].n \in Nat /\ notes[c][i].n <= frames'[c]
  <2>1. notes[c][i] \in Notification /\ notes[c][i].n <= frames[c]
    BY <1>0 DEF NumberInv
  <2>2. notes[c][i].n \in Nat
    BY <2>1 DEF Notification
  <2> QED
    BY <1>0, <1>1, <2>1, <2>2
<1>3. ASSUME UNCHANGED notes PROVE NumberInv'
  BY <1>2, <1>3 DEF NumberInv
<1>4. ASSUME NEW d \in Conn, NEW k \in NoteKind, NEW n \in Nat, n <= frames'[d],
             notes' = [notes EXCEPT ![d] = Append(@, Note(k, n))]
      PROVE  NumberInv'
  <2> SUFFICES ASSUME NEW c \in Conn, NEW i \in 1 .. Len(notes'[c])
               PROVE  notes'[c][i].n <= frames'[c]
    BY DEF NumberInv
  <2>1. Note(k, n).n = n
    BY DEF Note
  <2>2. CASE c # d
    BY <1>0, <1>2, <1>4, <2>2 DEF TypeOK
  <2>3. CASE c = d
    <3> DEFINE m == Note(k, n)
               s == notes[c]
    <3>1. s \in Seq(Notification) /\ notes'[c] = Append(s, m)
      BY <1>0, <1>4, <2>3 DEF TypeOK
    <3> HIDE DEF m, s
    <3>2. (i \in 1 .. Len(s) /\ Append(s, m)[i] = s[i]) \/ Append(s, m)[i] = m
      BY <3>1
    <3> QED
      BY <1>2, <1>4, <2>1, <2>3, <3>1, <3>2 DEF m, s
  <2> QED
    BY <2>2, <2>3
<1>5. ASSUME NEW c \in Conn, ReadText(c) PROVE NumberInv'
  <2>1. frames'[c] = ThisFrame(c) /\ ThisFrame(c) \in Nat
    BY <1>0, <1>5 DEF TypeOK, ReadText, ReadsFrame, ThisFrame
  <2>2. notes' = [notes EXCEPT ![c] = Append(@, Note("text", ThisFrame(c)))]
    BY <1>5 DEF ReadText
  <2>3. ThisFrame(c) <= frames'[c] /\ "text" \in NoteKind
    BY <2>1 DEF NoteKind
  <2> QED
    BY <1>4, <2>1, <2>2, <2>3, Zenon
<1>6. CASE EndChange(0)
  <2>1. access[0] # None /\ access[0] \in Change /\ access[0].conn # None
    BY <1>0, <1>6 DEF TypeOK, EndChange, Commit, AccessInv
  <2>2. access[0].conn \in Conn /\ access[0].note \in NoteKind
    BY <2>1 DEF Change
  <2>3. 0 <= frames'[access[0].conn] /\ 0 \in Nat
    BY <1>1, <2>2
  <2>4. notes' = [notes EXCEPT ![access[0].conn] = Append(@, Note(access[0].note, 0))]
    BY <1>6 DEF EndChange
  <2> QED
    BY <1>4, <2>2, <2>3, <2>4, Zenon
<1>7. ASSUME NEW c \in Conn, Reads(c) PROVE NumberInv'
  BY <1>3, <1>5, <1>7 DEF Reads
<1> QED
  BY SessionStep, <1>3, <1>6, <1>7
  DEF Quiet, Enters, Accept, Joins, ReadComplete, StopClear, StopCleared, tableVars

\* Nobody is connected when the server starts.
LEMMA SessionInit ==
    ASSUME NLoops = 1, Init
    PROVE  SessionInv
<1>1. 0 \in Loop /\ Loop = {0} /\ 0 \in Thread /\ serverQueue \in Thread
  BY OneLoop
<1>2. /\ reading[0] = None /\ access[0] = None /\ access[serverQueue] = None
      /\ tasks[0] = << >>
      /\ \A c \in Conn : sock[c] = "none" /\ notes[c] = << >> /\ Line(c) = << >>
  BY <1>1 DEF Init, Line
<1>3. Len(<< >>) = 0
  OBVIOUS
<1>4. AloneInv /\ OwnInv /\ ReachInv
  BY <1>2 DEF AloneInv, OwnInv, Own, ReachInv, Known, IsOpen, IsActive
<1>5. HomeInv /\ NumberInv
  BY <1>2, <1>3 DEF HomeInv, NumberInv
<1> QED
  BY <1>4, <1>5 DEF SessionInv

\* The invariant, in every run with one loop.
LEMMA SessionInvariance ==
    ASSUME NLoops = 1
    PROVE  Spec => []SessionInv
<1>1. Init => SessionInv
  BY SessionInit
<1>2. IInv /\ WireInv /\ StopInv /\ SessionInv /\ [Next]_vars => SessionInv'
  BY AloneKept, OwnKept, HomeKept, ReachKept, NumberKept DEF SessionInv, StopInv
<1> QED
  BY <1>1, <1>2, Invariance, WireInvariance, StopInvariance, PTL DEF Spec

-----------------------------------------------------------------------------
(* Which entries stay, as long as stop() is not called, no peer vanishes   *)
(* and no decoder refuses a frame.                                         *)

\* c has been sent, and is about to be sent, no answer to a close frame.
Unanswered(c) == \A i \in 1 .. Len(Line(c)) : Line(c)[i].kind # "echoClose"

\* c is an open WebSocket that nothing is about to close.
Staying(c) == IsActive(c) /\ stage[c] = "websocket" /\ Unanswered(c)

\* The entry of c is about to be removed.
Going(c) == access[0] # None /\ access[0].conn = c /\ access[0].note # "connect"

EntriesInv ==
    /\ stopPc = "running"
    /\ \A c \in Conn : stage[c] # "failed"
    /\ \A a \in Addr : connectedChannels[a] # None =>
          Going(connectedChannels[a]) \/ Staying(connectedChannels[a])
    /\ access[0] # None => Going(access[0].conn) \/ Staying(access[0].conn)

\* What is pending is on the line.
LEMMA Pending ==
    ASSUME TypeOK, NEW c \in Conn, NEW j \in 1 .. Len(out[c])
    PROVE  /\ Len(wire[c]) + j \in 1 .. Len(Line(c))
           /\ Line(c)[Len(wire[c]) + j] = out[c][j]
<1> DEFINE a == Len(wire[c])
           b == Len(out[c])
<1>1. /\ Len(Line(c)) = a + b
      /\ \A k \in 1 .. a + b : Line(c)[k] = IF k <= a THEN wire[c][k] ELSE out[c][k - a]
  BY LineType, ConcatProperties DEF Line
<1>2. a \in Nat /\ b \in Nat /\ j \in 1 .. b
  BY LineType, LenProperties
<1> HIDE DEF a, b
<1>3. a + j \in 1 .. a + b /\ ~(a + j <= a) /\ (a + j) - a = j
  BY ONLY <1>2
<1>4. Line(c)[a + j] = out[c][j] /\ a + j \in 1 .. Len(Line(c))
  BY <1>1, <1>3
<1> QED
  BY <1>4 DEF a

\* The socket of a connection closes a channel for a message on its line.
LEMMA WritableCloses ==
    ASSUME TypeOK, NEW c \in Conn, Writable(c), ~IsActive(c)'
    PROVE  \E k \in 1 .. Len(Line(c)) : Line(c)[k].kind \in ClosingKind
<1>0. out[c] \in Seq(Message) /\ Len(out[c]) \in Nat /\ IsActive(c)
  BY LineType, LenProperties DEF Writable
<1>1. PICK i \in 1 .. Len(out[c]) :
         Written(c, SubSeq(out[c], 1, i), SubSeq(out[c], i + 1, Len(out[c])))
  BY DEF Writable
<1> DEFINE s == SubSeq(out[c], 1, i)
           r == SubSeq(out[c], i + 1, Len(out[c]))
<1>2. Kinds(s) \cap ClosingKind # {} \/ "protoClose" \in Kinds(r)
  BY <1>0, <1>1 DEF TypeOK, Written, IsActive
<1>3. \A j \in DOMAIN s : j \in 1 .. Len(out[c]) /\ s[j] = out[c][j]
  <2>1. \A j \in 1 .. i : out[c][j] \in Message
    BY <1>0
  <2>2. s \in Seq(Message) /\ Len(s) = i /\ \A j \in 1 .. i : s[j] = out[c][j]
    BY <1>0, <2>1, SubSeqProperties
  <2> QED
    BY <1>0, <2>2
<1>4. \A j \in DOMAIN r : i + j \in 1 .. Len(out[c]) /\ r[j] = out[c][i + j]
  <2>1. \A j \in i + 1 .. Len(out[c]) : out[c][j] \in Message
    BY <1>0
  <2>2. /\ r \in Seq(Message) /\ Len(r) = Len(out[c]) - i
        /\ \A j \in 1 .. Len(out[c]) - i : r[j] = out[c][i + j]
    BY <1>0, <2>1, SubSeqProperties
  <2> QED
    BY <1>0, <2>2
<1> HIDE DEF s, r
<1>5. \E j \in 1 .. Len(out[c]) : out[c][j].kind \in ClosingKind
  BY <1>2, <1>3, <1>4 DEF Kinds, ClosingKind
<1> QED
  BY <1>5, Pending

\* A WebSocket stays until its peer's close frame is read.
LEMMA StayingStep ==
    ASSUME IInv, WireInv, StopInv, EntriesInv, [Next]_vars,
           ~MayVanish, "invalid" \notin Frames, NEW c \in Conn, Staying(c)
    PROVE  Staying(c)' \/ ReadClose(c)
<1>0. TypeOK /\ ProtocolInv /\ SendInv /\ MoveInv /\ Line(c) \in Seq(Message)
  BY LineType DEF IInv, WireInv
<1>1. Unanswered(c)' \/ ReadClose(c)
  <2>1. ASSUME Dropped(c) PROVE Unanswered(c)'
    <3>1. \A i \in 1 .. Len(Line(c)') : i \in 1 .. Len(Line(c)) /\ Line(c)'[i] = Line(c)[i]
      BY <1>0, <2>1, LenProperties DEF Dropped, Prefix
    <3> QED
      BY <3>1 DEF Staying, Unanswered
  <2>2. ASSUME NEW m \in Message, Line(c)' = Append(Line(c), m), m.kind # "echoClose"
        PROVE  Unanswered(c)'
    <3> DEFINE s == Line(c)
    <3>1. s \in Seq(Message) /\ \A i \in 1 .. Len(s) : s[i].kind # "echoClose"
      BY <1>0 DEF Staying, Unanswered
    <3> HIDE DEF s
    <3>2. \A i \in 1 .. Len(Append(s, m)) : Append(s, m)[i].kind # "echoClose"
      BY <2>2, <3>1
    <3> QED
      BY <2>2, <3>2 DEF Unanswered, s
  <2>3. ASSUME NEW m \in Message, Added(c, m) PROVE Unanswered(c)' \/ ReadClose(c)
    <3>1. Line(c)' = Append(Line(c), m) /\ (m.kind = "echoClose" => ReadClose(c))
      BY <2>3 DEF Added, FrameKind
    <3> QED
      BY <2>2, <3>1
  <2>4. ASSUME NEW m \in Message, Texted(c, m) PROVE Unanswered(c)'
    BY <2>2, <2>4 DEF Texted
  <2> QED
    BY <2>1, <2>3, <2>4, LineStep
<1>2. stage'[c] = "websocket"
  <2>1. ASSUME UNCHANGED stage PROVE stage'[c] = "websocket"
    BY <2>1 DEF Staying
  <2>2. ASSUME NEW d \in Conn, NEW a \in Addr, Accept(d, a) PROVE stage'[c] = "websocket"
    BY <1>0, <2>2 DEF TypeOK, Accept, Staying, IsActive
  <2>3. ASSUME NEW d \in Conn, Request(d) PROVE stage'[c] = "websocket"
    BY <1>0, <2>3
    DEF TypeOK, Request, ReadUpgrade, ReadGet, ReadOther, ReadsRequest, Staying
  <2>4. ASSUME NEW d \in Conn, Frame(d) PROVE stage'[c] = "websocket"
    BY <2>1, <2>4
    DEF Frame, ReadText, ReadPing, ReadClose, ReadReserved, ReadInvalid, ReadsFrame, connVars
  <2>5. ASSUME NEW l \in Loop, RunTask(l) PROVE stage'[c] = "websocket"
    <3>1. CASE FinishUpgrade(l)
      BY <1>0, <3>1 DEF TypeOK, FinishUpgrade, Staying
    <3>2. CASE Admit(l)
      BY <1>0, <3>2, AdmitEffect DEF TypeOK, Staying
    <3> QED
      BY <2>1, <2>5, <3>1, <3>2
      DEF RunTask, HandlerRemoved, SendText, CloseListener, CloseLoop, LoopExit, connVars
  <2> QED
    BY <2>1, <2>2, <2>3, <2>4, <2>5
    DEF Next, vars, connVars, Writable, Lost, Finish, ReadComplete, StopStep, StopClear,
        StopCleared, StopListening, StopLoops, StopReturns
<1>3. IsActive(c)' \/ ReadClose(c)
  <2>1. ASSUME UNCHANGED sock PROVE IsActive(c)'
    BY <2>1 DEF Staying, IsActive
  <2>2. ASSUME NEW d \in Conn, NEW a \in Addr, Accept(d, a) PROVE IsActive(c)'
    BY <1>0, <2>2 DEF TypeOK, Accept, Staying, IsActive
  <2>3. ASSUME NEW d \in Conn, Request(d) PROVE IsActive(c)'
    BY <2>1, <2>3 DEF Request, ReadUpgrade, ReadGet, ReadOther
  <2>4. ASSUME NEW d \in Conn, Frame(d) PROVE IsActive(c)' \/ ReadClose(c)
    <3>1. CASE ReadClose(d)
      BY <1>0, <3>1 DEF TypeOK, ReadClose, Close, Staying, IsActive
    <3> QED
      BY <2>1, <2>4, <3>1
      DEF Frame, ReadText, ReadPing, ReadReserved, ReadInvalid, ReadsFrame, connVars
  <2>5. ASSUME NEW d \in Conn, Writable(d) PROVE IsActive(c)'
    <3>1. CASE c # d
      BY <1>0, <2>5, <3>1 DEF TypeOK, Writable, Written, Close, Staying, IsActive
    <3>2. CASE c = d
      <4>1. ASSUME NEW k \in 1 .. Len(Line(c)) PROVE Line(c)[k].kind \notin ClosingKind
        <5>1. Line(c)[k].kind # "echoClose" /\ stage[c] = "websocket"
          BY DEF Staying, Unanswered
        <5>2. Line(c)[k].kind \in {"101"} \cup FrameKind /\ Line(c)[k].kind # "protoClose"
          BY <1>0, <5>1 DEF ProtocolInv, ProtocolOf, FailedOf
        <5> QED
          BY <5>1, <5>2 DEF FrameKind, ClosingKind
      <4> QED
        BY <1>0, <2>5, <3>2, <4>1, WritableCloses
    <3> QED
      BY <3>1, <3>2
  <2>6. ASSUME NEW l \in Loop, RunTask(l) PROVE IsActive(c)'
    <3>1. ~CloseLoop(l)
      <4>1. ASSUME HeadIs(l, "closeLoop") PROVE FALSE
        <5>1. tasks[l] \in Seq(Task) /\ tasks[l] # << >> /\ Head(tasks[l]).kind = "closeLoop"
          BY <1>0, <4>1 DEF TypeOK, HeadIs
        <5>2. 1 \in 1 .. Len(tasks[l]) /\ Head(tasks[l]) = tasks[l][1]
          BY <5>1
        <5> QED
          BY <5>1, <5>2 DEF StopInv, Asking, EntriesInv
      <4> QED
        BY <4>1 DEF CloseLoop
    <3>2. CASE Admit(l)
      <4>1. sock'[c] = sock[c]
        BY <3>2, AdmitEffect DEF Staying, IsActive
      <4> QED
        BY <4>1 DEF Staying, IsActive
    <3> QED
      BY <2>1, <2>6, <3>1, <3>2
      DEF RunTask, FinishUpgrade, HandlerRemoved, SendText, CloseListener, LoopExit, connVars
  <2> QED
    BY <2>1, <2>2, <2>3, <2>4, <2>5, <2>6
    DEF Next, vars, connVars, Lost, Finish, ReadComplete, StopStep, StopClear,
        StopCleared, StopListening, StopLoops, StopReturns
<1> QED
  BY <1>1, <1>2, <1>3 DEF Staying

\* A connection that joins has been sent nothing but 101.
LEMMA JoinsStaying ==
    ASSUME NLoops = 1, IInv, WireInv, [Next]_vars, NEW c \in Conn, Joins(c)
    PROVE  Staying(c)'
<1>0. TypeOK /\ ProtocolInv /\ stage[c] = "upgrading"
  BY DEF IInv, WireInv, Joins
<1>1. Line(c) = << >>
  <2>1. wire[c] = << >> /\ out[c] = << >>
    BY <1>0, NoLine DEF Upgraded
  <2> QED
    BY <2>1 DEF Line
<1>2. Unanswered(c)'
  <2>1. CASE Dropped(c)
    <3>1. Len(Line(c)') <= 0
      BY <1>1, <2>1 DEF Dropped, Prefix
    <3>2. Line(c)' \in Seq(Message)
      <4>1. TypeOK'
        BY NextIInv DEF IInv
      <4>2. wire'[c] \in Seq(Message) /\ out'[c] \in Seq(Message)
        BY <4>1 DEF TypeOK
      <4> QED
        BY <4>2, ConcatPrefix DEF Line
    <3> QED
      BY <3>1, <3>2, LenProperties DEF Unanswered
  <2>2. ASSUME NEW m \in Message, Added(c, m) PROVE Unanswered(c)'
    <3>1. Line(c)' = Append(<< >>, m) /\ m.kind # "echoClose"
      BY <1>0, <1>1, <2>2 DEF Added, FrameKind
    <3>2. \A i \in 1 .. Len(Append(<< >>, m)) : Append(<< >>, m)[i].kind # "echoClose"
      BY <3>1
    <3> QED
      BY <3>1, <3>2 DEF Unanswered
  <2>3. ~(\E m \in Message : Texted(c, m))
    BY <1>0 DEF Texted, Upgraded
  <2> QED
    BY <2>1, <2>2, <2>3, LineStep
<1>3. sock' = sock /\ IsActive(c) /\ stage'[c] = "websocket"
  BY <1>0 DEF TypeOK, Joins
<1> QED
  BY <1>2, <1>3 DEF Staying, IsActive

\* The server runs on if stop() is not called.
LEMMA NeverStops ==
    ASSUME ~MayStop, stopPc = "running", [Next]_vars
    PROVE  ~StopStep /\ stopPc' = "running"
<1>1. ~StopStep
  BY DEF StopStep, StopClear, StopCleared, StopListening, StopLoops, StopReturns
<1>2. stopPc' = "running"
  BY <1>1
  DEF Next, vars, Writable, Lost, RunTask, Finish, CloseListener, CloseLoop, LoopExit
<1> QED
  BY <1>1, <1>2

\* Entries are of connections that stay, or are about to be removed.
LEMMA EntriesKept ==
    ASSUME NLoops = 1, ~MayStop, ~MayVanish, "invalid" \notin Frames,
           IInv, WireInv, StopInv, SessionInv, EntriesInv, [Next]_vars
    PROVE  EntriesInv'
<1>0. /\ TypeOK /\ KeyedByAddress /\ AccessInv /\ 0 \in Thread /\ 0 \in Loop
      /\ \A c \in Conn : loopOf[c] = 0
  BY OneLoop DEF IInv
<1>1. ~StopStep
  BY NeverStops DEF EntriesInv
<1>2. stopPc' = "running"
  BY NeverStops DEF EntriesInv
<1>3. ASSUME NEW c \in Conn PROVE stage'[c] # "failed"
  <2>1. stage[c] # "failed"
    BY DEF EntriesInv
  <2>2. ASSUME NEW d \in Conn, Request(d) PROVE stage'[c] # "failed"
    BY <1>0, <2>1, <2>2 DEF TypeOK, Request, ReadUpgrade, ReadGet, ReadOther
  <2>3. ASSUME NEW d \in Conn, Frame(d) PROVE UNCHANGED stage
    BY <2>3
    DEF Frame, ReadText, ReadPing, ReadClose, ReadReserved, ReadInvalid, ReadsFrame, connVars
  <2>4. ASSUME NEW d \in Conn, NEW a \in Addr, Accept(d, a) PROVE stage'[c] # "failed"
    BY <1>0, <2>1, <2>4 DEF TypeOK, Accept
  <2>5. ASSUME NEW l \in Loop, RunTask(l) PROVE stage'[c] # "failed"
    <3>1. CASE FinishUpgrade(l)
      BY <1>0, <2>1, <3>1 DEF TypeOK, FinishUpgrade
    <3>2. CASE Admit(l)
      BY <1>0, <2>1, <3>2, AdmitEffect DEF TypeOK
    <3> QED
      BY <2>1, <2>5, <3>1, <3>2
      DEF RunTask, HandlerRemoved, SendText, CloseListener, CloseLoop, LoopExit, connVars
  <2> QED
    BY <1>1, <2>1, <2>2, <2>3, <2>4, <2>5
    DEF Next, vars, connVars, Writable, Lost, Finish, ReadComplete
<1>4. ASSUME NEW c \in Conn, Staying(c) PROVE Staying(c)' \/ Going(c)'
  <2>1. ReadClose(c) => Going(c)'
    <3>1. ASSUME ReadClose(c) PROVE Going(c)'
      <4>1. access' = [access EXCEPT ![0] =
                          [conn |-> c, note |-> "disconnect", seen |-> connectedChannels]]
        BY <1>0, <3>1 DEF ReadClose, BeginChange
      <4>2. access'[0].conn = c /\ access'[0].note = "disconnect"
        BY <1>0, <4>1 DEF TypeOK
      <4>3. access'[0] # None
        BY <1>0, <4>1, ConnectedChannelsAssumption DEF TypeOK, Change, NoteKind
      <4> QED
        BY <4>2, <4>3 DEF Going
    <3> QED
      BY <3>1
  <2> QED
    BY <1>4, <2>1, StayingStep
<1> DEFINE Entry(c) == Going(c)' \/ Staying(c)'
<1>5. access[0] # None => access[0] \in Change /\ access[0].conn \in Conn
  <2>1. access[0] \in Change \cup {None} /\ (access[0] # None => access[0].conn # None)
    BY <1>0 DEF TypeOK, AccessInv
  <2> QED
    BY <2>1 DEF Change
<1>6. ASSUME \A a \in Addr, c \in Conn : connectedChannels'[a] = c => Entry(c),
             \A c \in Conn : access'[0] # None /\ access'[0].conn = c => Entry(c)
      PROVE  EntriesInv'
  <2>1. TypeOK' /\ AccessInv'
    BY NextIInv DEF IInv
  <2>2. \A a \in Addr : connectedChannels'[a] # None => connectedChannels'[a] \in Conn
    BY <2>1 DEF TypeOK
  <2>3. access'[0] # None => access'[0].conn \in Conn
    <3>1. access'[0] \in Change \cup {None} /\ (access'[0] # None => access'[0].conn # None)
      BY <1>0, <2>1 DEF TypeOK, AccessInv
    <3> QED
      BY <3>1 DEF Change
  <2> QED
    BY <1>2, <1>3, <1>6, <2>2, <2>3 DEF EntriesInv, Going, Staying, Unanswered, IsActive, Line
<1> HIDE DEF Entry
<1>7. ASSUME NEW c \in Conn, Staying(c) \/ (Going(c) /\ access'[0] = access[0])
      PROVE  Entry(c)
  BY <1>4, <1>7 DEF Entry, Going
<1>8. ASSUME UNCHANGED <<access, connectedChannels>> PROVE EntriesInv'
  <2>1. \A a \in Addr, c \in Conn : connectedChannels'[a] = c => Entry(c)
    BY <1>7, <1>8, ChannelsAssumption DEF EntriesInv
  <2>2. \A c \in Conn : access'[0] # None /\ access'[0].conn = c => Entry(c)
    BY <1>7, <1>8 DEF EntriesInv
  <2> QED
    BY <1>6, <2>1, <2>2
<1>9. ASSUME access[0] = None, UNCHANGED connectedChannels,
             \A c \in Conn : access'[0] # None /\ access'[0].conn = c => Entry(c)
      PROVE  EntriesInv'
  <2>1. ASSUME NEW a \in Addr, NEW c \in Conn, connectedChannels'[a] = c PROVE Entry(c)
    <3>1. connectedChannels[a] = c /\ c # None
      BY <1>9, <2>1, ChannelsAssumption
    <3>2. Going(c) \/ Staying(c)
      BY <3>1 DEF EntriesInv
    <3> QED
      BY <1>7, <1>9, <3>2 DEF Going
  <2> QED
    BY <1>6, <1>9, <2>1
<1>10. ASSUME NEW c \in Conn, Reads(c) PROVE EntriesInv'
  <2>1. ASSUME NEW k \in Leaving, BeginChange(0, c, k) PROVE Entry(c)
    <3>1. access'[0] = [conn |-> c, note |-> k, seen |-> connectedChannels]
      BY <1>0, <2>1 DEF TypeOK, BeginChange
    <3>2. access'[0] # None
      BY <1>0, <3>1, ConnectedChannelsAssumption DEF TypeOK, Change, NoteKind, Leaving
    <3> QED
      BY <3>1, <3>2 DEF Entry, Going, Leaving
  <2>2. ASSUME NEW k \in Leaving, BeginChange(0, c, k), NEW d \in Conn, access'[0].conn = d
        PROVE  d = c
    BY <1>0, <2>2 DEF TypeOK, BeginChange
  <2> QED
    BY <1>8, <1>9, <1>10, <2>1, <2>2 DEF Reads
<1>11. ASSUME NEW c \in Conn, Joins(c) PROVE EntriesInv'
  <2>1. access[0] = None /\ UNCHANGED connectedChannels /\ access'[0].conn = c
    BY <1>0, <1>11 DEF TypeOK, Joins, BeginChange, Idle
  <2>2. Entry(c)
    BY <1>11, JoinsStaying DEF Entry
  <2> QED
    BY <1>9, <2>1, <2>2
<1>12. CASE EndChange(0)
  <2> DEFINE d == access[0].conn
             k == access[0].note
  <2>1. /\ access[0] # None /\ access'[0] = None /\ access[0] \in Change
        /\ d \in Conn /\ stage[d] \in Upgraded
    BY <1>0, <1>5, <1>12 DEF TypeOK, EndChange, Commit, AccessInv
  <2>2. connectedChannels' = Changed(connectedChannels, access[0])
    BY <1>12 DEF EndChange, Commit, SessionInv, ReachInv, EntriesInv
  <2>3. connectedChannels' = [connectedChannels EXCEPT ![addr[d]] =
                                 IF k = "connect" THEN d ELSE None]
    BY <2>1, <2>2, ChannelsAssumption DEF Changed
  <2>4. ASSUME NEW a \in Addr, NEW c \in Conn, connectedChannels'[a] = c PROVE Staying(c)
    <3>1. CASE a = addr[d] /\ connectedChannels'[a] # connectedChannels[a]
      <4>1. c # None
        BY ChannelsAssumption
      <4>2. k = "connect" /\ c = d
        BY <1>0, <2>3, <2>4, <3>1, <4>1 DEF TypeOK
      <4> QED
        BY <2>1, <4>2 DEF EntriesInv, Going
    <3>2. CASE connectedChannels'[a] = connectedChannels[a]
      <4>1. c # None /\ connectedChannels[a] = c
        BY <2>4, <3>2, ChannelsAssumption
      <4>2. addr[c] = a /\ (Going(c) \/ Staying(c))
        BY <4>1 DEF KeyedByAddress, EntriesInv, IInv
      <4>3. Going(c) => c = d /\ k # "connect"
        BY DEF Going
      <4>4. c = d => connectedChannels'[a] = IF k = "connect" THEN d ELSE None
        BY <1>0, <2>3, <4>2 DEF TypeOK
      <4> QED
        BY <2>4, <4>1, <4>2, <4>3, <4>4
    <3>3. a # addr[d] => connectedChannels'[a] = connectedChannels[a]
      BY <1>0, <2>3 DEF TypeOK
    <3> QED
      BY <3>1, <3>2, <3>3
  <2>5. ASSUME NEW a \in Addr, NEW c \in Conn, connectedChannels'[a] = c PROVE Entry(c)
    BY <1>7, <2>4, <2>5
  <2>6. access'[0] = None
    BY <2>1
  <2> HIDE DEF d, k
  <2> QED
    BY ONLY <1>6, <2>5, <2>6
<1> QED
  <2>1. \A c \in Conn, a \in Addr : Accept(c, a) => UNCHANGED <<access, connectedChannels>>
    BY DEF Accept, tableVars
  <2>2. Quiet \/ Enters \/ ReadComplete(0) => UNCHANGED <<access, connectedChannels>>
    BY DEF Quiet, Enters, ReadComplete, tableVars
  <2> QED
    BY SessionStep, <1>1, <1>8, <1>10, <1>11, <1>12, <2>1, <2>2 DEF StopStep, StopInv

-----------------------------------------------------------------------------
(* The server, as Sessions sees it.                                        *)

\* The parts of the mapping, for one connection of a server with one loop.
Shut(c) == sock[c] \notin {"none", "accepted", "open"}
Owed(c) == TextsOf(out[c]) \cup QueuedFor(c, tasks[0])
Got(c) == TextsOf(wire[c])

\* The texts of a longer line.
LEMMA TextsAppend ==
    ASSUME NEW s \in Seq(Message), NEW m \in Message
    PROVE  TextsOf(Append(s, m)) =
               TextsOf(s) \cup (IF m.kind = "text" THEN {TextOf(m)} ELSE {})
<1> DEFINE r == Append(s, m)
<1>1. /\ Len(s) \in Nat /\ Len(r) = Len(s) + 1
      /\ r[Len(s) + 1] = m /\ \A i \in 1 .. Len(s) : r[i] = s[i]
  BY LenProperties, AppendProperties
<1> HIDE DEF r
<1>2. \A i \in 1 .. Len(r) : i = Len(s) + 1 \/ i \in 1 .. Len(s)
  BY <1>1
<1>3. Len(s) + 1 \in 1 .. Len(r) /\ \A i \in 1 .. Len(s) : i \in 1 .. Len(r)
  BY <1>1
<1>4. TextsOf(r) = TextsOf(s) \cup (IF m.kind = "text" THEN {TextOf(m)} ELSE {})
  BY <1>1, <1>2, <1>3 DEF TextsOf
<1> QED
  BY <1>4 DEF r

\* The texts of two lines, one behind the other.
LEMMA TextsConcat ==
    ASSUME NEW s \in Seq(Message), NEW r \in Seq(Message)
    PROVE  TextsOf(s \o r) = TextsOf(s) \cup TextsOf(r)
<1> DEFINE u == s \o r
           a == Len(s)
           b == Len(r)
<1>1. /\ Len(u) = a + b
      /\ \A i \in 1 .. a + b : u[i] = IF i <= a THEN s[i] ELSE r[i - a]
  BY ConcatProperties
<1>2. a \in Nat /\ b \in Nat
  BY LenProperties
<1> HIDE DEF u
<1>3. TextsOf(u) \subseteq TextsOf(s) \cup TextsOf(r)
  <2> SUFFICES ASSUME NEW i \in 1 .. a + b, u[i].kind = "text"
               PROVE  TextOf(u[i]) \in TextsOf(s) \cup TextsOf(r)
    BY <1>1 DEF TextsOf
  <2>1. CASE i <= a
    <3>1. i \in 1 .. a /\ u[i] = s[i]
      BY <1>1, <1>2, <2>1
    <3> QED
      BY <3>1 DEF TextsOf
  <2>2. CASE ~(i <= a)
    <3>1. i - a \in 1 .. b /\ u[i] = r[i - a]
      BY <1>1, <1>2, <2>2
    <3> QED
      BY <3>1 DEF TextsOf
  <2> QED
    BY <2>1, <2>2
<1>4. TextsOf(s) \subseteq TextsOf(u)
  <2> SUFFICES ASSUME NEW i \in 1 .. a, s[i].kind = "text" PROVE TextOf(s[i]) \in TextsOf(u)
    BY DEF TextsOf
  <2>1. i \in 1 .. Len(u) /\ u[i] = s[i]
    BY <1>1, <1>2
  <2> QED
    BY <2>1 DEF TextsOf
<1>5. TextsOf(r) \subseteq TextsOf(u)
  <2> SUFFICES ASSUME NEW i \in 1 .. b, r[i].kind = "text" PROVE TextOf(r[i]) \in TextsOf(u)
    BY DEF TextsOf
  <2> HIDE DEF a, b
  <2>1. a + i \in 1 .. a + b /\ ~(a + i <= a) /\ (a + i) - a = i
    BY ONLY <1>2, i \in 1 .. b
  <2>2. a + i \in 1 .. Len(u) /\ u[a + i] = r[i]
    BY <1>1, <2>1
  <2> QED
    BY <2>2 DEF TextsOf
<1>6. TextsOf(u) = TextsOf(s) \cup TextsOf(r)
  BY <1>3, <1>4, <1>5
<1> QED
  BY <1>6 DEF u

\* The texts of a queue that has grown by a task.
LEMMA QueuedAppend ==
    ASSUME NEW q \in Seq(Task), NEW t \in Task, NEW c \in Conn
    PROVE  QueuedFor(c, Append(q, t)) =
               QueuedFor(c, q)
               \cup (IF t.kind = "send" /\ t.conn = c THEN {TextOf(t)} ELSE {})
<1> DEFINE r == Append(q, t)
<1>1. /\ Len(q) \in Nat /\ Len(r) = Len(q) + 1
      /\ r[Len(q) + 1] = t /\ \A i \in 1 .. Len(q) : r[i] = q[i]
  BY LenProperties, AppendProperties
<1> HIDE DEF r
<1>2. \A i \in 1 .. Len(r) : i = Len(q) + 1 \/ i \in 1 .. Len(q)
  BY <1>1
<1>3. Len(q) + 1 \in 1 .. Len(r) /\ \A i \in 1 .. Len(q) : i \in 1 .. Len(r)
  BY <1>1
<1>4. QueuedFor(c, r) =
         QueuedFor(c, q) \cup (IF t.kind = "send" /\ t.conn = c THEN {TextOf(t)} ELSE {})
  BY <1>1, <1>2, <1>3 DEF QueuedFor
<1> QED
  BY <1>4 DEF r

\* The texts of a queue that has lost its head.
LEMMA QueuedTail ==
    ASSUME NEW q \in Seq(Task), q # << >>, NEW c \in Conn
    PROVE  QueuedFor(c, q) =
               QueuedFor(c, Tail(q))
               \cup (IF Head(q).kind = "send" /\ Head(q).conn = c THEN {TextOf(Head(q))} ELSE {})
<1> DEFINE r == Tail(q)
<1>1. /\ Len(q) \in Nat /\ Len(q) = Len(r) + 1 /\ Len(r) \in Nat
      /\ Head(q) = q[1] /\ \A i \in 1 .. Len(r) : r[i] = q[i + 1]
  BY HeadTailProperties, LenProperties
<1> HIDE DEF r
<1>2. ASSUME NEW i \in 1 .. Len(q) PROVE q[i] = Head(q) \/ \E j \in 1 .. Len(r) : q[i] = r[j]
  <2>1. i = 1 \/ (i - 1 \in 1 .. Len(r) /\ (i - 1) + 1 = i)
    BY <1>1
  <2>2. i - 1 \in 1 .. Len(r) => r[i - 1] = q[(i - 1) + 1]
    BY <1>1
  <2> QED
    BY <1>1, <2>1, <2>2
<1>3. \E i \in 1 .. Len(q) : q[i] = Head(q)
  BY <1>1
<1>4. ASSUME NEW j \in 1 .. Len(r) PROVE \E i \in 1 .. Len(q) : q[i] = r[j]
  <2>1. j + 1 \in 1 .. Len(q) /\ q[j + 1] = r[j]
    BY <1>1
  <2> QED
    BY <2>1
<1> DEFINE h == IF Head(q).kind = "send" /\ Head(q).conn = c THEN {TextOf(Head(q))} ELSE {}
<1>5. QueuedFor(c, q) \subseteq QueuedFor(c, r) \cup h
  BY <1>2 DEF QueuedFor
<1>6. QueuedFor(c, r) \cup h \subseteq QueuedFor(c, q)
  BY <1>3, <1>4 DEF QueuedFor
<1> QED
  BY <1>5, <1>6 DEF r

\* The step shows a session nothing.
Same(c) == UNCHANGED <<Shut(c), Owed(c), Got(c)>>

\* Some texts owed to c are sent, none before an older one; if c is closed then,
\* others may be dropped.
Settled(c) ==
    \E S \in SUBSET Owed(c) :
        /\ \A s \in S : \A t \in Owed(c) \ S : s.n < t.n
        /\ Got(c)' = Got(c) \cup S
        /\ Shut(c) => Shut(c)'
        /\ IF Shut(c)' THEN Owed(c)' \subseteq Owed(c) \ S ELSE Owed(c)' = Owed(c) \ S

\* The mapping, by its parts.
LEMMA Mapping ==
    ASSUME NLoops = 1, TypeOK, TypeOK'
    PROVE  /\ \A c \in Conn : loopOf[c] = 0 /\ loopOf'[c] = 0
           /\ \A c \in Conn : TextsOf(out[c]) \cup QueuedFor(c, tasks[loopOf[c]]) = Owed(c)
           /\ \A c \in Conn :
                 TextsOf(out'[c]) \cup QueuedFor(c, tasks'[loopOf'[c]]) = Owed(c)'
<1>1. \A c \in Conn : loopOf[c] = 0 /\ loopOf'[c] = 0
  BY OneLoop DEF TypeOK
<1> QED
  BY <1>1 DEF Owed

\* A step that shows no session anything.
LEMMA StutterStep ==
    ASSUME NLoops = 1, TypeOK, TypeOK', UNCHANGED <<trap, notes>>,
           \A c \in Conn : Same(c)
    PROVE  UNCHANGED Service!sessionVars
BY Mapping DEF Service!sessionVars, Same, Shut, Got

\* A step that settles texts of one session, or closes it, or both.
LEMMA SettleStep ==
    ASSUME NLoops = 1, TypeOK, TypeOK', trap = "none", UNCHANGED <<trap, notes>>,
           NEW c \in Conn, Settled(c), \A d \in Conn : d # c => Same(d)
    PROVE  [Service!Next]_(Service!sessionVars)
<1> DEFINE owed == [d \in Conn |-> TextsOf(out[d]) \cup QueuedFor(d, tasks[loopOf[d]])]
           shut == [d \in Conn |-> sock[d] \notin {"none", "accepted", "open"}]
           sent == [d \in Conn |-> TextsOf(wire[d])]
<1>1. PICK S \in SUBSET Owed(c) :
         /\ \A s \in S : \A t \in Owed(c) \ S : s.n < t.n
         /\ Got(c)' = Got(c) \cup S
         /\ Shut(c) => Shut(c)'
         /\ IF Shut(c)' THEN Owed(c)' \subseteq Owed(c) \ S ELSE Owed(c)' = Owed(c) \ S
  BY DEF Settled
<1>2. /\ owed = [d \in Conn |-> Owed(d)] /\ owed' = [d \in Conn |-> Owed(d)']
      /\ shut = [d \in Conn |-> Shut(d)] /\ shut' = [d \in Conn |-> Shut(d)']
      /\ sent = [d \in Conn |-> Got(d)] /\ sent' = [d \in Conn |-> Got(d)']
  BY Mapping DEF Shut, Got
<1>3. \A d \in Conn : d # c =>
         Owed(d)' = Owed(d) /\ Shut(d)' = Shut(d) /\ Got(d)' = Got(d)
  BY DEF Same
<1> HIDE DEF owed, shut, sent
<1>4. owed' = [owed EXCEPT ![c] = Owed(c)']
  BY ONLY <1>2, <1>3
<1>5. sent' = [sent EXCEPT ![c] = @ \cup S]
  BY ONLY <1>1, <1>2, <1>3, c \in Conn
<1>6. shut' = [shut EXCEPT ![c] = Shut(c)']
  BY ONLY <1>2, <1>3
<1>7. shut'[c] = Shut(c)' /\ shut[c] = Shut(c) /\ owed[c] = Owed(c) /\ owed'[c] = Owed(c)'
  BY ONLY <1>2, c \in Conn
<1>8. /\ Shut(c) \in BOOLEAN /\ Shut(c)' \in BOOLEAN
      /\ \A d \in Conn : shut[d] \in BOOLEAN
      /\ shut = [d \in Conn |-> shut[d]] /\ shut' = [d \in Conn |-> shut'[d]]
  BY <1>2 DEF Shut
<1>9. CASE Shut(c)'
  <2>1. shut' = [shut EXCEPT ![c] = TRUE] /\ shut'[c]
    BY <1>6, <1>7, <1>9
  <2>2. CASE owed' # owed
    <3>1. /\ S \in SUBSET owed[c]
          /\ \A s \in S : \A t \in owed[c] \ S : s.n < t.n
          /\ owed'[c] \in SUBSET (owed[c] \ S)
          /\ owed' = [owed EXCEPT ![c] = owed'[c]]
      BY <1>1, <1>4, <1>7, <1>9
    <3>2. Service!Settle(c)
      BY <1>5, <2>1, <2>2, <3>1 DEF Service!Settle, owed, shut, sent
    <3> QED
      BY <3>2 DEF Service!Next
  <2>3. CASE owed' = owed
    <3>1. S = {}
      BY <1>1, <1>7, <1>9, <2>3
    <3>2. sent' = sent
      BY <1>2, <1>5, <3>1
    <3>3. \A d \in Conn : shut'[d] = (shut[d] \/ d \in {c})
      BY <1>7, <1>8, <2>1
    <3>4. shut' = [d \in Conn |-> shut[d] \/ d \in {c}]
      BY <1>8, <3>3
    <3>5. \E left \in [{c} -> UNION {SUBSET owed[d] : d \in {c}}] :
             /\ \A d \in {c} : left[d] \subseteq owed[d]
             /\ owed' = [d \in Conn |-> IF d \in {c} THEN left[d] ELSE owed[d]]
      <4> DEFINE left == [d \in {c} |-> owed[d]]
      <4>1. left \in [{c} -> UNION {SUBSET owed[d] : d \in {c}}]
        OBVIOUS
      <4>2. \A d \in {c} : left[d] \subseteq owed[d]
        OBVIOUS
      <4>3. owed = [d \in Conn |-> owed[d]]
        BY <1>2
      <4>4. owed' = [d \in Conn |-> IF d \in {c} THEN left[d] ELSE owed[d]]
        BY <2>3, <4>3
      <4> HIDE DEF left
      <4> QED
        BY <4>1, <4>2, <4>4
    <3>6. Service!Close({c})
      BY <3>2, <3>4, <3>5 DEF Service!Close, owed, shut, sent
    <3> QED
      BY <3>6 DEF Service!Next
  <2> QED
    BY <2>2, <2>3
<1>10. CASE ~Shut(c)'
  <2>1. Shut(c)' = Shut(c)
    BY <1>1, <1>8, <1>10
  <2>2. shut' = shut
    BY <1>2, <1>3, <2>1
  <2>3. CASE owed' # owed
    <3>1. /\ S \in SUBSET owed[c]
          /\ \A s \in S : \A t \in owed[c] \ S : s.n < t.n
          /\ owed' = [owed EXCEPT ![c] = owed[c] \ S]
          /\ ~shut'[c]
      BY <1>1, <1>4, <1>7, <1>10
    <3>2. Service!Settle(c)
      BY <1>5, <2>2, <2>3, <3>1 DEF Service!Settle, owed, shut, sent
    <3> QED
      BY <3>2 DEF Service!Next
  <2>4. CASE owed' = owed
    <3>1. S = {}
      BY <1>1, <1>7, <1>10, <2>4
    <3>2. sent' = sent
      BY <1>2, <1>5, <3>1
    <3> QED
      BY <2>2, <2>4, <3>2 DEF Service!sessionVars, owed, shut, sent
  <2> QED
    BY <2>3, <2>4
<1> QED
  BY <1>9, <1>10

\* The process dies.
LEMMA CrashStep ==
    ASSUME NLoops = 1, TypeOK, TypeOK', trap = "none", trap' # "none",
           UNCHANGED <<sock, out, wire, tasks, notes>>
    PROVE  Service!Next
<1>1. \A c \in Conn : Owed(c)' = Owed(c)
  BY DEF Owed
<1>2. Service!Crash
  BY <1>1, Mapping DEF Service!Crash
<1> QED
  BY <1>2 DEF Service!Next

\* The application hears a text, and its answer is owed unless the client is
\* closed or has left.
LEMMA ReadTextStep ==
    ASSUME NLoops = 1, IInv, TypeOK', Fresh, SessionInv, stopPc = "running",
           NEW c \in Conn, ReadText(c)
    PROVE  Service!Next
<1> DEFINE n == ThisFrame(c)
           t == SendTask(c, c, n)
           q == tasks[0]
<1>0. /\ TypeOK /\ NotesInv /\ Located /\ ReachInv /\ OwnInv /\ NumberInv
      /\ Loop = {0} /\ Thread = {0, 1} /\ serverQueue = 1 /\ loopOf[c] = 0
      /\ trap = "none" /\ stage[c] = "websocket" /\ access[0] = None
      /\ loopState[0] # "closed" /\ frames[c] < MaxFrames
      /\ UNCHANGED <<sock, out, wire, loopOf, trap>>
      /\ notes' = [notes EXCEPT ![c] = Append(@, Note("text", n))]
  BY OneLoop DEF IInv, SessionInv, ReadText, ReadsFrame, connVars
<1>1. n \in 1 .. MaxFrames /\ n = frames[c] + 1 /\ frames[c] \in Nat
  BY <1>0, ChannelsAssumption DEF TypeOK, ThisFrame
<1>2. notes[c] # << >> /\ notes[c] \in Seq(Notification) /\ DOMAIN notes[c] = 1 .. Len(notes[c])
  <2>1. notes[c] \in Seq(Notification)
    BY <1>0 DEF TypeOK
  <2> QED
    BY <1>0, <2>1, LenProperties DEF NotesInv, Connecting, Upgraded
<1>3. \A j \in DOMAIN notes[c] : notes[c][j].n < n
  <2> SUFFICES ASSUME NEW j \in 1 .. Len(notes[c]) PROVE notes[c][j].n < n
    BY <1>2
  <2>1. notes[c][j] \in Notification /\ notes[c][j].n <= frames[c]
    BY <1>0, <1>2 DEF NumberInv
  <2>2. notes[c][j].n \in Nat
    BY <2>1 DEF Notification
  <2> QED
    BY <1>1, <2>1, <2>2
<1>4. \/ tasks' = tasks /\ connectedChannels[addr[c]] # c
      \/ tasks' = [tasks EXCEPT ![0] = Append(q, t)]
  <2>1. Lookup(0, addr[c]) = {connectedChannels[addr[c]]}
    BY <1>0 DEF Lookup, ReachInv
  <2>2. PICK d \in Lookup(0, addr[c]) : tasks' = IF d = None THEN tasks
                                                 ELSE Execute(loopOf[d], SendTask(d, c, n))
    BY <1>0 DEF ReadText
  <2>3. connectedChannels[addr[c]] = c => c # None
    BY ChannelsAssumption
  <2>4. connectedChannels[addr[c]] = c \/ connectedChannels[addr[c]] = None
    <3>1. Attended(c)
      BY <1>0 DEF ReadText, ReadsFrame, Attended
    <3> QED
      BY <1>0, <1>2, <3>1 DEF OwnInv, Own
  <2> QED
    BY <1>0, <2>1, <2>2, <2>3, <2>4 DEF Execute
<1> HIDE DEF n, t, q
<1>5. Service!Hears(c, "text", n)
  BY <1>0 DEF Service!Hears, Note
<1>6. CASE tasks' = tasks /\ connectedChannels[addr[c]] # c
  <2>1. ~Known(c)
    BY <1>0, <1>6 DEF ReachInv
  <2>2. Shut(c) \/ Kinds(notes[c]) \cap Leaving # {}
    BY <1>0, <1>2, <2>1 DEF Known, Shut, Fresh
  <2>3. Shut(c) \/ Service!HasLeft(c)
    BY <2>2 DEF Kinds, Leaving, Service!HasLeft, Service!LeaveKind
  <2>4. [d \in Conn |-> sock[d] \notin {"none", "accepted", "open"}][c] \/ Service!HasLeft(c)
    BY <2>3 DEF Shut
  <2>5. Service!Receive(c, n)
    BY <1>0, <1>2, <1>3, <1>5, <1>6, <2>4 DEF Service!Receive
  <2> QED
    BY <1>1, <2>5 DEF Service!Next
<1>7. CASE tasks' = [tasks EXCEPT ![0] = Append(q, t)]
  <2>1. t \in Task /\ t.kind = "send" /\ t.conn = c /\ TextOf(t) = Service!Text(c, n)
    BY <1>1 DEF t, SendTask, Task, TextOf, Service!Text
  <2>2. q \in Seq(Task) /\ tasks'[0] = Append(q, t) /\ q = tasks[0]
    BY <1>0, <1>7 DEF TypeOK, q
  <2>3. \A d \in Conn : Owed(d)' = IF d = c THEN Owed(d) \cup {Service!Text(c, n)} ELSE Owed(d)
    BY <1>0, <2>1, <2>2, QueuedAppend DEF Owed
  <2> DEFINE owed == [d \in Conn |-> TextsOf(out[d]) \cup QueuedFor(d, tasks[loopOf[d]])]
  <2>4. owed = [d \in Conn |-> Owed(d)] /\ owed' = [d \in Conn |-> Owed(d)']
    BY <1>0, Mapping
  <2> HIDE DEF owed
  <2>5. owed' = [owed EXCEPT ![c] = @ \cup {Service!Text(c, n)}]
    BY <2>3, <2>4
  <2>6. Service!Receive(c, n)
    BY <1>0, <1>2, <1>3, <1>5, <2>5 DEF Service!Receive, owed
  <2> QED
    BY <1>1, <2>6 DEF Service!Next
<1> QED
  BY <1>4, <1>6, <1>7

\* The application hears that a client has come, or gone.
LEMMA EndChangeStep ==
    ASSUME NLoops = 1, IInv, TypeOK', AloneInv, EndChange(0),
           UNCHANGED <<connVars, loopVars, trap>>
    PROVE  Service!Next
<1> DEFINE d == access[0].conn
           k == access[0].note
<1>0. /\ TypeOK /\ AccessInv /\ NotesInv /\ 0 \in Thread /\ 0 \in Loop
      /\ \A c \in Conn : loopOf[c] = 0
  BY OneLoop DEF IInv
<1>1. /\ trap = "none" /\ access[0] # None
      /\ d \in Conn /\ stage[d] \in Upgraded
      /\ k \in Leaving \cup {"connect"}
  <2>1. trap = "none" /\ access[0] # None
    BY DEF EndChange, Commit
  <2>2. access[0] \in Change /\ d # None /\ stage[d] \in Upgraded
    BY <1>0, <2>1 DEF TypeOK, AccessInv
  <2>3. d \in Conn
    BY <2>2 DEF Change
  <2> QED
    BY <2>1, <2>2, <2>3 DEF AloneInv
<1>2. notes' = [notes EXCEPT ![d] = Append(@, Note(k, 0))]
  BY DEF EndChange
<1>3. notes[d] = << >> <=> k = "connect"
  BY <1>0, <1>1 DEF NotesInv, Connecting
<1>4. /\ UNCHANGED <<sock, out, wire, trap>>
      /\ \A c \in Conn : Owed(c)' = Owed(c)
  BY DEF connVars, loopVars, Owed
<1> HIDE DEF d, k
<1>5. Service!Hears(d, k, 0)
  BY <1>2 DEF Service!Hears, Note
<1>6. CASE k = "connect"
  <2>1. Service!Connect(d)
    BY <1>0, <1>1, <1>3, <1>4, <1>5, <1>6, Mapping DEF Service!Connect
  <2> QED
    BY <1>1, <2>1 DEF Service!Next
<1>7. CASE k \in Leaving
  <2>1. Service!Leave(d, k)
    BY <1>0, <1>1, <1>3, <1>4, <1>5, <1>7, Mapping DEF Service!Leave, Leaving
  <2> QED
    BY <1>1, <1>7, <2>1 DEF Service!Next, Service!LeaveKind, Leaving
<1> QED
  BY <1>1, <1>6, <1>7

\* A step that sends no text and drops none leaves the texts that are queued.
LEMMA QueuedSame ==
    ASSUME NLoops = 1, TypeOK,
           \/ tasks' = tasks
           \/ \E t \in Task : t.kind # "send" /\ tasks' = Execute(0, t)
           \/ TaskDone(0) /\ tasks[0] # << >> /\ Head(tasks[0]).kind # "send",
           NEW c \in Conn
    PROVE  QueuedFor(c, tasks'[0]) = QueuedFor(c, tasks[0])
<1>0. 0 \in Loop /\ tasks[0] \in Seq(Task)
  BY OneLoop DEF TypeOK
<1>1. ASSUME NEW t \in Task, t.kind # "send", tasks' = Execute(0, t)
      PROVE  QueuedFor(c, tasks'[0]) = QueuedFor(c, tasks[0])
  <2>1. tasks'[0] = tasks[0] \/ tasks'[0] = Append(tasks[0], t)
    BY <1>0, <1>1 DEF TypeOK, Execute
  <2>2. QueuedFor(c, Append(tasks[0], t)) = QueuedFor(c, tasks[0]) \cup {}
    BY <1>0, <1>1, QueuedAppend
  <2> QED
    BY <2>1, <2>2
<1>2. ASSUME TaskDone(0), tasks[0] # << >>, Head(tasks[0]).kind # "send"
      PROVE  QueuedFor(c, tasks'[0]) = QueuedFor(c, tasks[0])
  <2>1. tasks'[0] = Tail(tasks[0])
    BY <1>0, <1>2 DEF TypeOK, TaskDone
  <2>2. QueuedFor(c, tasks[0]) = QueuedFor(c, Tail(tasks[0])) \cup {}
    BY <1>0, <1>2, QueuedTail
  <2> QED
    BY <2>1, <2>2
<1> QED
  BY <1>1, <1>2

\* Nor does a turn of a queue that begins with no text and gains none.
LEMMA OrdinaryQueued ==
    ASSUME NLoops = 1, TypeOK, Turn(tasks[0], tasks'[0], Ordinary),
           tasks[0] = << >> \/ Head(tasks[0]).kind # "send", NEW c \in Conn
    PROVE  QueuedFor(c, tasks'[0]) = QueuedFor(c, tasks[0])
<1> DEFINE q == tasks[0]
           r == tasks'[0]
<1>1. q \in Seq(Task) /\ (q = << >> \/ Head(q).kind # "send") /\ Turn(q, r, Ordinary)
  BY OneLoop DEF TypeOK
<1> HIDE DEF q, r
<1>2. ASSUME q # << >> PROVE Tail(q) \in Seq(Task) /\ QueuedFor(c, Tail(q)) = QueuedFor(c, q)
  <2>1. QueuedFor(c, q) = QueuedFor(c, Tail(q)) \cup {}
    BY <1>1, <1>2, QueuedTail
  <2> QED
    BY <1>1, <1>2, <2>1
<1>3. ASSUME NEW s \in Seq(Task), NEW t \in Ordinary
      PROVE  QueuedFor(c, Append(s, t)) = QueuedFor(c, s)
  <2>1. t \in Task /\ t.kind # "send"
    BY DEF Ordinary
  <2>2. QueuedFor(c, Append(s, t)) = QueuedFor(c, s) \cup {}
    BY <2>1, QueuedAppend
  <2> QED
    BY <2>2
<1>4. QueuedFor(c, r) = QueuedFor(c, q)
  <2>1. CASE \E t \in Ordinary : r = Append(q, t)
    BY <1>1, <1>3, <2>1
  <2>2. CASE q # << >> /\ r = Tail(q)
    BY <1>2, <2>2
  <2>3. CASE q # << >> /\ \E t \in Ordinary : r = Append(Tail(q), t)
    BY <1>2, <1>3, <2>3
  <2> QED
    BY <1>1, <2>1, <2>2, <2>3 DEF Turn
<1> QED
  BY <1>4 DEF q, r

\* What is written without being a text is no text pending.
LEMMA WriteTexts ==
    ASSUME TypeOK, NEW d \in Conn, NEW m \in Message, m.kind # "text", out' = Write(d, m),
           NEW c \in Conn
    PROVE  TextsOf(out'[c]) = TextsOf(out[c])
<1>1. out[c] \in Seq(Message) /\ (out'[c] = out[c] \/ out'[c] = Append(out[c], m))
  BY DEF TypeOK, Write
<1> QED
  BY <1>1, TextsAppend

\* There are no texts where there are no messages.
LEMMA NoTexts == TextsOf(<< >>) = {}
BY DEF TextsOf

\* A session that closes loses what was pending.
LEMMA CloseSettled ==
    ASSUME NLoops = 1, TypeOK, NEW d \in Conn, NEW why \in {"lost", "closed"}, Close(d, why),
           UNCHANGED wire
    PROVE  Settled(d) /\ \A c \in Conn : c # d => Same(c)
<1>0. loopOf[d] = 0
  BY OneLoop
<1>1. \A c \in Conn : QueuedFor(c, tasks'[0]) = QueuedFor(c, tasks[0])
  <2>1. LoopTask("removed", d) \in Task /\ LoopTask("removed", d).kind # "send"
    BY LoopTaskType DEF TaskKind, LoopTask
  <2>2. tasks' = tasks \/ tasks' = Execute(0, LoopTask("removed", d))
    BY <1>0 DEF Close
  <2> QED
    BY <2>1, <2>2, QueuedSame
<1>2. /\ sock' = [sock EXCEPT ![d] = why] /\ out' = [out EXCEPT ![d] = << >>]
  BY DEF Close
<1>3. \A c \in Conn : c # d => Same(c)
  BY <1>1, <1>2 DEF TypeOK, Same, Shut, Owed, Got
<1>4. Shut(d)' /\ Got(d)' = Got(d)
  BY <1>2 DEF TypeOK, Shut, Got
<1>5. Owed(d)' \subseteq Owed(d)
  BY <1>1, <1>2, NoTexts DEF TypeOK, Owed
<1>6. Settled(d)
  BY <1>4, <1>5, {} \in SUBSET Owed(d) DEF Settled
<1> QED
  BY <1>3, <1>6

\* A queued text becomes a pending one, or is dropped because its session has
\* been closed.
LEMMA SendTextSettled ==
    ASSUME NLoops = 1, IInv, Fresh, SendInv, ~awaitingClose, SendText(0)
    PROVE  \E d \in Conn : Settled(d) /\ \A c \in Conn : c # d => Same(c)
<1> DEFINE q == tasks[0]
           h == Head(q)
           m == Msg("text", h.from, h.n)
<1>0. /\ TypeOK /\ Located /\ 0 \in Loop /\ q \in Seq(Task) /\ q # << >> /\ h.kind = "send"
      /\ tasks'[0] = Tail(q) /\ UNCHANGED <<sock, wire>> /\ WriteText(h)
  BY OneLoop DEF IInv, TypeOK, SendText
<1>1. 1 \in 1 .. Len(q) /\ h = q[1]
  BY <1>0
<1>2. PICK d \in Conn :
         d = h.conn /\ h.from \in Conn /\ h.n \in Nat /\ stage[d] \in Upgraded
  BY <1>0, <1>1, QueuedSend
<1>3. m \in Message /\ m.kind = "text" /\ TextOf(m) = TextOf(h)
  BY <1>2, MsgType DEF FrameKind, Msg, TextOf
<1> HIDE DEF m
<1>4. \A c \in Conn :
         QueuedFor(c, q) = QueuedFor(c, Tail(q)) \cup (IF c = d THEN {TextOf(h)} ELSE {})
  BY <1>0, <1>2, QueuedTail
<1>5. out' = IF sock[d] = "open" THEN [out EXCEPT ![d] = Append(@, m)] ELSE out
  BY <1>0, <1>2 DEF WriteText, Write, IsActive, m
<1> HIDE DEF h
<1>6. ASSUME NEW c \in Conn, c # d PROVE Same(c)
  <2>1. QueuedFor(c, q) = QueuedFor(c, Tail(q)) \cup {}
    BY <1>4, <1>6
  <2>2. out'[c] = out[c]
    BY <1>0, <1>5, <1>6 DEF TypeOK
  <2>3. QueuedFor(c, tasks'[0]) = QueuedFor(c, tasks[0])
    BY <1>0, <2>1
  <2>4. Owed(c)' = Owed(c)
    BY <2>2, <2>3 DEF Owed
  <2> QED
    BY <1>0, <2>4 DEF Same, Shut, Got
<1>7. Settled(d)
  <2>1. Got(d)' = Got(d) /\ Shut(d)' = Shut(d)
    BY <1>0 DEF Got, Shut
  <2>0. QueuedFor(d, q) = QueuedFor(d, tasks'[0]) \cup {TextOf(h)}
    BY <1>0, <1>4
  <2>2. CASE sock[d] = "open"
    <3>1. out'[d] = Append(out[d], m) /\ out[d] \in Seq(Message)
      BY <1>0, <1>5, <2>2 DEF TypeOK
    <3>2. TextsOf(out'[d]) = TextsOf(out[d]) \cup {TextOf(h)}
      BY <1>3, <3>1, TextsAppend
    <3>3. Owed(d)' = Owed(d)
      BY <2>0, <3>2 DEF Owed
    <3>4. ~Shut(d)
      BY <2>2 DEF Shut
    <3> QED
      BY <2>1, <3>3, <3>4, {} \in SUBSET Owed(d) DEF Settled
  <2>3. CASE sock[d] # "open"
    <3>1. Shut(d)
      BY <1>2, <2>3 DEF Fresh, Upgraded, Shut
    <3>2. Owed(d)' \subseteq Owed(d)
      BY <1>5, <2>0, <2>3 DEF Owed
    <3> QED
      BY <2>1, <3>1, <3>2, {} \in SUBSET Owed(d) DEF Settled
  <2> QED
    BY <2>2, <2>3
<1> QED
  BY <1>6, <1>7

\* The first messages of a sequence, and the rest.
LEMMA Split ==
    ASSUME NEW o \in Seq(Message), NEW i \in 1 .. Len(o)
    PROVE  /\ SubSeq(o, 1, i) \in Seq(Message) /\ Len(SubSeq(o, 1, i)) = i
           /\ \A j \in 1 .. i : j \in 1 .. Len(o) /\ SubSeq(o, 1, i)[j] = o[j]
           /\ SubSeq(o, i + 1, Len(o)) \in Seq(Message)
           /\ Len(SubSeq(o, i + 1, Len(o))) = Len(o) - i
           /\ \A j \in 1 .. Len(o) - i :
                 i + j \in 1 .. Len(o) /\ SubSeq(o, i + 1, Len(o))[j] = o[i + j]
<1>1. Len(o) \in Nat /\ \A j \in 1 .. Len(o) : o[j] \in Message
  BY LenProperties, ElementOfSeq
<1>2. \A j \in 1 .. i : o[j] \in Message
  BY <1>1
<1>3. \A j \in i + 1 .. Len(o) : o[j] \in Message
  BY <1>1
<1>4. /\ SubSeq(o, 1, i) \in Seq(Message) /\ Len(SubSeq(o, 1, i)) = i
      /\ \A j \in 1 .. i : j \in 1 .. Len(o) /\ SubSeq(o, 1, i)[j] = o[j]
  BY <1>1, <1>2, SubSeqProperties
<1>5. /\ SubSeq(o, i + 1, Len(o)) \in Seq(Message)
      /\ Len(SubSeq(o, i + 1, Len(o))) = Len(o) - i
      /\ \A j \in 1 .. Len(o) - i :
            i + j \in 1 .. Len(o) /\ SubSeq(o, i + 1, Len(o))[j] = o[i + j]
  BY <1>1, <1>3, SubSeqProperties
<1> QED
  BY <1>4, <1>5

\* The texts that are sent are older than those that stay.
LEMMA PendingOrder ==
    ASSUME NLoops = 1, IInv, WireInv, HomeInv, NEW c \in Conn, NEW i \in 1 .. Len(out[c]),
           NEW x \in TextsOf(SubSeq(out[c], 1, i)),
           NEW t \in TextsOf(SubSeq(out[c], i + 1, Len(out[c]))) \cup QueuedFor(c, tasks[0])
    PROVE  x.n \in Nat /\ t.n \in Nat /\ x.n < t.n
<1> DEFINE o == out[c]
           s == SubSeq(o, 1, i)
           r == SubSeq(o, i + 1, Len(o))
           a == Len(wire[c])
<1>0. /\ TypeOK /\ SendInv /\ EchoInv /\ 0 \in Loop
      /\ o \in Seq(Message) /\ Len(o) \in Nat /\ a \in Nat /\ Line(c) \in Seq(Message)
  BY OneLoop, LineType, LenProperties DEF IInv, WireInv
<1>1. PICK j \in 1 .. i : j \in 1 .. Len(o) /\ o[j].kind = "text" /\ x = TextOf(o[j])
  <2>1. \A j \in 1 .. Len(s) : j \in 1 .. i /\ j \in 1 .. Len(o) /\ s[j] = o[j]
    BY <1>0, Split
  <2> HIDE DEF s
  <2> QED
    BY <2>1 DEF TextsOf, s
<1>2. /\ a + j \in 1 .. Len(Line(c)) /\ Line(c)[a + j] = o[j]
      /\ o[j].from = c /\ o[j].n \in Nat /\ x.n = o[j].n
  <2>1. a + j \in 1 .. Len(Line(c)) /\ Line(c)[a + j] = o[j]
    BY <1>0, <1>1, Pending
  <2>2. o[j] \in Message
    BY <1>0, <1>1
  <2> HIDE DEF a, o
  <2> QED
    BY <1>1, <2>1, <2>2 DEF HomeInv, Message, TextOf
<1>3. CASE t \in TextsOf(r)
  <2>1. \A k \in 1 .. Len(r) : k \in 1 .. Len(o) - i /\ i + k \in 1 .. Len(o) /\ r[k] = o[i + k]
    BY <1>0, Split
  <2> HIDE DEF r
  <2>2. PICK k \in 1 .. Len(o) - i :
           i + k \in 1 .. Len(o) /\ o[i + k].kind = "text" /\ t = TextOf(o[i + k])
    BY <1>3, <2>1 DEF TextsOf
  <2>3. a + (i + k) \in 1 .. Len(Line(c)) /\ Line(c)[a + (i + k)] = o[i + k]
    BY <1>0, <2>2, Pending
  <2>4. o[i + k] \in Message
    BY <1>0, <2>2
  <2>5. o[i + k].from = c /\ o[i + k].n \in Nat /\ t.n = o[i + k].n
    <3> HIDE DEF a, o
    <3> QED
      BY <2>2, <2>3, <2>4 DEF HomeInv, Message, TextOf
  <2> HIDE DEF a, o
  <2>6. a + j \in 1 .. (a + (i + k)) - 1
    <3> DEFINE b == Len(o)
    <3>1. a \in Nat /\ b \in Nat /\ i \in 1 .. b /\ j \in 1 .. i /\ k \in 1 .. b - i
      BY <1>0 DEF o
    <3> HIDE DEF b
    <3> QED
      BY ONLY <3>1
  <2>7. EchoesOf(Line(c), c, stage, addr, frames)
    BY <1>0 DEF EchoInv
  <2>8. o[j].n < o[i + k].n
    BY <1>1, <1>2, <2>2, <2>3, <2>5, <2>6, <2>7 DEF EchoesOf
  <2> QED
    BY <1>2, <2>5, <2>8
<1>4. CASE t \in QueuedFor(c, tasks[0])
  <2>1. PICK k \in 1 .. Len(tasks[0]) :
           tasks[0][k].kind = "send" /\ tasks[0][k].conn = c /\ t = TextOf(tasks[0][k])
    BY <1>4 DEF QueuedFor
  <2>2. tasks[0][k].n \in Nat /\ Older(Line(c), tasks[0][k])
    BY <1>0, <2>1, QueuedSend
  <2>3. tasks[0][k].from = c
    BY <2>1 DEF HomeInv
  <2> HIDE DEF a, o
  <2>4. o[j].n < tasks[0][k].n
    BY <1>1, <1>2, <2>2, <2>3 DEF Older
  <2> QED
    BY <1>2, <2>1, <2>2, <2>4 DEF TextOf
<1> QED
  BY <1>3, <1>4

\* The socket settles texts in their order, and may close the session for it.
LEMMA WritableSettled ==
    ASSUME NLoops = 1, IInv, WireInv, HomeInv, NEW c \in Conn, Writable(c)
    PROVE  Settled(c) /\ \A d \in Conn : d # c => Same(d)
<1>0. /\ TypeOK /\ loopOf[c] = 0 /\ wire[c] \in Seq(Message) /\ out[c] \in Seq(Message)
      /\ IsActive(c)
  BY OneLoop, LineType DEF IInv, Writable
<1>1. PICK i \in 1 .. Len(out[c]) :
         /\ wire' = [wire EXCEPT ![c] = @ \o SubSeq(out[c], 1, i)]
         /\ Written(c, SubSeq(out[c], 1, i), SubSeq(out[c], i + 1, Len(out[c])))
  BY DEF Writable
<1> DEFINE s == SubSeq(out[c], 1, i)
           r == SubSeq(out[c], i + 1, Len(out[c]))
           S == TextsOf(s)
           later == TextsOf(r) \cup QueuedFor(c, tasks[0])
<1>2. \A d \in Conn : QueuedFor(d, tasks'[0]) = QueuedFor(d, tasks[0])
  <2>1. LoopTask("removed", c) \in Task /\ LoopTask("removed", c).kind # "send"
    BY LoopTaskType DEF TaskKind, LoopTask
  <2>2. tasks' = tasks \/ tasks' = Execute(0, LoopTask("removed", c))
    BY <1>0, <1>1 DEF Written, Close
  <2> QED
    BY <1>0, <2>1, <2>2, QueuedSame
<1>3. \A d \in Conn : d # c => Same(d)
  <2>1. \A d \in Conn : d # c => sock'[d] = sock[d] /\ out'[d] = out[d] /\ wire'[d] = wire[d]
    BY <1>0, <1>1 DEF TypeOK, Written, Close
  <2> QED
    BY <1>2, <2>1 DEF Same, Shut, Owed, Got
<1>4. TextsOf(out[c]) = S \cup TextsOf(r)
  <2> DEFINE o == out[c]
             b == Len(o)
  <2>1. /\ Len(s) = i /\ \A j \in 1 .. i : j \in 1 .. b /\ s[j] = o[j]
        /\ Len(r) = b - i
        /\ \A j \in 1 .. b - i : i + j \in 1 .. b /\ r[j] = o[i + j]
    BY <1>0, Split
  <2>2. b \in Nat /\ i \in 1 .. b
    BY <1>0, LenProperties
  <2> HIDE DEF s, r
  <2>3. S \subseteq TextsOf(o)
    BY <2>1 DEF TextsOf
  <2>4. TextsOf(r) \subseteq TextsOf(o)
    BY <2>1 DEF TextsOf
  <2>5. ASSUME NEW j \in 1 .. b, o[j].kind = "text" PROVE TextOf(o[j]) \in S \cup TextsOf(r)
    <3> HIDE DEF b
    <3>1. j \in 1 .. i \/ (j - i \in 1 .. b - i /\ i + (j - i) = j)
      BY <2>2
    <3>2. CASE j \in 1 .. i
      BY <2>1, <2>5, <3>2 DEF TextsOf
    <3>3. CASE j - i \in 1 .. b - i /\ i + (j - i) = j
      <4>1. r[j - i] = o[j] /\ j - i \in 1 .. Len(r)
        BY <2>1, <3>3
      <4> QED
        BY <2>5, <4>1 DEF TextsOf
    <3> QED
      BY <3>1, <3>2, <3>3
  <2>6. TextsOf(o) \subseteq S \cup TextsOf(r)
    BY <2>5 DEF TextsOf
  <2> QED
    BY <2>3, <2>4, <2>6
<1>5. Got(c)' = Got(c) \cup S
  <2>1. s \in Seq(Message)
    BY <1>0, Split
  <2>2. wire'[c] = wire[c] \o s
    BY <1>0, <1>1 DEF TypeOK
  <2>3. TextsOf(wire[c] \o s) = TextsOf(wire[c]) \cup TextsOf(s)
    BY <1>0, <2>1, TextsConcat
  <2> QED
    BY <2>2, <2>3 DEF Got
<1>6. \A x \in S : \A t \in later : x.n < t.n /\ x # t
  <2> SUFFICES ASSUME NEW x \in S, NEW t \in later PROVE x.n < t.n /\ x # t
    OBVIOUS
  <2>1. x.n \in Nat /\ t.n \in Nat /\ x.n < t.n
    BY PendingOrder
  <2> QED
    BY <2>1
<1>7. \/ sock'[c] \in {"closed", "half"} /\ out'[c] = << >>
      \/ sock'[c] = sock[c] /\ out'[c] = r
  BY <1>0, <1>1 DEF TypeOK, Written, Close
<1>8. CASE sock'[c] \in {"closed", "half"} /\ out'[c] = << >>
  <2>1. Owed(c)' = QueuedFor(c, tasks[0]) /\ Shut(c)'
    BY <1>2, <1>8, NoTexts DEF Owed, Shut
  <2> HIDE DEF S
  <2>2. S \in SUBSET Owed(c) /\ Owed(c)' \subseteq Owed(c) \ S /\ Owed(c) \ S \subseteq later
    BY <1>4, <1>6, <2>1 DEF Owed
  <2>3. \A x \in S : \A t \in Owed(c) \ S : x.n < t.n
    BY <1>6, <2>2
  <2>4. Settled(c)
    BY <1>5, <2>1, <2>2, <2>3 DEF Settled
  <2> QED
    BY <1>3, <2>4
<1>9. CASE sock'[c] = sock[c] /\ out'[c] = r
  <2>1. Owed(c)' = later /\ Shut(c)' = Shut(c)
    BY <1>2, <1>9 DEF Owed, Shut
  <2> HIDE DEF S
  <2>2. S \in SUBSET Owed(c) /\ Owed(c) \ S = later
    BY <1>4, <1>6 DEF Owed
  <2>3. \A x \in S : \A t \in Owed(c) \ S : x.n < t.n
    BY <1>6, <2>2
  <2>4. Settled(c)
    BY <1>5, <2>1, <2>2, <2>3 DEF Settled
  <2> QED
    BY <1>3, <2>4
<1> QED
  BY <1>7, <1>8, <1>9

\* Every step of a server that is not stopped is a step of Sessions, or none.
LEMMA ServiceStep ==
    ASSUME NLoops = 1, ~MayStop, "reserved" \notin Frames,
           IInv, IInv', WireInv, StopInv, SessionInv, AnswerInv, stopPc = "running",
           [Next]_vars
    PROVE  [Service!Next]_(Service!sessionVars)
<1> DEFINE Goal == [Service!Next]_(Service!sessionVars)
<1>0. /\ TypeOK /\ TypeOK' /\ Located /\ Fresh /\ SendInv /\ ~awaitingClose
      /\ Loop = {0} /\ \A c \in Conn : loopOf[c] = 0
      /\ tasks[0] \in Seq(Task)
      /\ \A c \in Conn : wire[c] \in Seq(Message) /\ out[c] \in Seq(Message)
  BY OneLoop, LineType DEF IInv, WireInv, AnswerInv, StopInv, TypeOK
<1>1. ASSUME UNCHANGED <<trap, notes>>,
             \A c \in Conn :
                /\ Shut(c)' = Shut(c)
                /\ TextsOf(out'[c]) = TextsOf(out[c])
                /\ TextsOf(wire'[c]) = TextsOf(wire[c])
                /\ QueuedFor(c, tasks'[0]) = QueuedFor(c, tasks[0])
      PROVE  Goal
  <2>1. \A c \in Conn : Same(c)
    BY <1>1 DEF Same, Owed, Got
  <2>2. UNCHANGED Service!sessionVars
    BY <1>0, <1>1, <2>1, StutterStep
  <2> QED
    BY <2>2
<1>2. ASSUME UNCHANGED <<trap, notes, sock, out, wire, tasks>> PROVE Goal
  BY <1>1, <1>2 DEF Shut
<1>3. ASSUME trap = "none", UNCHANGED <<trap, notes>>,
             \E d \in Conn : Settled(d) /\ \A c \in Conn : c # d => Same(c)
      PROVE  Goal
  BY <1>0, <1>3, SettleStep
<1>4. ASSUME NEW d \in Conn, NEW m \in Message, m.kind # "text", out' = Write(d, m),
             UNCHANGED <<trap, notes, sock, wire, tasks>>
      PROVE  Goal
  BY <1>0, <1>1, <1>4, WriteTexts DEF Shut
<1>5. ASSUME NEW d \in Conn, NEW why \in {"lost", "closed"}, Close(d, why),
             trap = "none", UNCHANGED <<trap, notes, wire>>
      PROVE  Goal
  BY <1>0, <1>3, <1>5, CloseSettled
<1>6. ASSUME NEW c \in Conn, NEW a \in Addr, Accept(c, a) PROVE Goal
  <2>1. UNCHANGED <<trap, notes, out, wire>>
    BY <1>6 DEF Accept, tableVars
  <2>2. \A d \in Conn : Shut(d)' = Shut(d)
    BY <1>0, <1>6 DEF TypeOK, Accept, Shut
  <2>3. \A d \in Conn : QueuedFor(d, tasks'[0]) = QueuedFor(d, tasks[0])
    <3>1. nextLoop = 0
      BY <1>0 DEF TypeOK
    <3>2. LoopTask("register", c) \in Task /\ LoopTask("register", c).kind # "send"
      BY LoopTaskType DEF TaskKind, LoopTask
    <3>3. tasks' = Execute(0, LoopTask("register", c))
      BY <1>6, <3>1 DEF Accept
    <3> QED
      BY <1>0, <3>2, <3>3, QueuedSame
  <2> QED
    BY <1>1, <2>1, <2>2, <2>3
<1>7. ASSUME NEW c \in Conn, Request(c) PROVE Goal
  <2>1. CASE ReadUpgrade(c)
    <3>1. LoopTask("upgrade", c) \in Task /\ LoopTask("upgrade", c).kind # "send"
      BY LoopTaskType DEF TaskKind, LoopTask
    <3>2. /\ tasks' = Execute(0, LoopTask("upgrade", c))
          /\ UNCHANGED <<trap, notes, sock, out, wire>>
      BY <1>0, <2>1 DEF ReadUpgrade, tableVars
    <3>3. \A d \in Conn : QueuedFor(d, tasks'[0]) = QueuedFor(d, tasks[0])
      BY <1>0, <3>1, <3>2, QueuedSame
    <3> QED
      BY <1>1, <3>2, <3>3 DEF Shut
  <2>2. CASE ReadGet(c)
    <3>1. trap = "none" /\ UNCHANGED <<notes, sock, wire, tasks>>
      BY <2>2 DEF ReadGet, ReadsRequest, Idle, loopVars, tableVars
    <3>2. CASE trap' # "none"
      <4>1. UNCHANGED out
        BY <2>2, <3>1, <3>2 DEF ReadGet
      <4> QED
        BY <1>0, <3>1, <3>2, <4>1, CrashStep
    <3>3. CASE trap' = "none"
      <4>1. out' = Write(c, Msg("page", c, 0))
        BY <2>2, <3>3 DEF ReadGet
      <4>2. Msg("page", c, 0) \in Message /\ Msg("page", c, 0).kind # "text"
        BY MsgType DEF HttpKind, Msg
      <4> QED
        BY <1>4, <3>1, <3>3, <4>1, <4>2
    <3> QED
      BY <3>2, <3>3
  <2>3. CASE ReadOther(c)
    <3>1. Msg("405", c, 0) \in Message /\ Msg("405", c, 0).kind # "text"
      BY MsgType DEF HttpKind, Msg
    <3> QED
      BY <1>4, <2>3, <3>1 DEF ReadOther, loopVars, tableVars
  <2> QED
    BY <1>7, <2>1, <2>2, <2>3 DEF Request
<1>8. ASSUME NEW c \in Conn, Frame(c) PROVE Goal
  <2>1. trap = "none"
    BY <1>8
    DEF Frame, ReadText, ReadPing, ReadClose, ReadReserved, ReadInvalid, ReadsFrame
  <2>2. ASSUME NEW k \in {"pong", "echoClose", "protoClose"}
        PROVE  /\ Msg(k, c, ThisFrame(c)) \in Message
               /\ Msg(k, c, ThisFrame(c)).kind # "text"
    <3>1. frames[c] \in Nat
      BY <1>0 DEF TypeOK
    <3>2. ThisFrame(c) \in Nat
      BY <3>1 DEF ThisFrame
    <3>3. k \in HttpKind \cup FrameKind /\ k # "text"
      BY DEF FrameKind
    <3> QED
      BY <3>2, <3>3, MsgType DEF Msg
  <2>3. CASE ReadText(c)
    BY <1>0, <2>3, ReadTextStep
  <2>4. CASE ReadPing(c)
    BY <1>4, <2>2, <2>4 DEF ReadPing, tableVars
  <2>5. CASE ReadClose(c)
    BY <1>0, <1>4, <2>2, <2>5 DEF ReadClose
  <2>6. CASE ReadInvalid(c)
    BY <1>4, <1>5, <2>1, <2>2, <2>6 DEF ReadInvalid, tableVars
  <2>7. ~ReadReserved(c)
    BY DEF ReadReserved, ReadsFrame
  <2> QED
    BY <1>8, <2>3, <2>4, <2>5, <2>6, <2>7 DEF Frame
<1>9. ASSUME NEW c \in Conn, Writable(c) PROVE Goal
  <2>1. Settled(c) /\ \A d \in Conn : d # c => Same(d)
    BY <1>9, WritableSettled DEF SessionInv
  <2>2. trap = "none" /\ UNCHANGED <<trap, notes>>
    BY <1>9 DEF Writable, Idle, tableVars
  <2> QED
    BY <1>3, <2>1, <2>2
<1>10. ASSUME NEW c \in Conn, Lost(c) PROVE Goal
  BY <1>5, <1>10 DEF Lost, Idle, tableVars
<1>11. ASSUME NEW l \in Loop, RunTask(l) PROVE Goal
  <2>0. l = 0
    BY <1>0
  <2>1. CASE FinishUpgrade(l)
    <3>1. /\ UNCHANGED <<trap, notes, sock, out>>
          /\ TaskDone(0) /\ tasks[0] # << >> /\ Head(tasks[0]).kind # "send"
      BY <2>0, <2>1 DEF FinishUpgrade, HeadIs
    <3>2. \A c \in Conn : QueuedFor(c, tasks'[0]) = QueuedFor(c, tasks[0])
      BY <1>0, <3>1, QueuedSame
    <3>3. ASSUME NEW c \in Conn PROVE TextsOf(wire'[c]) = TextsOf(wire[c])
      <4>1. CASE wire'[c] = wire[c]
        BY <4>1
      <4>2. CASE wire'[c] = Append(wire[c], Msg("101", c, 0))
        <5>1. Msg("101", c, 0) \in Message /\ Msg("101", c, 0).kind # "text"
          BY MsgType DEF HttpKind, Msg
        <5> QED
          BY <1>0, <4>2, <5>1, TextsAppend
      <4>3. PICK h : h = Head(tasks[0]).conn
        OBVIOUS
      <4>4. \/ UNCHANGED wire
            \/ wire' = [wire EXCEPT ![h] = Append(@, Msg("101", h, 0))]
        BY <2>0, <2>1, <4>3 DEF FinishUpgrade
      <4>5. c # h => wire'[c] = wire[c]
        BY <1>0, <4>4 DEF TypeOK
      <4>6. c = h => wire'[c] \in {wire[c], Append(wire[c], Msg("101", c, 0))}
        BY <1>0, <4>4 DEF TypeOK
      <4> QED
        BY <4>1, <4>2, <4>5, <4>6
    <3> QED
      BY <1>1, <3>1, <3>2, <3>3 DEF Shut
  <2>2. CASE HandlerRemoved(l) \/ CloseListener(l)
    <3>1. /\ UNCHANGED <<trap, notes, sock, out, wire>>
          /\ TaskDone(0) /\ tasks[0] # << >> /\ Head(tasks[0]).kind # "send"
      BY <2>0, <2>2 DEF HandlerRemoved, CloseListener, HeadIs, connVars, tableVars
    <3>2. \A c \in Conn : QueuedFor(c, tasks'[0]) = QueuedFor(c, tasks[0])
      BY <1>0, <3>1, QueuedSame
    <3> QED
      BY <1>1, <3>1, <3>2 DEF Shut
  <2>3. CASE SendText(l)
    BY <1>0, <1>3, <2>0, <2>3, SendTextSettled DEF SendText, Idle, tableVars
  <2>4. ~CloseLoop(l)
    <3>1. ASSUME HeadIs(l, "closeLoop") PROVE FALSE
      <4>1. 1 \in 1 .. Len(tasks[0]) /\ Head(tasks[0]) = tasks[0][1]
        BY <1>0, <2>0, <3>1 DEF HeadIs
      <4> QED
        BY <1>0, <2>0, <3>1, <4>1 DEF HeadIs, StopInv, Asking
    <3> QED
      BY <3>1 DEF CloseLoop
  <2>5. CASE LoopExit(l)
    BY <1>2, <2>5 DEF LoopExit, connVars, tableVars
  <2>6. CASE Admit(l)
    <3>1. /\ UNCHANGED <<trap, notes, out, wire>>
          /\ tasks[0] # << >> /\ Head(tasks[0]).kind # "send"
          /\ Turn(tasks[0], tasks'[0], Ordinary)
      BY <1>0, <2>0, <2>6, AdmitEffect
    <3>2. \A c \in Conn : QueuedFor(c, tasks'[0]) = QueuedFor(c, tasks[0])
      BY <1>0, <3>1, OrdinaryQueued
    <3>3. CASE \A c \in Conn : Shut(c)' = Shut(c)
      BY <1>1, <3>1, <3>2, <3>3
    <3>4. CASE Refuse(l)
      <4> DEFINE h == Head(tasks[l]).conn
      <4>1. sock[h] = "accepted" /\ sock' = [sock EXCEPT ![h] = "shutdown"] /\ Idle(l)
        BY <3>4 DEF Refuse
      <4> HIDE DEF h
      <4>2. CASE h \notin Conn
        <5>1. sock' = sock
          BY <1>0, <4>1, <4>2 DEF TypeOK
        <5> QED
          BY <3>3, <5>1 DEF Shut
      <4>3. CASE h \in Conn
        <5>0. PICK d \in Conn : d = h
          BY <4>3
        <5>1. \A c \in Conn : Owed(c)' = Owed(c) /\ Got(c)' = Got(c)
          BY <3>1, <3>2 DEF Owed, Got
        <5>2. sock'[d] = "shutdown" /\ \A c \in Conn : c # d => sock'[c] = sock[c]
          BY <1>0, <4>1, <5>0 DEF TypeOK
        <5>3. ASSUME NEW c \in Conn, c # d PROVE Same(c)
          <6>1. UNCHANGED <<Owed(c), Got(c)>>
            BY <5>1
          <6>2. UNCHANGED Shut(c)
            BY <5>2, <5>3 DEF Shut
          <6> QED
            BY <6>1, <6>2 DEF Same
        <5>4. Settled(d)
          <6>1. Shut(d)'
            BY <5>2 DEF Shut
          <6>2. Owed(d)' \subseteq Owed(d) \ {} /\ Got(d)' = Got(d) \cup {}
            BY <5>1
          <6>3. {} \in SUBSET Owed(d) /\ \A s \in {} : \A t \in Owed(d) \ {} : s.n < t.n
            OBVIOUS
          <6> QED
            BY <6>1, <6>2, <6>3 DEF Settled
        <5> QED
          BY <1>3, <3>1, <4>1, <5>3, <5>4 DEF Idle
      <4> QED
        BY <4>2, <4>3
    <3>5. CASE ~Refuse(l)
      <4>1. \A c \in Conn : sock'[c] # sock[c] => sock[c] = "accepted" /\ sock'[c] = "open"
        BY <1>0, <2>6, <3>5 DEF TypeOK, Admit, Setup, Accepted, Register, connVars
      <4> QED
        BY <3>3, <4>1 DEF Shut
    <3> QED
      BY <3>4, <3>5
  <2> QED
    BY <1>11, <2>1, <2>2, <2>3, <2>4, <2>5, <2>6 DEF RunTask
<1>12. ASSUME NEW l \in Loop, Finish(l) PROVE Goal
  <2>1. CASE EndChange(0) /\ UNCHANGED <<connVars, loopVars, trap, handlerVars, stopPc>>
    BY <1>0, <2>1, EndChangeStep DEF SessionInv
  <2>2. CASE ReadComplete(l)
    BY <1>2, <2>2 DEF ReadComplete, connVars, tableVars
  <2> QED
    BY <1>0, <1>12, <2>1, <2>2 DEF Finish
<1>13. CASE RaceCrash /\ UNCHANGED <<connVars, loopVars, tableVars, handlerVars, stopPc>>
  BY <1>0, <1>13, CrashStep DEF RaceCrash, connVars, loopVars, tableVars
<1>14. CASE UNCHANGED vars
  BY <1>2, <1>14 DEF vars, connVars, loopVars, tableVars
<1> QED
  BY <1>6, <1>7, <1>8, <1>9, <1>10, <1>11, <1>12, <1>13, <1>14, NeverStops DEF Next

-----------------------------------------------------------------------------
(* The theorems.                                                           *)

\* On one event loop, a text the server sends a client answers a frame of that
\* client, whichever clients came and went at its address.
THEOREM EchoesGoHome ==
    ASSUME NLoops = 1
    PROVE  Spec => []EchoGoesHome
<1>1. TypeOK /\ HomeInv => EchoGoesHome
  <2> SUFFICES ASSUME TypeOK, HomeInv, NEW c \in Conn, NEW i \in DOMAIN wire[c],
                      wire[c][i].kind = "text"
               PROVE  wire[c][i].from = c
    BY DEF EchoGoesHome
  <2>1. i \in 1 .. Len(Line(c)) /\ Line(c)[i] = wire[c][i]
    BY Sent
  <2> QED
    BY <2>1 DEF HomeInv
<1>2. IInv /\ SessionInv => EchoGoesHome
  BY <1>1 DEF IInv, SessionInv
<1> QED
  BY <1>2, Invariance, SessionInvariance, PTL

\* On one event loop, as long as stop() has not been called, isChannelOn and
\* sendServer find every healthy client under its address.
THEOREM HealthyReached ==
    ASSUME NLoops = 1
    PROVE  Spec => []HealthyReachable
<1>1. IInv /\ SessionInv => HealthyReachable
  <2> SUFFICES ASSUME IInv, SessionInv, stopPc = "running", NEW c \in Conn, Healthy(c)
               PROVE  connectedChannels[addr[c]] = c
    BY DEF HealthyReachable
  <2>1. 0 \in Thread /\ access[0] = None
    BY OneLoop DEF Healthy
  <2>2. Known(c)
    BY DEF Healthy, Known, Leaving
  <2> QED
    BY <2>1, <2>2 DEF SessionInv, ReachInv
<1> QED
  BY <1>1, Invariance, SessionInvariance, PTL

\* On one event loop, where stop() is not called, no peer vanishes and no decoder
\* refuses a frame, the dictionary leads to open connections only: the entry of a
\* client goes before its channel is closed.
THEOREM EntriesStayOpen ==
    ASSUME NLoops = 1, ~MayStop, ~MayVanish, "invalid" \notin Frames
    PROVE  Spec => []EntriesAreOpen
<1>1. Init => EntriesInv
  BY OneLoop DEF Init, EntriesInv, EmptyTable
<1>2. IInv /\ WireInv /\ StopInv /\ SessionInv /\ EntriesInv /\ [Next]_vars => EntriesInv'
  BY EntriesKept
<1>3. IInv /\ EntriesInv => EntriesAreOpen
  <2> SUFFICES ASSUME IInv, EntriesInv, NEW a \in Addr, connectedChannels[a] # None
               PROVE  LET c == connectedChannels[a]
                      IN  IsActive(c) \/ access[loopOf[c]] # None
    BY DEF EntriesAreOpen
  <2>1. connectedChannels[a] \in Conn
    BY DEF IInv, TypeOK
  <2>2. loopOf[connectedChannels[a]] = 0
    BY <2>1, OneLoop DEF IInv
  <2> QED
    BY <2>2 DEF EntriesInv, Going, Staying
<1> QED
  BY <1>1, <1>2, <1>3, Invariance, WireInvariance, StopInvariance, SessionInvariance, PTL
  DEF Spec

\* On one event loop, where stop() is not called and no peer sends a reserved
\* opcode, the server implements Sessions: each session is announced once and
\* first, and every text the application hears is sent back to its session, once
\* and in its turn, unless that session closes or has left.
THEOREM ImplementsService ==
    ASSUME NLoops = 1, ~MayStop, "reserved" \notin Frames
    PROVE  Spec => ImplementsSessions
<1>1. Init => Service!Init
  <2> SUFFICES ASSUME Init PROVE Service!Init
    OBVIOUS
  <2>1. \A c \in Conn : out[c] = << >> /\ wire[c] = << >> /\ loopOf[c] = 0
    BY DEF Init
  <2>2. tasks[0] = << >>
    BY OneLoop DEF Init
  <2>3. \A c \in Conn : QueuedFor(c, tasks[loopOf[c]]) = {}
    BY <2>1, <2>2 DEF QueuedFor
  <2>4. \A c \in Conn : TextsOf(out[c]) = {} /\ TextsOf(wire[c]) = {}
    BY <2>1, NoTexts
  <2>5. [c \in Conn |-> TextsOf(out[c]) \cup QueuedFor(c, tasks[loopOf[c]])]
            = [c \in Conn |-> {}]
    BY <2>3, <2>4
  <2>6. [c \in Conn |-> TextsOf(wire[c])] = [c \in Conn |-> {}]
    BY <2>4
  <2>7. [c \in Conn |-> Shut(c)] = [c \in Conn |-> FALSE]
    BY DEF Init, Shut
  <2> QED
    BY <2>5, <2>6, <2>7 DEF Init, Service!Init
<1>2. Init => AnswerInv /\ stopPc = "running"
  BY DEF Init, AnswerInv
<1>3. IInv /\ WireInv /\ AnswerInv /\ [Next]_vars => AnswerInv'
  BY AnswerKept
<1>4. stopPc = "running" /\ [Next]_vars => (stopPc = "running")'
  BY NeverStops
<1>5. /\ IInv /\ IInv' /\ WireInv /\ StopInv /\ SessionInv /\ AnswerInv
      /\ stopPc = "running" /\ [Next]_vars
      => [Service!Next]_(Service!sessionVars)
  BY ServiceStep
<1> QED
  BY <1>1, <1>2, <1>3, <1>4, <1>5, Invariance, WireInvariance, StopInvariance,
     SessionInvariance, PTL
  DEF Spec, ImplementsSessions, Service!Spec

=============================================================================
