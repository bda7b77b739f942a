---------------------------- MODULE NIOHttpServer ----------------------------
(***************************************************************************)
(* A running NIOHttpServer: its two handlers, its dictionary of connected  *)
(* channels, the sockets they write to, and stop().  The initial state is  *)
(* the one start(port:) leaves behind when it returns no error.            *)
(***************************************************************************)
EXTENDS HTTPHandler, WebSocketHandler

CONSTANTS
    MayStop,    \* whether the application calls stop() in this run
    MayVanish   \* whether peers go away without a close frame in this run

VARIABLE stopPc     \* how far stop() has come on serverQueue

handlerVars == <<responseBody, awaitingClose, frames>>
vars == <<connVars, loopVars, trap, tableVars, handlerVars, stopPc>>

\* initServer and start: the bind takes the first event loop, so the first
\* accepted connection gets the second.
Init ==
    /\ sock = [c \in Conn |-> "none"]
    /\ stage = [c \in Conn |-> "none"]
    /\ addr = [c \in Conn |-> None]
    /\ loopOf = [c \in Conn |-> 0]
    /\ out = [c \in Conn |-> << >>]
    /\ wire = [c \in Conn |-> << >>]
    /\ tasks = [l \in Loop |-> << >>]
    /\ reading = [l \in Loop |-> None]
    /\ loopState = [l \in Loop |-> "open"]
    /\ listening = TRUE
    /\ nextLoop = 1 % NLoops
    /\ trap = "none"
    /\ connectedChannels = EmptyTable
    /\ access = [t \in Thread |-> None]
    /\ notes = [c \in Conn |-> << >>]
    /\ responseBody = FALSE
    /\ awaitingClose = FALSE
    /\ frames = [c \in Conn |-> 0]
    /\ stopPc = "running"

-----------------------------------------------------------------------------
(* The socket.                                                             *)

\* Messages whose completion closes the channel, and the rest.
ClosingKind == {"page", "405", "echoClose", "protoClose"}

\* Mutant: completions of close frames are lost.
WrittenForgetful(c, sent, rest) ==
    /\ out' = [out EXCEPT ![c] = rest]
    /\ UNCHANGED <<sock, tasks>>

\* What the completions of written messages do, in the order they run: a
\* response or an answered close closes the channel; the close frame of
\* closeOnError closes its output side, which fails the writes behind it and
\* which an NIOSSLHandler refuses to do.
Written(c, sent, rest) ==
    IF Kinds(sent) \cap ClosingKind # {}
    THEN Close(c, "closed")
    ELSE IF "errClose" \in Kinds(sent) /\ ~TLS
    THEN IF "protoClose" \in Kinds(rest)
         THEN Close(c, "closed")
         ELSE /\ sock' = [sock EXCEPT ![c] = "half"]
              /\ out' = [out EXCEPT ![c] = << >>]
              /\ UNCHANGED tasks
    ELSE /\ out' = [out EXCEPT ![c] = rest]
         /\ UNCHANGED <<sock, tasks>>

\* The socket of c has room for the first i pending messages.
Writable(c) ==
    /\ Idle(loopOf[c])
    /\ IsActive(c)
    /\ \E i \in 1 .. Len(out[c]) :
          LET sent == SubSeq(out[c], 1, i)
              rest == SubSeq(out[c], i + 1, Len(out[c]))
          IN  /\ wire' = [wire EXCEPT ![c] = @ \o sent]
              /\ Written(c, sent, rest)
    /\ UNCHANGED <<stage, addr, loopOf, reading, loopState, listening, nextLoop, trap>>
    /\ UNCHANGED <<tableVars, handlerVars, stopPc>>

\* The peer goes away.  No handler of the server listens for
\* channelInactive: only the channel itself reacts.
Lost(c) ==
    /\ MayVanish
    /\ IsActive(c)
    /\ Idle(loopOf[c])
    /\ Close(c, "lost")
    /\ UNCHANGED <<stage, addr, loopOf, wire, reading, loopState, listening, nextLoop, trap>>
    /\ UNCHANGED <<tableVars, handlerVars, stopPc>>

-----------------------------------------------------------------------------
(* stop(), on serverQueue: clearChannelAll; channel?.close();              *)
(* group.syncShutdownGracefully().                                         *)

\* clearChannelAll, when there is something to clear.
StopClear ==
    /\ trap = "none"
    /\ MayStop
    /\ stopPc = "running"
    /\ IF connectedChannels = EmptyTable
       THEN stopPc' = "cleared" /\ UNCHANGED access
       ELSE stopPc' = "clearing" /\ BeginChange(serverQueue, None, "close")
    /\ UNCHANGED <<connVars, loopVars, trap, connectedChannels, notes, handlerVars>>

StopCleared ==
    /\ trap = "none"
    /\ stopPc = "clearing"
    /\ Commit(serverQueue)
    /\ stopPc' = "cleared"
    /\ UNCHANGED <<connVars, loopVars, trap, notes, handlerVars>>

\* channel?.close(), called off the event loop: the loop will do it.
StopListening ==
    /\ trap = "none"
    /\ stopPc = "cleared"
    /\ stopPc' = "unlistened"
    /\ tasks' = Execute(0, LoopTask("closeListener", None))
    /\ UNCHANGED <<connVars, reading, loopState, listening, nextLoop, trap, tableVars, handlerVars>>

\* Mutant: only the server channel's loop is asked to close.
StopFirstLoop ==
    /\ trap = "none"
    /\ stopPc = "unlistened"
    /\ stopPc' = "waiting"
    /\ tasks' = Execute(0, LoopTask("closeLoop", None))
    /\ UNCHANGED <<connVars, reading, loopState, listening, nextLoop, trap, tableVars, handlerVars>>

\* syncShutdownGracefully asks every loop to close, then waits for all.
StopLoops ==
    /\ trap = "none"
    /\ stopPc = "unlistened"
    /\ stopPc' = "waiting"
    /\ tasks' = [l \in Loop |-> Append(tasks[l], LoopTask("closeLoop", None))]
    /\ UNCHANGED <<connVars, reading, loopState, listening, nextLoop, trap, tableVars, handlerVars>>

\* Mutant: stop() does not wait for the loops, as shutdownGracefully would not.
StopReturnsAtOnce ==
    /\ trap = "none"
    /\ stopPc = "waiting"
    /\ stopPc' = "stopped"
    /\ UNCHANGED <<connVars, loopVars, trap, tableVars, handlerVars>>

StopReturns ==
    /\ trap = "none"
    /\ stopPc = "waiting"
    /\ \A l \in Loop : loopState[l] = "closed"
    /\ stopPc' = "stopped"
    /\ UNCHANGED <<connVars, loopVars, trap, tableVars, handlerVars>>

CloseListener(l) ==
    /\ Idle(l)
    /\ HeadIs(l, "closeListener")
    /\ TaskDone(l)
    /\ listening' = FALSE
    /\ UNCHANGED <<connVars, reading, loopState, nextLoop, trap, tableVars, handlerVars, stopPc>>

\* closeGently: every channel of the loop closes, the server channel too; the
\* handlers of those that were never upgraded go in the next tick.
CloseLoop(l) ==
    LET mine == {c \in Conn : IsActive(c) /\ loopOf[c] = l} IN
    /\ Idle(l)
    /\ HeadIs(l, "closeLoop")
    /\ sock' = [c \in Conn |-> IF c \in mine THEN "shutdown" ELSE sock[c]]
    /\ out' = [c \in Conn |-> IF c \in mine THEN << >> ELSE out[c]]
    /\ tasks' = [tasks EXCEPT ![l] =
                    IF \E c \in mine : HoldsHttpHandler(c)
                    THEN Append(Tail(@), LoopTask("removed", None)) ELSE Tail(@)]
    /\ loopState' = [loopState EXCEPT ![l] = "closing"]
    /\ listening' = (listening /\ l # 0)
    /\ UNCHANGED <<stage, addr, loopOf, wire, reading, nextLoop, trap>>
    /\ UNCHANGED <<tableVars, handlerVars, stopPc>>

\* The loop's thread ends once nothing is left to run.
LoopExit(l) ==
    /\ Idle(l)
    /\ loopState[l] = "closing"
    /\ tasks[l] = << >>
    /\ loopState' = [loopState EXCEPT ![l] = "closed"]
    /\ UNCHANGED <<connVars, tasks, reading, listening, nextLoop, trap, tableVars, handlerVars, stopPc>>

-----------------------------------------------------------------------------
Frame(c) ==
    \/ ReadText(c) \/ ReadPing(c) \/ ReadClose(c) \/ ReadReserved(c) \/ ReadInvalid(c)

Request(c) == ReadUpgrade(c) \/ ReadGet(c) \/ ReadOther(c)

RunTask(l) ==
    \/ /\ Admit(l) \/ FinishUpgrade(l) \/ HandlerRemoved(l)
       /\ UNCHANGED <<awaitingClose, frames, stopPc>>
    \/ SendText(l) /\ UNCHANGED <<responseBody, stopPc>>
    \/ CloseListener(l) \/ CloseLoop(l) \/ LoopExit(l)

Finish(l) ==
    \/ EndChange(l) /\ UNCHANGED <<connVars, loopVars, trap, handlerVars, stopPc>>
    \/ ReadComplete(l) /\ UNCHANGED <<responseBody, stopPc>>

StopStep == StopClear \/ StopCleared \/ StopListening \/ StopLoops \/ StopReturns

Next ==
    \/ \E c \in Conn :
          \/ (\E a \in Addr : Accept(c, a)) /\ UNCHANGED <<awaitingClose, frames, stopPc>>
          \/ Request(c) /\ UNCHANGED <<awaitingClose, frames, stopPc>>
          \/ Frame(c) /\ UNCHANGED <<responseBody, stopPc>>
          \/ Writable(c)
          \/ Lost(c)
    \/ \E l \in Loop : RunTask(l) \/ Finish(l)
    \/ StopStep
    \/ RaceCrash /\ UNCHANGED <<connVars, loopVars, tableVars, handlerVars, stopPc>>

Spec == Init /\ [][Next]_vars

\* Event loops keep running, and stop() keeps going once called.
FairSpec ==
    /\ Spec
    /\ \A l \in Loop : WF_vars(RunTask(l)) /\ WF_vars(Finish(l))
    /\ WF_vars(StopCleared \/ StopListening \/ StopLoops \/ StopReturns)

\* Furthermore peers read what is sent to them.
FairPeersSpec == FairSpec /\ \A c \in Conn : WF_vars(Writable(c))

-----------------------------------------------------------------------------
(* Properties.                                                             *)

\* Every variable has its type.
TypeOK ==
    /\ sock \in [Conn -> {"none", "accepted", "open", "half", "lost", "closed", "shutdown"}]
    /\ stage \in [Conn -> {"none", "bare", "http", "upgrading", "answered", "websocket", "failed"}]
    /\ addr \in [Conn -> Addr \cup {None}]
    /\ loopOf \in [Conn -> Loop]
    /\ out \in [Conn -> Seq(Message)]
    /\ wire \in [Conn -> Seq(Message)]
    /\ tasks \in [Loop -> Seq(Task)]
    /\ reading \in [Loop -> Conn \cup {None}]
    /\ loopState \in [Loop -> {"open", "closing", "closed"}]
    /\ listening \in BOOLEAN
    /\ nextLoop \in Loop
    /\ trap \in {"none", "nilBody", "race"}
    /\ connectedChannels \in [Addr -> Conn \cup {None}]
    /\ access \in [Thread -> Change \cup {None}]
    /\ notes \in [Conn -> Seq(Notification)]
    /\ responseBody \in BOOLEAN
    /\ awaitingClose \in BOOLEAN
    /\ frames \in [Conn -> Nat]
    /\ stopPc \in {"running", "clearing", "cleared", "unlistened", "waiting", "stopped"}

\* An entry of connectedChannels holds, under a remote address, a connection
\* that has this address and has been upgraded: sendServer(channelId:) never
\* reaches the pipeline of an HTTP connection, nor another client's, whatever
\* the threads lose of each other's changes.
KeyedByAddress ==
    \A a \in Addr :
        connectedChannels[a] # None =>
            /\ addr[connectedChannels[a]] = a
            /\ stage[connectedChannels[a]] \in {"websocket", "failed"}

\* The application hears of a connection first by .connect, and by it once:
\* no text, disconnect or close precedes it, on whatever thread it is sent.
ConnectFirst ==
    \A c \in Conn : \A i \in DOMAIN notes[c] :
        notes[c][i].kind = "connect" <=> i = 1

\* What a peer receives is one HTTP response and nothing else, or 101 and then
\* WebSocket frames only: no text overtakes the upgrade.
OneProtocolAtATime ==
    \A c \in Conn : \A i \in DOMAIN wire[c] :
        IF i = 1 THEN wire[c][i].kind \in HttpKind
        ELSE wire[c][1].kind = "101" /\ wire[c][i].kind \in FrameKind

\* A text the server sends a client answers a frame of that client.
EchoGoesHome ==
    \A c \in Conn : \A i \in DOMAIN wire[c] :
        wire[c][i].kind = "text" => wire[c][i].from = c

\* However many threads look sessions up and change them at once, a text the
\* server sends answers a frame that came from the address it is sent to.
EchoKeepsAddress ==
    \A c \in Conn : \A i \in DOMAIN wire[c] :
        wire[c][i].kind = "text" => addr[wire[c][i].from] = addr[c]

\* A client's texts come back in the order it sent them, each once at most,
\* though every one of them takes a turn in the queue of a loop.
EchoInOrder ==
    \A c \in Conn : \A i, j \in DOMAIN wire[c] :
        (/\ i < j
         /\ wire[c][i].kind = "text" /\ wire[c][j].kind = "text"
         /\ wire[c][i].from = wire[c][j].from)
        => wire[c][i].n < wire[c][j].n

\* The client has a WebSocket, the application knows of it, and neither a
\* close frame nor an error has been seen on it.
Healthy(c) ==
    /\ sock[c] = "open"
    /\ stage[c] = "websocket"
    /\ notes[c] # << >>
    /\ \A t \in Thread : access[t] = None
    /\ Kinds(notes[c]) \cap {"disconnect", "close"} = {}

\* isChannelOn and sendServer find every healthy client under its address,
\* whichever clients came and went at that address before.
HealthyReachable ==
    stopPc = "running" =>
        \A c \in Conn : Healthy(c) => connectedChannels[addr[c]] = c

\* An entry of connectedChannels is a connection that is still open, or
\* whose entry is being removed.
EntriesAreOpen ==
    \A a \in Addr :
        connectedChannels[a] # None =>
            LET c == connectedChannels[a] IN IsActive(c) \/ access[loopOf[c]] # None

\* A WebSocket the server closes has had its close frame answered.
CloseIsAnswered ==
    \A c \in Conn :
        sock[c] = "closed" /\ stage[c] = "websocket" => "echoClose" \in Kinds(wire[c])

\* No text is sent, or waits to be sent, behind the close frame of
\* closeOnError: sendServer's guard holds back the texts already queued.
NoTextAfterErrorClose ==
    \A c \in Conn :
        LET s == wire[c] \o out[c] IN
        \A i, j \in DOMAIN s : i < j /\ s[i].kind = "errClose" => s[j].kind # "text"

\* A GET is answered, whoever else is connected.
GetIsServed == trap # "nilBody"

\* When stop() returns, no connection is active, nobody can connect, and
\* nothing is left to run.  A connection can be left open only if it was being
\* handed from loop to loop when one of them ended: it is of another loop than
\* the server channel's, the application never heard of it, and its peer was
\* sent nothing.
StoppedQuiet ==
    stopPc = "stopped" =>
        /\ ~listening
        /\ \A c \in Conn :
              /\ ~IsActive(c)
              /\ IsOpen(c) => loopOf[c] # 0 /\ notes[c] = << >> /\ wire[c] = << >>
        /\ \A l \in Loop : tasks[l] = << >> /\ reading[l] = None /\ access[l] = None

\* Once stop() has returned nothing happens any more: no handler runs, nobody
\* is answered or accepted, and the application hears of no connection.
NothingRunsAfterStop == [][stopPc # "stopped"]_vars

-----------------------------------------------------------------------------
(* Liveness.                                                               *)

Dead == trap # "none"

\* An upgrade that has begun ends, with a WebSocket or without a connection.
UpgradeEnds ==
    \A c \in Conn :
        stage[c] = "upgrading" ~> stage[c] # "upgrading" \/ ~IsActive(c) \/ Dead

\* A connection that has been answered with the page or a 405, or whose close
\* frame has been read, closes, though the last of the writes it waits for may
\* find the socket full and other connections share the handler that waits.
AnsweredEnds ==
    \A c \in Conn :
        stage[c] = "answered" \/ "disconnect" \in Kinds(notes[c]) ~> ~IsActive(c) \/ Dead

\* A connection refused by closeOnError loses its write side at least.
ErrorCloseEnds ==
    \A c \in Conn :
        "close" \in Kinds(notes[c]) ~> sock[c] # "open" \/ Dead

\* stop() returns: syncShutdownGracefully waits for every loop, and every
\* loop ends, whatever its connections were doing.
StopEnds == stopPc # "running" ~> stopPc = "stopped" \/ Dead

=============================================================================
