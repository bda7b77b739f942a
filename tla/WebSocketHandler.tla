-------------------------- MODULE WebSocketHandler --------------------------
(***************************************************************************)
(* The WebSocket half of a connection: the frames a peer sends, in batches *)
(* of one socket read, and the texts the application sends back.           *)
(*                                                                         *)
(* One WebSocketHandler object serves every connection, so awaitingClose   *)
(* is one flag for the whole server.                                       *)
(*                                                                         *)
(* "text" stands for a text or a binary message (their paths differ in the *)
(* payload only); continuation and pong frames are ignored by the code and *)
(* not enumerated.                                                         *)
(***************************************************************************)
EXTENDS ConnectedChannels

CONSTANT Frames    \* kinds of frames peers send

ASSUME FramesAssumption ==
    Frames \subseteq {"text", "ping", "close", "reserved", "invalid"}

VARIABLES
    awaitingClose,   \* WebSocketHandler.awaitingClose
    frames           \* [Conn -> number of frames read from it]

\* The next frame of c is read: the first of a batch needs an open socket,
\* the rest of a batch is delivered even if a handler has closed it.
ReadsFrame(c, kind) ==
    LET l == loopOf[c] IN
    /\ kind \in Frames
    /\ trap = "none"
    /\ stage[c] = "websocket"
    /\ frames[c] < MaxFrames
    /\ loopState[l] # "closed"
    /\ access[l] = None
    /\ reading[l] = c \/ (reading[l] = None /\ IsActive(c))
    /\ frames' = [frames EXCEPT ![c] = @ + 1]
    /\ reading' = [reading EXCEPT ![l] = c]

ThisFrame(c) == frames[c] + 1

\* channelReceive, then the application's answer, on the same thread: the
\* subscriber of receiveSubject calls serverSend with the same session id and
\* content, which looks the id up and hands the write to that channel's loop.
ReadText(c) ==
    /\ ReadsFrame(c, "text")
    /\ notes' = [notes EXCEPT ![c] = Append(@, Note("text", ThisFrame(c)))]
    /\ \E d \in Lookup(loopOf[c], addr[c]) :
          tasks' = IF d = None THEN tasks
                   ELSE Execute(loopOf[d], SendTask(d, c, ThisFrame(c)))
    /\ UNCHANGED <<connVars, loopState, listening, nextLoop, trap>>
    /\ UNCHANGED <<connectedChannels, access, awaitingClose>>

\* pong: written now, flushed when the batch ends.
ReadPing(c) ==
    /\ ReadsFrame(c, "ping")
    /\ out' = Write(c, Msg("pong", c, ThisFrame(c)))
    /\ UNCHANGED <<sock, stage, addr, loopOf, wire, tasks, loopState, listening, nextLoop, trap>>
    /\ UNCHANGED <<tableVars, awaitingClose>>

\* Mutant: the peer's close frame is not answered.
ReadCloseUnanswered(c) ==
    /\ ReadsFrame(c, "close")
    /\ Close(c, "closed")
    /\ BeginChange(loopOf[c], c, "disconnect")
    /\ UNCHANGED <<stage, addr, loopOf, wire, loopState, listening, nextLoop, trap>>
    /\ UNCHANGED <<connectedChannels, notes, awaitingClose>>

\* Mutant: the entry of a connection that is closing stays.
ReadCloseKeepingEntry(c) ==
    /\ ReadsFrame(c, "close")
    /\ IF awaitingClose
       THEN Close(c, "closed")
       ELSE /\ out' = Write(c, Msg("echoClose", c, ThisFrame(c)))
            /\ UNCHANGED <<sock, tasks>>
    /\ UNCHANGED <<stage, addr, loopOf, wire, loopState, listening, nextLoop, trap>>
    /\ UNCHANGED <<tableVars, awaitingClose>>

\* receivedClose, then channelClose: the close frame is answered, and the
\* channel closed when the answer has been written, unless the handler has
\* sent a close frame of its own.
ReadClose(c) ==
    /\ ReadsFrame(c, "close")
    /\ IF awaitingClose
       THEN Close(c, "closed")
       ELSE /\ out' = Write(c, Msg("echoClose", c, ThisFrame(c)))
            /\ UNCHANGED <<sock, tasks>>
    /\ BeginChange(loopOf[c], c, "disconnect")
    /\ UNCHANGED <<stage, addr, loopOf, wire, loopState, listening, nextLoop, trap>>
    /\ UNCHANGED <<connectedChannels, notes, awaitingClose>>

\* A reserved opcode: closeOnError, then channelErrorClose.
ReadReserved(c) ==
    /\ ReadsFrame(c, "reserved")
    /\ out' = Write(c, Msg("errClose", c, ThisFrame(c)))
    /\ awaitingClose' = TRUE
    /\ BeginChange(loopOf[c], c, "close")
    /\ UNCHANGED <<sock, stage, addr, loopOf, wire, tasks, loopState, listening, nextLoop, trap>>
    /\ UNCHANGED <<connectedChannels, notes>>

\* A frame the decoder refuses: WebSocketProtocolErrorHandler writes a close
\* frame and closes the channel when that is done (at once, if it cannot be
\* written).  The decoder delivers nothing more; WebSocketHandler is not told.
ReadInvalid(c) ==
    /\ ReadsFrame(c, "invalid")
    /\ stage' = [stage EXCEPT ![c] = "failed"]
    /\ IF sock[c] = "half"
       THEN Close(c, "closed")
       ELSE /\ out' = Write(c, Msg("protoClose", c, ThisFrame(c)))
            /\ UNCHANGED <<sock, tasks>>
    /\ UNCHANGED <<addr, loopOf, wire, loopState, listening, nextLoop, trap>>
    /\ UNCHANGED <<tableVars, awaitingClose>>

\* channelReadComplete: the batch ends and what it wrote may leave.
ReadComplete(l) ==
    /\ trap = "none"
    /\ access[l] = None
    /\ reading[l] # None
    /\ reading' = [reading EXCEPT ![l] = None]
    /\ UNCHANGED <<connVars, tasks, loopState, listening, nextLoop, trap>>
    /\ UNCHANGED <<tableVars, awaitingClose, frames>>

-----------------------------------------------------------------------------
\* Mutant: the text is written after the server's own close frame.
WriteTextAnyway(t) ==
    out' = IF IsActive(t.conn) THEN Write(t.conn, Msg("text", t.from, t.n)) ELSE out

\* The closure of sendServer(context:text:): dropped on an inactive channel
\* and after a close frame.
WriteText(t) ==
    out' = IF IsActive(t.conn) /\ ~awaitingClose
           THEN Write(t.conn, Msg("text", t.from, t.n)) ELSE out

SendText(l) ==
    /\ Idle(l)
    /\ tasks[l] # << >>
    /\ Head(tasks[l]).kind = "send"
    /\ WriteText(Head(tasks[l]))
    /\ tasks' = [tasks EXCEPT ![l] = Tail(@)]
    /\ UNCHANGED <<sock, stage, addr, loopOf, wire, reading, loopState, listening, nextLoop, trap>>
    /\ UNCHANGED <<tableVars, awaitingClose, frames>>

=============================================================================
