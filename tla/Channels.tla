------------------------------ MODULE Channels ------------------------------
(***************************************************************************)
(* The part of SwiftNIO the server stands on: TCP connections, the event   *)
(* loops that serve them, what a connection has written and what its peer  *)
(* has received.  The handlers of NIOHttpServer.swift are modelled above   *)
(* it, in HTTPHandler and WebSocketHandler.                                *)
(*                                                                         *)
(* A connection is served by one event loop for life, and an event loop    *)
(* does one thing at a time: a task of its FIFO queue, or a batch of reads *)
(* of one connection, or the writes of one connection whose socket has     *)
(* room.                                                                   *)
(***************************************************************************)
EXTENDS Naturals, Sequences, FiniteSets

CONSTANTS
    Conn,       \* TCP connections a run may see; each is accepted at most once
    Addr,       \* remote addresses, reused by later connections
    NLoops,     \* threads of the MultiThreadedEventLoopGroup
    TLS,        \* whether an NIOSSLServerHandler heads every child pipeline
    MaxFrames,  \* bound: WebSocket frames one peer sends
    None        \* no connection, no address, no access

ASSUME ChannelsAssumption ==
    /\ NLoops \in Nat \ {0}
    /\ TLS \in BOOLEAN
    /\ MaxFrames \in Nat
    /\ None \notin Conn \cup Addr

Loop == 0 .. NLoops - 1

VARIABLES
    sock,       \* [Conn -> socket state]; "accepted": not registered yet,
                \* "lost": the peer went away, "closed": a handler closed
                \* it, "shutdown": its loop did
    stage,      \* [Conn -> which handlers its pipeline holds]; "bare": none yet
    addr,       \* [Conn -> remote address, once accepted]
    loopOf,     \* [Conn -> the event loop that serves it, once accepted]
    out,        \* [Conn -> messages written and not yet taken by the socket]
    wire,       \* [Conn -> messages the socket has taken, oldest first]
    tasks,      \* [Loop -> FIFO of tasks handed to execute]
    reading,    \* [Loop -> the connection whose read batch is in progress]
    loopState,  \* [Loop -> "open", "closing" or "closed"]
    listening,  \* the server channel accepts connections
    nextLoop,   \* the loop MultiThreadedEventLoopGroup.next() returns next
    trap        \* why the process died: "none", "nilBody" or "race"

connVars == <<sock, stage, addr, loopOf, out, wire>>
loopVars == <<tasks, reading, loopState, listening, nextLoop>>

-----------------------------------------------------------------------------
(* Messages and tasks name the frame they answer: the n-th of connection   *)
(* from (n = 0 for HTTP responses).                                        *)

HttpKind  == {"page", "405", "101"}
FrameKind == {"text", "pong", "echoClose", "errClose", "protoClose"}

Message == [kind : HttpKind \cup FrameKind, from : Conn, n : Nat]

Msg(k, c, i) == [kind |-> k, from |-> c, n |-> i]

TaskKind ==
    {"setup", "accepted", "register", "refuse",
     "upgrade", "removed", "closeListener", "closeLoop"}

Task == [kind : TaskKind, conn : Conn \cup {None}]
        \cup [kind : {"send"}, conn : Conn, from : Conn, n : Nat]

LoopTask(k, c) == [kind |-> k, conn |-> c]
SendTask(d, c, i) == [kind |-> "send", conn |-> d, from |-> c, n |-> i]

Kinds(s) == {s[i].kind : i \in DOMAIN s}

-----------------------------------------------------------------------------
(* What a handler may ask of a channel and of an event loop.               *)

\* channel.isActive: closing the output side leaves a channel active.
IsActive(c) == sock[c] \in {"open", "half"}

\* Its file descriptor is open: a connection has one before it is registered.
IsOpen(c) == sock[c] = "accepted" \/ IsActive(c)

\* Mutant: next() runs past the last loop.
FollowingLoopUnwrapped(l) == l + 1

\* MultiThreadedEventLoopGroup.next() goes round its loops.
FollowingLoop(l) == (l + 1) % NLoops

\* Mutant: the newest task goes first.
ExecuteFirst(l, t) == [tasks EXCEPT ![l] = <<t>> \o @]

\* Mutant: a task is taken only by a loop with nothing else to do.
ExecuteIfFree(l, t) ==
    IF tasks[l] # << >> THEN tasks ELSE [tasks EXCEPT ![l] = Append(@, t)]

\* eventLoop.execute: a loop that has shut down drops the task.
Execute(l, t) ==
    IF loopState[l] = "closed" THEN tasks ELSE [tasks EXCEPT ![l] = Append(@, t)]

\* context.write: fails, and buffers nothing, once the output side is closed.
Write(c, m) ==
    IF sock[c] = "open" THEN [out EXCEPT ![c] = Append(@, m)] ELSE out

\* The first httpHandler a channel carries is removed one tick after the
\* channel closes, unless the upgrade has removed it before.
HoldsHttpHandler(c) == stage[c] \in {"http", "upgrading", "answered"}

\* close(mode: .all): pending writes fail, the handlers go one tick later.
Close(c, why) ==
    /\ sock' = [sock EXCEPT ![c] = why]
    /\ out' = [out EXCEPT ![c] = << >>]
    /\ tasks' = IF HoldsHttpHandler(c)
                THEN Execute(loopOf[c], LoopTask("removed", c)) ELSE tasks

=============================================================================
