--------------------------- MODULE LocalHttpServer ---------------------------
(***************************************************************************)
(* LocalHttpServer+ServiceNIO.swift: the life of the server.               *)
(*                                                                         *)
(* The user opens and closes the server on the main thread.  Both only     *)
(* queue a block on serverQueue, a serial queue, but openWebSocketServer   *)
(* decides what to queue from isServerActive(), read on the main thread    *)
(* while a block may be running.  A start block creates a NIOHttpServer,   *)
(* publishes it in httpServer and then binds it; a stop block stops the    *)
(* one it finds there.  A start that finds its port in use queues another. *)
(***************************************************************************)
EXTENDS Naturals, Sequences, FiniteSets

CONSTANTS
    MaxRequests,    \* bound: taps of the Open and Close buttons
    MaxPending,     \* bound: unanswered requests at which the user waits
    Settings,       \* what the user sets the SSL switch to
    Others,         \* ports other programs may take
    BridgesErrno,   \* whether "error as? NSError" carries errno in its code;
                    \* NIO's IOError is a plain Swift struct, whose code is 1
    BindMayFail,    \* whether bind may fail for another reason
    ShutdownMayFail \* whether syncShutdownGracefully may throw

ports == <<1024, 2048>>
defaultPort == 1024
Port == {1024, 2048}

ASSUME LocalHttpServerAssumption ==
    /\ MaxRequests \in Nat
    /\ MaxPending \in Nat
    /\ Settings \subseteq BOOLEAN
    /\ Others \subseteq Port
    /\ {BridgesErrno, BindMayFail, ShutdownMayFail} \subseteq BOOLEAN

Request == 1 .. MaxRequests

\* An open request creates at most one server per port it tries.
Server == Request \X Port
Nil == << >>

VARIABLES
    requests,    \* the requests made so far, oldest first: what was asked for,
                 \* and whether the requests before it had been answered
    replies,     \* [Request -> what its completion was called with, in order]
    blocks,      \* serverQueue: the head is the running block, if any runs
    running,     \* where the head is: "idle" (not begun), "binding", "stopping"
    servers,     \* [Server -> [state, port, secure]]
    httpServer,  \* LocalHttpServer.httpServer
    portIndex,   \* LocalHttpServer.portIndex
    foreign      \* ports other programs hold

vars == <<requests, replies, blocks, running, servers, httpServer, portIndex, foreign>>

NoServer == [state |-> "none", port |-> defaultPort, secure |-> FALSE]

Init ==
    /\ requests = << >>
    /\ replies = [r \in Request |-> << >>]
    /\ blocks = << >>
    /\ running = "idle"
    /\ servers = [s \in Server |-> NoServer]
    /\ httpServer = Nil
    /\ portIndex = 0
    /\ foreign \in SUBSET Others

-----------------------------------------------------------------------------
(* The main thread.                                                        *)

StartBlock(r, secure, port) ==
    [kind |-> "start", request |-> r, secure |-> secure, port |-> port]

\* A stop block that reopens the server starts it when it is done.
StopBlock(r, secure, reopen) ==
    [kind |-> IF reopen THEN "restart" ELSE "stop",
     request |-> r, secure |-> secure, port |-> defaultPort]

\* isActive: the bound channel is open.
isServerActive == httpServer # Nil /\ servers[httpServer].state = "listening"

Pending == {r \in 1 .. Len(requests) : replies[r] = << >>}

ThisRequest == Len(requests) + 1

Asks(kind, secure) ==
    /\ Len(requests) < MaxRequests
    /\ Cardinality(Pending) < MaxPending
    /\ requests' = Append(requests,
            [kind |-> kind, secure |-> secure, waited |-> Pending = {}])

\* Mutant: the running server is not stopped before another is started.
openWithoutStopping(secure) ==
    /\ Asks("open", secure)
    /\ blocks' = Append(blocks, StartBlock(ThisRequest, secure, defaultPort))
    /\ UNCHANGED <<replies, running, servers, httpServer, portIndex, foreign>>

openWebSocketServer(secure) ==
    /\ Asks("open", secure)
    /\ blocks' = Append(blocks,
                    IF isServerActive
                    THEN StopBlock(ThisRequest, secure, TRUE)
                    ELSE StartBlock(ThisRequest, secure, defaultPort))
    /\ UNCHANGED <<replies, running, servers, httpServer, portIndex, foreign>>

closeWebSocketServer ==
    /\ Asks("close", FALSE)
    /\ blocks' = Append(blocks, StopBlock(ThisRequest, FALSE, FALSE))
    /\ UNCHANGED <<replies, running, servers, httpServer, portIndex, foreign>>

-----------------------------------------------------------------------------
(* serverQueue.                                                            *)

Block == Head(blocks)
Runs(where, kinds) ==
    /\ blocks # << >>
    /\ running = where
    /\ Block.kind \in kinds

Reply(r, success) == replies' = [replies EXCEPT ![r] = Append(@, success)]

\* The first half of startServer: a new NIOHttpServer, with its threads,
\* becomes httpServer before it is known whether it can listen.
StartCreate ==
    /\ Runs("idle", {"start"})
    /\ httpServer' = <<Block.request, Block.port>>
    /\ servers' = [servers EXCEPT ![httpServer'] =
                     [state |-> "created", port |-> Block.port, secure |-> Block.secure]]
    /\ running' = "binding"
    /\ UNCHANGED <<requests, replies, blocks, portIndex, foreign>>

InUse(p) ==
    \/ p \in foreign
    \/ \E s \in Server : servers[s].state = "listening" /\ servers[s].port = p

Becomes(state) == servers' = [servers EXCEPT ![httpServer].state = state]

BindSucceeds ==
    /\ Runs("binding", {"start"})
    /\ ~InUse(Block.port)
    /\ Becomes("listening")
    /\ Reply(Block.request, TRUE)
    /\ blocks' = Tail(blocks)
    /\ running' = "idle"
    /\ UNCHANGED <<requests, httpServer, portIndex, foreign>>

\* The bind fails, and the error is not taken for EADDRINUSE.
BindFails ==
    /\ Runs("binding", {"start"})
    /\ BindMayFail \/ (InUse(Block.port) /\ ~BridgesErrno)
    /\ Becomes("failed")
    /\ Reply(Block.request, FALSE)
    /\ blocks' = Tail(blocks)
    /\ running' = "idle"
    /\ UNCHANGED <<requests, httpServer, portIndex, foreign>>

\* Mutant: the completion is called before the retry, too.
BindRetriesLoudly ==
    /\ Runs("binding", {"start"})
    /\ InUse(Block.port)
    /\ BridgesErrno
    /\ portIndex + 1 < Len(ports)
    /\ Becomes("failed")
    /\ Reply(Block.request, FALSE)
    /\ portIndex' = portIndex + 1
    /\ blocks' = Append(Tail(blocks),
                    StartBlock(Block.request, FALSE, ports[portIndex' + 1]))
    /\ running' = "idle"
    /\ UNCHANGED <<requests, httpServer, foreign>>

\* EADDRINUSE: the next port is tried in a block of its own, at the end of the
\* queue, without TLS, which the call leaves at its default.
BindRetries ==
    /\ Runs("binding", {"start"})
    /\ InUse(Block.port)
    /\ BridgesErrno
    /\ portIndex + 1 < Len(ports)
    /\ Becomes("failed")
    /\ portIndex' = portIndex + 1
    /\ blocks' = Append(Tail(blocks),
                    StartBlock(Block.request, FALSE, ports[portIndex' + 1]))
    /\ running' = "idle"
    /\ UNCHANGED <<requests, replies, httpServer, foreign>>

\* Mutant: giving up on the last port calls no completion.
BindGivesUpSilently ==
    /\ Runs("binding", {"start"})
    /\ InUse(Block.port)
    /\ BridgesErrno
    /\ portIndex + 1 >= Len(ports)
    /\ Becomes("failed")
    /\ portIndex' = 0
    /\ blocks' = Tail(blocks)
    /\ running' = "idle"
    /\ UNCHANGED <<requests, replies, httpServer, foreign>>

\* Mutant: giving up leaves portIndex past the last port.
BindGivesUpPastEnd ==
    /\ Runs("binding", {"start"})
    /\ InUse(Block.port)
    /\ BridgesErrno
    /\ portIndex + 1 >= Len(ports)
    /\ Becomes("failed")
    /\ portIndex' = portIndex + 1
    /\ Reply(Block.request, FALSE)
    /\ blocks' = Tail(blocks)
    /\ running' = "idle"
    /\ UNCHANGED <<requests, httpServer, foreign>>

\* EADDRINUSE with no port left.
BindGivesUp ==
    /\ Runs("binding", {"start"})
    /\ InUse(Block.port)
    /\ BridgesErrno
    /\ portIndex + 1 >= Len(ports)
    /\ Becomes("failed")
    /\ portIndex' = 0
    /\ Reply(Block.request, FALSE)
    /\ blocks' = Tail(blocks)
    /\ running' = "idle"
    /\ UNCHANGED <<requests, httpServer, foreign>>

\* The first half of stopServer: the listening channel, if there is one, closes.
StopChannel ==
    /\ Runs("idle", {"stop", "restart"})
    /\ IF isServerActive THEN Becomes("closed") ELSE UNCHANGED servers
    /\ running' = "stopping"
    /\ UNCHANGED <<requests, replies, blocks, httpServer, portIndex, foreign>>

\* Mutant: the restart forgets what was asked for.
StopCompletesPlainly(success) ==
    IF Block.kind = "restart"
    THEN /\ blocks' = Append(Tail(blocks),
                         StartBlock(Block.request, FALSE, defaultPort))
         /\ UNCHANGED replies
    ELSE /\ blocks' = Tail(blocks)
         /\ Reply(Block.request, success)

\* What stopServer's completion does with the outcome: openWebSocketServer's
\* ignores it and starts a server, in a block of its own.
StopCompletes(success) ==
    IF Block.kind = "restart"
    THEN /\ blocks' = Append(Tail(blocks),
                         StartBlock(Block.request, Block.secure, defaultPort))
         /\ UNCHANGED replies
    ELSE /\ blocks' = Tail(blocks)
         /\ Reply(Block.request, success)

\* The threads have ended, if there were any; httpServer is forgotten.
StopSucceeds ==
    /\ Runs("stopping", {"stop", "restart"})
    /\ IF httpServer = Nil THEN UNCHANGED servers ELSE Becomes("stopped")
    /\ httpServer' = Nil
    /\ StopCompletes(TRUE)
    /\ running' = "idle"
    /\ UNCHANGED <<requests, portIndex, foreign>>

\* syncShutdownGracefully throws: httpServer stays.
StopFails ==
    /\ ShutdownMayFail
    /\ httpServer # Nil
    /\ Runs("stopping", {"stop", "restart"})
    /\ StopCompletes(FALSE)
    /\ running' = "idle"
    /\ UNCHANGED <<requests, servers, httpServer, portIndex, foreign>>

\* Another program takes or releases a port.
OtherProgram(p) ==
    /\ \A s \in Server : servers[s].state = "listening" => servers[s].port # p
    /\ foreign' = IF p \in foreign THEN foreign \ {p} ELSE foreign \cup {p}
    /\ UNCHANGED <<requests, replies, blocks, running, servers, httpServer, portIndex>>

-----------------------------------------------------------------------------
QueueStep ==
    \/ StartCreate \/ BindSucceeds \/ BindFails \/ BindRetries \/ BindGivesUp
    \/ StopChannel \/ StopSucceeds \/ StopFails

Next ==
    \/ \E secure \in Settings : openWebSocketServer(secure)
    \/ closeWebSocketServer
    \/ QueueStep
    \/ \E p \in Others : OtherProgram(p)

Spec == Init /\ [][Next]_vars

\* Grand Central Dispatch runs the blocks it is given.
FairSpec == Spec /\ WF_vars(QueueStep)

-----------------------------------------------------------------------------
(* Properties.                                                             *)

TypeOK ==
    /\ requests \in Seq([kind : {"open", "close"}, secure : BOOLEAN, waited : BOOLEAN])
    /\ Len(requests) <= MaxRequests
    /\ replies \in [Request -> Seq(BOOLEAN)]
    /\ blocks \in Seq([kind : {"start", "stop", "restart"}, request : Request,
                       secure : BOOLEAN, port : Port])
    /\ running \in {"idle", "binding", "stopping"}
    /\ servers \in [Server -> [state : {"none", "created", "listening", "failed",
                                        "closed", "stopped"},
                               port : Port, secure : BOOLEAN]]
    /\ httpServer \in Server \cup {Nil}
    /\ portIndex \in 0 .. Len(ports) - 1
    /\ foreign \in SUBSET Port

\* A request that has been made has one block in the queue or one answer: none
\* is dropped and none is served twice.
ServedOnce ==
    \A r \in 1 .. Len(requests) :
        Cardinality({i \in DOMAIN blocks : blocks[i].request = r}) + Len(replies[r]) = 1

\* Every request was made when those before it had been answered.
Patiently == \A r \in 1 .. Len(requests) : requests[r].waited

\* If the user waits for answers, whatever listens is the server
\* LocalHttpServer can still stop.
ListenerIsCurrent ==
    Patiently => \A s \in Server : servers[s].state = "listening" => httpServer = s

\* If the user waits for answers, then after a close that succeeded, and with
\* nothing queued, nothing listens.
CloseCloses ==
    LET n == Len(requests) IN
    Patiently /\ n > 0 /\ blocks = << >> /\ requests[n].kind = "close" /\ replies[n] = <<TRUE>>
        => \A s \in Server : servers[s].state # "listening"

\* An open is refused for want of a port only if every one of ports is in use.
FailsOnlyWhenFull ==
    [][\A r \in 1 .. Len(requests) :
          (/\ requests[r].kind = "open"
           /\ replies[r] = << >> /\ replies'[r] = <<FALSE>>
           /\ ~BindMayFail)
          => \A p \in Port : InUse(p)]_vars

\* An open that succeeds on the port it asked for leaves its server listening
\* with TLS if and only if TLS was asked for, whichever blocks it went through
\* and whatever was asked for meanwhile.
SecureAsAsked ==
    [][\A r \in 1 .. Len(requests) :
          (/\ requests[r].kind = "open"
           /\ replies[r] = << >> /\ replies'[r] = <<TRUE>>
           /\ servers'[httpServer'].port = defaultPort)
          => /\ servers'[httpServer'].state = "listening"
             /\ servers'[httpServer'].secure = requests[r].secure]_vars

\* Every request is answered in the end.
EveryRequestIsAnswered ==
    \A r \in Request : Len(requests) >= r ~> replies[r] # << >>

=============================================================================
