----------------------------- MODULE ContentView -----------------------------
(***************************************************************************)
(* ContentView.swift, with the two BehaviorSubjects of LocalHttpServer: a  *)
(* light that shows whether the server runs, a list of its sessions, and   *)
(* the subscription that echoes what they send.                            *)
(*                                                                         *)
(* Three kinds of thread meet here.  The event loops of the current        *)
(* NIOHttpServer report its sessions to the subjects; serverQueue calls    *)
(* the completions; and the main thread runs a tap, step by step, or the   *)
(* next closure of its queue, which is what changes the light and the list.*)
(***************************************************************************)
EXTENDS LocalHttpServer

CONSTANTS
    Session,    \* session ids: the addresses clients connect from
    MaxTexts,   \* bound: texts one address sends
    MaxQueue    \* bound: closures of sessions in the main queue at which they pause

ASSUME ContentViewAssumption ==
    /\ {MaxTexts, MaxQueue} \subseteq Nat

VARIABLES
    tap,          \* where the main thread is in openServer, or "done"
    statusObservers,   \* how many observers connectStatusSubject has
    receiveObservers,  \* how many observers receiveSubject has
    lastStatus,   \* the value connectStatusSubject keeps: a set of at most one
    lastReceive,  \* the value receiveSubject keeps: likewise
    mainQueue,    \* closures given to DispatchQueue.main, oldest first
    isStart,      \* ServerStatus.isStart: the light
    connections,  \* ServerStatus.connections: the ids listed
    live,         \* sessions of the current NIOHttpServer that it takes for open
    missed,       \* history: those that ended while nothing observed them
    texts,        \* [Session -> texts received from that address]
    echoes        \* [Session -> what was sent to it: the text and the server]

subjectVars == <<statusObservers, receiveObservers, lastStatus, lastReceive>>
serverVars == <<live, missed, texts, echoes>>
viewVars == <<tap, subjectVars, mainQueue, isStart, connections, serverVars>>

ViewInit ==
    /\ Init
    /\ tap = "done"
    /\ statusObservers = 0
    /\ receiveObservers = 0
    /\ lastStatus = {}
    /\ lastReceive = {}
    /\ mainQueue = << >>
    /\ isStart = FALSE
    /\ connections = {}
    /\ live = {}
    /\ missed = {}
    /\ texts = [s \in Session |-> 0]
    /\ echoes = [s \in Session |-> << >>]

\* How often openServer has run to its end.
Opens ==
    Cardinality({r \in 1 .. Len(requests) : requests[r].kind = "open"})
        - (IF tap = "done" THEN 0 ELSE 1)

Status(s, isConnect) == [sessionId |-> s, isConnect |-> isConnect]

\* The texts of an address are told apart by their number; with it goes where
\* and when one was received: the server, and how many opens were done.
Context(s, n) ==
    [sessionId |-> s, content |-> [n |-> n, server |-> httpServer, opens |-> Opens]]

StatusClosure(status) == [kind |-> "status", value |-> status]
CompletionClosure(kind, isSuccess) == [kind |-> kind, value |-> isSuccess]

\* One x for each of n observers.
Copies(n, x) == [i \in 1 .. n |-> x]

-----------------------------------------------------------------------------
(* Sessions, on the event loops of the server httpServer refers to.  The   *)
(* handlers of a server that has been replaced hold it weakly, so nothing  *)
(* is heard of its sessions any more.                                      *)

Serves == httpServer # Nil /\ servers[httpServer].state \in {"listening", "closed"}

Reports ==
    /\ Serves
    /\ Cardinality({i \in DOMAIN mainQueue : mainQueue[i].kind = "status"}) < MaxQueue
    /\ UNCHANGED <<vars, tap, statusObservers, receiveObservers, isStart, connections>>

\* connectStatusSubject.onNext: kept, and queued for the list by the observer.
NotifyStatus(status) ==
    /\ lastStatus' = {status}
    /\ mainQueue' = mainQueue \o Copies(statusObservers, StatusClosure(status))

\* A client that goes away without a word is not reported: its address may
\* connect again.
Connected(s) ==
    /\ Reports
    /\ live' = live \cup {s}
    /\ NotifyStatus(Status(s, TRUE))
    /\ UNCHANGED <<lastReceive, missed, texts, echoes>>

Disconnected(s) ==
    /\ Reports
    /\ s \in live
    /\ live' = live \ {s}
    /\ missed' = IF statusObservers = 0 THEN missed \cup {s} ELSE missed \ {s}
    /\ NotifyStatus(Status(s, FALSE))
    /\ UNCHANGED <<lastReceive, texts, echoes>>

\* serverSend: nothing without a server or a session at that address.  A
\* server that is stopping has cleared its dictionary, but sessions that were
\* being upgraded may have entered it since.
serverSend(context, times) ==
    LET s == context.sessionId
        echo == [text |-> context.content, server |-> httpServer]
        sent == [echoes EXCEPT ![s] = @ \o Copies(times, echo)]
    IN  IF ~Serves \/ s \notin live THEN {echoes}
        ELSE IF isServerActive THEN {sent}
        ELSE {echoes, sent}

\* receiveSubject.onNext, on the loop that read the text.
Received(s) ==
    /\ Reports
    /\ s \in live
    /\ texts[s] < MaxTexts
    /\ texts' = [texts EXCEPT ![s] = @ + 1]
    /\ LET context == Context(s, texts'[s]) IN
       /\ lastReceive' = {context}
       /\ echoes' \in serverSend(context, receiveObservers)
    /\ UNCHANGED <<lastStatus, mainQueue, live, missed>>

SessionStep ==
    \E s \in Session : Connected(s) \/ Disconnected(s) \/ Received(s)

-----------------------------------------------------------------------------
(* The main thread.                                                        *)

openServer ==
    /\ tap = "done"
    /\ \E isSSLCheck \in Settings : openWebSocketServer(isSSLCheck)
    /\ tap' = "asked"
    /\ UNCHANGED <<subjectVars, mainQueue, isStart, connections, serverVars>>

closeServr ==
    /\ tap = "done"
    /\ closeWebSocketServer
    /\ UNCHANGED viewVars

Continues(from, to) ==
    /\ tap = from
    /\ tap' = to
    /\ UNCHANGED <<vars, lastStatus, lastReceive, isStart, connections, live, texts>>

\* listenBag = .init(): the old bag disposes of its subscriptions in turn.
DisposeStatus ==
    /\ Continues("asked", "disposing")
    /\ statusObservers' = 0
    /\ UNCHANGED <<receiveObservers, mainQueue, missed, echoes>>

\* Mutant: the old bag is kept, and the old subscription with it.
DisposeNothing ==
    /\ Continues("disposing", "disposed")
    /\ UNCHANGED <<statusObservers, receiveObservers, mainQueue, missed, echoes>>

DisposeReceive ==
    /\ Continues("disposing", "disposed")
    /\ receiveObservers' = 0
    /\ UNCHANGED <<statusObservers, mainQueue, missed, echoes>>

\* A BehaviorSubject gives a new observer the value it keeps.
SubscribeStatus ==
    /\ Continues("disposed", "subscribing")
    /\ statusObservers' = statusObservers + 1
    /\ mainQueue' = mainQueue \o
            (IF lastStatus = {} THEN << >>
             ELSE <<StatusClosure(CHOOSE status \in lastStatus : TRUE)>>)
    /\ missed' = missed \ {status.sessionId : status \in lastStatus}
    /\ UNCHANGED <<receiveObservers, echoes>>

SubscribeReceive ==
    /\ Continues("subscribing", "done")
    /\ receiveObservers' = receiveObservers + 1
    /\ IF lastReceive = {} THEN UNCHANGED echoes
       ELSE \E context \in lastReceive : echoes' \in serverSend(context, 1)
    /\ UNCHANGED <<statusObservers, mainQueue, missed>>

OpenStep == DisposeStatus \/ DisposeReceive \/ SubscribeStatus \/ SubscribeReceive

Listed(status) ==
    IF status.isConnect THEN connections \cup {status.sessionId}
    ELSE connections \ {status.sessionId}

\* Mutant: the light after a close shows the success, not the server.
RunClosureLit ==
    /\ tap = "done"
    /\ mainQueue # << >>
    /\ LET closure == Head(mainQueue) IN
       \/ /\ closure.kind = "status"
          /\ connections' = Listed(closure.value)
          /\ UNCHANGED isStart
       \/ /\ closure.kind \in {"open", "close"}
          /\ isStart' = closure.value
          /\ connections' = IF closure.kind = "close" /\ closure.value THEN {} ELSE connections
    /\ mainQueue' = Tail(mainQueue)
    /\ UNCHANGED <<vars, tap, subjectVars, serverVars>>

\* The main queue's next closure, when no tap is being handled.
RunClosure ==
    /\ tap = "done"
    /\ mainQueue # << >>
    /\ LET closure == Head(mainQueue) IN
       \/ /\ closure.kind = "status"
          /\ connections' = Listed(closure.value)
          /\ UNCHANGED isStart
       \/ /\ closure.kind = "open"
          /\ isStart' = closure.value
          /\ UNCHANGED connections
       \/ /\ closure.kind = "close"
          /\ isStart' = ~closure.value
          /\ connections' = IF closure.value THEN {} ELSE connections
    /\ mainQueue' = Tail(mainQueue)
    /\ UNCHANGED <<vars, tap, subjectVars, serverVars>>

-----------------------------------------------------------------------------
(* serverQueue, seen from the view.                                        *)

\* The completions this step calls, as the closures they queue.
Completions ==
    LET Called == {r \in Request : replies'[r] # replies[r]} IN
    IF Called = {} THEN << >>
    ELSE LET r == CHOOSE r \in Called : TRUE
         IN  <<CompletionClosure(requests[r].kind, replies'[r][Len(replies'[r])])>>

\* Mutant: stopServer leaves the subjects as they are.
ForgottenValues == UNCHANGED <<lastStatus, lastReceive>>

\* stopServer's onNext(nil), which no observer takes notice of.
ResetValues ==
    IF StopSucceeds
    THEN lastStatus' = {} /\ lastReceive' = {}
    ELSE UNCHANGED <<lastStatus, lastReceive>>

\* Stopping ends the server's loops, and with them its sessions, none of
\* which is reported.
ServerStep ==
    /\ QueueStep
    /\ ResetValues
    /\ mainQueue' = mainQueue \o Completions
    /\ live' = IF httpServer' = httpServer THEN live ELSE {}
    /\ missed' = IF httpServer' = httpServer THEN missed ELSE {}
    /\ UNCHANGED <<tap, statusObservers, receiveObservers, isStart, connections, texts, echoes>>

ViewNext ==
    \/ openServer \/ closeServr \/ OpenStep \/ RunClosure
    \/ SessionStep
    \/ ServerStep
    \/ (\E p \in Others : OtherProgram(p)) /\ UNCHANGED viewVars

ViewSpec == ViewInit /\ [][ViewNext]_<<vars, viewVars>>

-----------------------------------------------------------------------------
(* Properties.                                                             *)

\* Nothing is on its way to the view.
Settled == blocks = << >> /\ tap = "done" /\ mainQueue = << >>

\* The requests made since the list was last cleared.
SinceCleared ==
    {r \in 1 .. Len(requests) :
        \A q \in r .. Len(requests) :
            ~(requests[q].kind = "close" /\ replies[q] = <<TRUE>>)}

\* The server has been opened again without being closed first.
Reopened ==
    \E q, r \in SinceCleared : q < r /\ replies[q] = <<TRUE>> /\ requests[r].kind = "open"

\* Stopping the server for a close has thrown: closeServr shows it as running.
CloseFailed ==
    \E r \in 1 .. Len(requests) : requests[r].kind = "close" /\ replies[r] = <<FALSE>>

\* Once everything asked for has reached the view, and unless a close failed,
\* the light is green if and only if the server listens, whichever starts,
\* retries and restarts failed on the way.
LightAgrees == Settled /\ ~CloseFailed => (isStart <=> isServerActive)

\* If the user waits for answers and does not open a server that is open, then
\* once everything has reached the view whatever is listed is an open session,
\* or ended while openServer was between its subscriptions: neither the replay
\* on subscribing, nor what a stop leaves unsaid, nor the order of the main
\* queue leaves a session of the past behind.
ListIsLive ==
    Settled /\ Patiently /\ ~Reopened => connections \subseteq live \cup missed

\* A text is sent back by the server that received it, never by a later one
\* to whoever has the address then.
EchoFromSameServer ==
    \A s \in Session : \A i \in DOMAIN echoes[s] :
        echoes[s][i].server = echoes[s][i].text.server

\* A text is echoed once, and once more at most for every Open that was tapped
\* or under way when it came: subscriptions do not add up.
EchoesDoNotAddUp ==
    \A s \in Session : \A i \in DOMAIN echoes[s] :
        Cardinality({j \in DOMAIN echoes[s] : echoes[s][j] = echoes[s][i]})
            <= 1 + Opens - echoes[s][i].text.opens

=============================================================================
