---------------------------- MODULE NIOSSLHandler ----------------------------
(***************************************************************************)
(* One TLS connection of the server: NIOSSLHandler between the socket and  *)
(* the server's handlers, with the part of BoringSSL that decides whether  *)
(* a connection may still be read and written.                             *)
(*                                                                         *)
(* A read brings some records of the peer; they are decrypted one by one,  *)
(* and what they say is handed on when the read is complete, or when the   *)
(* peer's close_notify comes.  Either side may end the connection: a close *)
(* sends our close_notify and waits for the peer's, but not for ever.      *)
(***************************************************************************)
EXTENDS Naturals, Sequences, FiniteSets

CONSTANTS
    MaxSent,    \* bound: records the peer sends
    MaxWrites,  \* bound: writes of the server's handlers
    MaxCloses   \* bound: times they, or stop(), ask for the connection to close

ASSUME NIOSSLHandlerAssumption ==
    {MaxSent, MaxWrites, MaxCloses} \subseteq Nat

VARIABLES
    state,            \* NIOSSLHandler.state, from channelActive on
    timer,            \* the timed out shutdown is scheduled
    read_shutdown,    \* of the SSL object, as write_shutdown
    write_shutdown,
    plaintext,        \* plaintextReadBuffer: places of data in sent
    bufferedWrites,   \* how many writes wait for a flush
    closePromise,     \* how many closes wait for the connection to close
    loop,             \* where the event loop is with this connection
    open,             \* the channel is open
    pending,          \* records the channel has yet to write
    wire,             \* records it has written
    (* The server's handlers.                                                *)
    delivered,        \* what they have read: places of data in sent
    errors,           \* errors they have been told of
    writes,           \* how many writes they made
    accepted,         \* how many of them were encrypted
    closes, answered, \* how many closes they asked for, and had answered
    (* The peer.                                                             *)
    sent,             \* records it has sent
    taken, opened,    \* how many of them were read, and decrypted
    ended             \* it has closed its side of the socket

sslVars == <<read_shutdown, write_shutdown>>
outVars == <<pending, wire, bufferedWrites, writes, accepted>>
closeVars == <<state, timer, closePromise, closes, answered, open>>
inVars == <<plaintext, delivered>>
peerVars == <<sent, ended>>
vars == <<sslVars, outVars, closeVars, inVars, errors, peerVars, taken, opened, loop>>

\* What the server sends; and records after which the peer sends no other.
Record == {"handshake", "data", "close_notify", "alert"}
LastRecord == {"close_notify", "alert", "bad"}

Init ==
    /\ state = "handshaking"
    /\ timer = FALSE
    /\ read_shutdown = "none" /\ write_shutdown = "none"
    /\ plaintext = << >> /\ delivered = << >>
    /\ bufferedWrites = 0 /\ writes = 0 /\ accepted = 0
    /\ closePromise = 0 /\ closes = 0 /\ answered = 0
    /\ loop = "idle"
    /\ open = TRUE
    /\ pending = << >> /\ wire = << >>
    /\ errors = {}
    /\ sent = << >> /\ taken = 0 /\ opened = 0
    /\ ended = FALSE

-----------------------------------------------------------------------------
(* The peer, and the socket.                                               *)

Has(records, kind) == \E i \in DOMAIN records : records[i] = kind

PeerSends(record) ==
    /\ ~ended
    /\ Len(sent) < MaxSent
    /\ \A kind \in LastRecord : ~Has(sent, kind)
    /\ \/ record = "hello" /\ sent = << >>
       \/ record = "finished" /\ Len(sent) = 1 /\ Has(wire, "handshake")
       \/ record = "data" /\ Has(sent, "finished")
       \/ record \in LastRecord /\ sent # << >>
    /\ sent' = Append(sent, record)
    /\ UNCHANGED <<sslVars, outVars, closeVars, inVars, errors, ended, taken, opened, loop>>

PeerEnds ==
    /\ ~ended
    /\ ended' = TRUE
    /\ UNCHANGED <<sslVars, outVars, closeVars, inVars, errors, sent, taken, opened, loop>>

Writable ==
    /\ open
    /\ pending # << >>
    /\ wire' = Append(wire, Head(pending))
    /\ pending' = Tail(pending)
    /\ UNCHANGED <<sslVars, bufferedWrites, writes, accepted, closeVars, inVars, errors,
                   peerVars, taken, opened, loop>>

-----------------------------------------------------------------------------
(* Closing.                                                                *)

\* close0 of the channel: of what is to be written the socket may have taken
\* some; the rest is dropped, as what waits for a flush is.
ChannelCloses(output) ==
    /\ open' = FALSE
    /\ \E n \in 0 .. Len(output) : wire' = wire \o SubSeq(output, 1, n)
    /\ pending' = << >>
    /\ bufferedWrites' = 0

\* The end of a connection that was closed by us: the closes waiting for it
\* are answered.
channelClose(output, promises) ==
    /\ state' = "closed"
    /\ ChannelCloses(output)
    /\ answered' = answered + promises
    /\ closePromise' = 0

\* SSL_shutdown sends our close_notify once, and is done when the peer has
\* sent its own; until then the timer runs.
doShutdownStep(promises, scheduled) ==
    LET output == IF write_shutdown = "none" THEN Append(pending, "close_notify") ELSE pending IN
    /\ write_shutdown' = "close_notify"
    /\ IF read_shutdown = "close_notify"
       THEN channelClose(output, promises) /\ timer' = FALSE
       ELSE /\ state' = "closing"
            /\ timer' = scheduled
            /\ pending' = output
            /\ closePromise' = promises
            /\ UNCHANGED <<wire, bufferedWrites, answered, open>>

\* Mutant: only a handshake that is cut off is reported.
channelInactiveQuietly ==
    /\ open
    /\ loop = "idle"
    /\ errors' = errors \cup (IF state = "handshaking" THEN {"handshakeFailed"} ELSE {})
    /\ channelClose(<< >>, closePromise)
    /\ UNCHANGED <<sslVars, writes, accepted, timer, closes, inVars, peerVars, taken, opened, loop>>

\* The peer, or the network, has ended the connection.
channelInactive ==
    /\ open
    /\ loop = "idle"
    /\ errors' = errors \cup {IF state = "handshaking" THEN "handshakeFailed" ELSE "uncleanShutdown"}
    /\ channelClose(<< >>, closePromise)
    /\ UNCHANGED <<sslVars, writes, accepted, timer, closes, inVars, peerVars, taken, opened, loop>>

\* The timed out shutdown.
timedOut ==
    /\ loop = "idle"
    /\ timer
    /\ timer' = FALSE
    /\ IF state = "closing" THEN channelClose(pending, closePromise)
       ELSE /\ state' = IF state = "closed" THEN state ELSE "trapped"
            /\ UNCHANGED <<closePromise, answered, open, pending, wire, bufferedWrites>>
    /\ UNCHANGED <<sslVars, writes, accepted, closes, inVars, errors, peerVars, taken, opened, loop>>

-----------------------------------------------------------------------------
(* Reading.                                                                *)

\* channelRead with the next n records, once or more often in one go.
channelRead(n) ==
    /\ open
    /\ loop \in {"idle", "reading"}
    /\ taken + n <= Len(sent)
    /\ taken' = taken + n
    /\ loop' = "decoding"
    /\ UNCHANGED <<sslVars, outVars, closeVars, inVars, errors, peerVars, opened>>

\* The next record is opened, in one of these states.
Opens(records, states) ==
    /\ loop = "decoding"
    /\ state \in states
    /\ opened < taken
    /\ sent[opened + 1] \in records
    /\ opened' = opened + 1
    /\ UNCHANGED <<peerVars, taken>>

doHandshakeStep ==
    /\ Opens({"hello", "finished"}, {"handshaking"})
    /\ state' = IF sent[opened'] = "finished" THEN "active" ELSE state
    /\ pending' = Append(pending, "handshake")
    /\ UNCHANGED <<sslVars, wire, bufferedWrites, writes, accepted, timer, closePromise, closes,
                   answered, open, inVars, errors, loop>>

\* Only a handshake answers a record that is wrong with an alert.
HandshakeFails ==
    /\ Opens(LastRecord, {"handshaking"})
    /\ errors' = errors \cup {"handshakeFailed"}
    /\ channelClose(IF sent[opened'] = "bad" THEN Append(pending, "alert") ELSE pending, closePromise)
    /\ loop' = "reading"
    /\ UNCHANGED <<sslVars, writes, accepted, timer, closes, inVars>>

ReadData ==
    /\ Opens({"data"}, {"active", "closing"})
    /\ plaintext' = Append(plaintext, opened')
    /\ UNCHANGED <<sslVars, outVars, closeVars, delivered, errors, loop>>

doFlushReadData ==
    /\ delivered' = delivered \o plaintext
    /\ plaintext' = << >>

\* Mutant: what was read is left for channelReadComplete.
ReadCloseNotifyFirst ==
    /\ Opens({"close_notify"}, {"active", "closing"})
    /\ read_shutdown' = "close_notify"
    /\ state' = "closing"
    /\ timer' = TRUE
    /\ loop' = "shutting"
    /\ UNCHANGED <<write_shutdown, outVars, closePromise, closes, answered, open, inVars, errors>>

\* zeroReturn: what was read is handed on before the connection is shut down.
ReadCloseNotify ==
    /\ Opens({"close_notify"}, {"active", "closing"})
    /\ read_shutdown' = "close_notify"
    /\ state' = "closing"
    /\ timer' = TRUE
    /\ doFlushReadData
    /\ loop' = IF plaintext = << >> THEN "shutting" ELSE "delivering"
    /\ UNCHANGED <<write_shutdown, outVars, closePromise, closes, answered, open, errors>>

\* Mutant: it is not considered that the handlers may have ended the connection.
ShutsDownBlindly ==
    /\ loop \in {"delivering", "shutting"}
    /\ loop' = "reading"
    /\ IF state = "closing" THEN doShutdownStep(closePromise, timer)
       ELSE /\ state' = "trapped"
            /\ UNCHANGED <<write_shutdown, pending, wire, bufferedWrites, timer, closePromise,
                           answered, open>>
    /\ UNCHANGED <<read_shutdown, writes, accepted, closes, inVars, errors, peerVars, taken, opened>>

\* The handlers may have ended the connection; in any other state a shutdown
\* step ends the process.
ShutsDown ==
    /\ loop \in {"delivering", "shutting"}
    /\ loop' = "reading"
    /\ IF state = "closing" THEN doShutdownStep(closePromise, timer)
       ELSE /\ state' = IF state = "closed" THEN state ELSE "trapped"
            /\ UNCHANGED <<write_shutdown, pending, wire, bufferedWrites, timer, closePromise,
                           answered, open>>
    /\ UNCHANGED <<read_shutdown, writes, accepted, closes, inVars, errors, peerVars, taken, opened>>

\* Any other failure of a read closes the channel; the alert that BoringSSL
\* makes of a wrong record is not sent.
ReadFails ==
    /\ Opens({"alert", "bad"}, {"active", "closing"})
    /\ read_shutdown' = "error"
    /\ write_shutdown' = IF sent[opened'] = "bad" /\ write_shutdown = "none" THEN "error"
                         ELSE write_shutdown
    /\ errors' = errors \cup {"readFailed"}
    /\ channelClose(pending, closePromise)
    /\ loop' = "reading"
    /\ UNCHANGED <<writes, accepted, timer, closes, inVars>>

Decoded ==
    /\ loop = "decoding"
    /\ opened = taken
    /\ loop' = "reading"
    /\ UNCHANGED <<sslVars, outVars, closeVars, inVars, errors, peerVars, taken, opened>>

\* A channel that has closed meanwhile does not complete its reads.
channelReadComplete ==
    /\ loop = "reading"
    /\ loop' = "idle"
    /\ IF open THEN doFlushReadData ELSE UNCHANGED inVars
    /\ UNCHANGED <<sslVars, outVars, closeVars, errors, peerVars, taken, opened>>

-----------------------------------------------------------------------------
(* The server's handlers, when they are called with what was read or run a *)
(* task of the loop.                                                       *)

HandlersRun == open /\ loop \in {"idle", "delivering"}

\* They answer, and never speak first.
write ==
    /\ HandlersRun
    /\ delivered # << >>
    /\ writes < MaxWrites
    /\ writes' = writes + 1
    /\ bufferedWrites' = bufferedWrites + 1
    /\ UNCHANGED <<sslVars, pending, wire, accepted, closeVars, inVars, errors, peerVars,
                   taken, opened, loop>>

Encrypts ==
    /\ pending' = pending \o [i \in 1 .. bufferedWrites |-> "data"]
    /\ accepted' = accepted + bufferedWrites
    /\ bufferedWrites' = 0
    /\ UNCHANGED <<closeVars, wire>>

\* Mutant: SSL_write does not look at write_shutdown.
flushAnyway ==
    /\ HandlersRun
    /\ bufferedWrites > 0
    /\ Encrypts
    /\ UNCHANGED <<sslVars, writes, inVars, errors, peerVars, taken, opened, loop>>

\* SSL_write fails once our close_notify was sent, and with it the connection.
flush ==
    /\ HandlersRun
    /\ bufferedWrites > 0
    /\ IF write_shutdown = "none" THEN Encrypts
       ELSE channelClose(pending, closePromise) /\ UNCHANGED <<accepted, timer, closes>>
    /\ UNCHANGED <<sslVars, writes, inVars, errors, peerVars, taken, opened, loop>>

AsksToClose ==
    /\ HandlersRun
    /\ closes < MaxCloses
    /\ closes' = closes + 1
    /\ UNCHANGED <<read_shutdown, writes, accepted, inVars, errors, peerVars, taken, opened, loop>>

\* In a handshake SSL_shutdown does nothing, and is done.
closeHandshaking ==
    /\ AsksToClose
    /\ state = "handshaking"
    /\ channelClose(pending, 1)
    /\ UNCHANGED <<write_shutdown, timer>>

\* Mutant: the timer is left out.
closePatiently ==
    /\ AsksToClose
    /\ state = "active"
    /\ doShutdownStep(1, timer)

\* The timed out shutdown is scheduled, and the first step taken, which the
\* peer has yet to answer.
closeActive ==
    /\ AsksToClose
    /\ state = "active"
    /\ doShutdownStep(1, TRUE)

\* The result of the first close will answer this one too.
closeClosing ==
    /\ AsksToClose
    /\ state = "closing"
    /\ closePromise' = closePromise + 1
    /\ UNCHANGED <<write_shutdown, state, timer, answered, open, pending, wire, bufferedWrites>>

-----------------------------------------------------------------------------
LoopStep ==
    \/ doHandshakeStep \/ HandshakeFails
    \/ ReadData \/ ReadCloseNotify \/ ReadFails \/ Decoded
    \/ ShutsDown
    \/ channelReadComplete

Next ==
    \/ \E record \in {"hello", "finished", "data"} \cup LastRecord : PeerSends(record)
    \/ PeerEnds \/ Writable
    \/ \E n \in 1 .. MaxSent : channelRead(n)
    \/ LoopStep
    \/ channelInactive
    \/ timedOut
    \/ write \/ flush
    \/ closeHandshaking \/ closeActive \/ closeClosing

Spec == Init /\ [][Next]_vars

\* The loop returns from its handlers, and its timers fire.
FairSpec == Spec /\ WF_vars(LoopStep) /\ WF_vars(timedOut)

-----------------------------------------------------------------------------
(* Properties.                                                             *)

\* Every variable has its type.  The handler is never in a state in which a
\* shutdown step, or the timer, would end the process.
TypeOK ==
    /\ state \in {"handshaking", "active", "closing", "closed"}
    /\ timer \in BOOLEAN /\ open \in BOOLEAN /\ ended \in BOOLEAN
    /\ read_shutdown \in {"none", "close_notify", "error"}
    /\ write_shutdown \in {"none", "close_notify", "error"}
    /\ plaintext \in Seq(1 .. Len(sent)) /\ delivered \in Seq(1 .. Len(sent))
    /\ loop \in {"idle", "decoding", "reading", "delivering", "shutting"}
    /\ pending \in Seq(Record) /\ wire \in Seq(Record)
    /\ errors \subseteq {"handshakeFailed", "uncleanShutdown", "readFailed"}
    /\ sent \in Seq({"hello", "finished", "data"} \cup LastRecord)
    /\ opened \in 0 .. taken /\ taken \in 0 .. Len(sent)
    /\ bufferedWrites \in Nat /\ writes \in Nat /\ accepted \in Nat
    /\ closePromise \in Nat /\ closes \in Nat /\ answered \in Nat

\* A connection that nobody on our side closed, and of which no error was
\* reported, was ended by the peer's close_notify.
EndsAreReported ==
    ~open /\ closes = 0 /\ errors = {} => read_shutdown = "close_notify"

Places(s) == {s[i] : i \in DOMAIN s}

Increasing(s) == \A i, j \in DOMAIN s : i < j => s[i] < s[j]

\* Once the peer's close_notify was read, the handlers have been given all
\* the data before it, in order and once, whichever records came in one read
\* and whatever the handlers did meanwhile, even if they had closed the
\* connection.
CleanEndIsWhole ==
    read_shutdown = "close_notify" =>
        /\ Places(delivered) = {i \in DOMAIN sent : sent[i] = "data"}
        /\ Increasing(delivered)

\* A peer that is sent our close_notify has been sent everything the handlers
\* were told was encrypted.
PeerKnowsTheEnd ==
    Has(wire, "close_notify") =>
        Cardinality({i \in DOMAIN wire : wire[i] = "data"}) = accepted

\* Every close the handlers ask for is answered, though the peer may never
\* answer our close_notify, and later closes wait for the first.
ClosesAreAnswered == answered < closes ~> answered = closes

-----------------------------------------------------------------------------
(* What the handlers hear of the peer is a SecureStream.                   *)

DataSent == {i \in DOMAIN sent : sent[i] = "data"}

EndHeard ==
    IF read_shutdown = "close_notify" THEN "clean" ELSE IF open THEN "none" ELSE "cut"

Stream == INSTANCE SecureStream WITH
    Piece <- 1 .. MaxSent,
    said  <- DataSent,
    over  <- Has(sent, "close_notify"),
    heard <- delivered,
    told  <- errors # {} \/ closes > 0,
    end   <- EndHeard

\* However the peer's records come together in reads, and whatever the handlers
\* write or close meanwhile, they are given the data in order, once and without
\* gaps; all of it by the time the connection ends properly; and any other end
\* is one they asked for or an error they are told of.
ImplementsStream == Stream!Spec

=============================================================================
