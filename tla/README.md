# A verification of nio-server

nio-server is an iOS application that runs a small HTTP and WebSocket server on
SwiftNIO: a GET is answered with a page, a WebSocket client is listed in the
user interface and has every text it sends echoed. These modules describe the
server as the code under `src/NIOServer/NIOServer` writes it, and the vendored
parts (`src/NIOServer/Pods`) its behaviour depends on: SwiftNIO's loops and
channels, the HTTP parser, the WebSocket frame aggregator, the TLS handler, and
RxSwift's subjects. TLC checks them on small instances; TLAPS proves the
invariants that matter most for every instance.

Files are named as follows:

| | |
|---|---|
| `NHS` | `NIOServer/HttpServer/NIOHttpServer.swift` |
| `LHS` | `NIOServer/HttpServer/LocalHttpServer+ServiceNIO.swift` |
| `CV` | `NIOServer/ContentView.swift` |
| `AGG` | `Pods/SwiftNIOWebSocket/.../NIOWebSocketFrameAggregator.swift` |
| `CHP` | `Pods/CNIOHTTPParser/.../c_nio_http_parser.c` |
| `SSL` | `Pods/SwiftNIOSSL/.../NIOSSLHandler.swift` |

## Inventory

| Component | State | Operations | What makes it correct |
|---|---|---|---|
| Event loops and sockets (SwiftNIO) | per loop a FIFO of tasks and the batch of reads in progress; per connection a socket, a queue of pending writes, its handlers | accept, read, write, flush, close, half-close, execute, next, shut down | tasks in order; a connection has one loop for life; pending writes fail on close |
| `HTTPHandler` (NHS 328-416) | `responseBody`, one for all connections | handlerAdded, handlerRemoved, channelRead, respond405 | every request answered once and the connection closed, or upgraded |
| `WebSocketHandler` (NHS 432-534, 582-655) | `awaitingClose`, one for all connections | channelRead of each opcode, channelReadComplete, sendServer | close handshake; nothing sent after a close frame; pongs and echoes go to the right client |
| `connectedChannels` (NHS 72-73, 540-581) | dictionary from remote address to connection | cacheChannel, clearChannel, clearChannelAll, the lookups of sendServer and isChannelOn | holds the connected clients, each under its own address |
| `NIOHttpServer` (NHS 92-322) | the event loop group, the bound channel, the callback | start, stop, configureWebSocketChannel | stop leaves nothing running |
| `LocalHttpServer` (LHS) | static `httpServer`, `portIndex`, `serverQueue` | openWebSocketServer, closeWebSocketServer, startServer with retry, stopServer, serverSend, webSocketNotify | every request answered once; at most one server; close closes; TLS as asked |
| Subjects (`HttpServer/LocalHttpServer.swift`, RxSwift) | two BehaviorSubjects, each with the value it keeps | onNext, subscribe, dispose | what is replayed belongs to the current server |
| `ContentView` (CV) | `isStart`, `connections`, the subscriptions, the main queue | openServer, closeServr, the subscribers | the list shows open sessions, the light the server's state, a text is echoed by the server it came to |
| `NIOWebSocketFrameAggregator` (AGG) | the fragments gathered and their size | channelRead | bounded; hands on whole messages, and frames of other opcodes as they come |
| HTTP parser and `HTTPDecoder` (CHP) | parser state, flags, `content_length`; the decoder's state | a line, a digit, a body, the end of a message | bodies have the length announced; callbacks in the decoder's order; nothing read after a request that ended the connection |
| TLS (SSL, BoringSSL) | the handler's state, timer, buffers and close promise; `read_shutdown`, `write_shutdown` | handshake, read, write, flush, close, timed out shutdown, channelInactive | data complete at a clean end; every other end reported; every close answered; no trap |
| WebSocket frame decoder and encoder | the frame being read | decode, encode | pure |
| `ConsoleLogger` | a log buffer, two queues, settings | log, clear, setup | bounded buffer |
| `SwiftCrypto`, `LocalHttpServer+Cert`, `FilePath`, `UIDevice+IP` | none | string and file lookups | inverse functions |
| Application shell, test templates, other Pods | UIKit and libraries | | not the program's own logic |

How they interact. The user taps on the main thread; the requests queue blocks
on `serverQueue`. A start block creates a `NIOHttpServer`, publishes it in the
static `httpServer` and binds it. The first event loop accepts a connection and
hands it to the loop `next()` names, which adds its handlers; back on the first
loop it passes the server channel's pipeline, and its own loop registers it and
serves it from then on. Bytes go through the TLS handler
(when TLS is asked for), then the HTTP parser, and after the upgrade the frame
decoder and the aggregator, before a handler of the server sees them. A handler
of one loop changes `connectedChannels`, then calls the notification closure on
the same thread, which feeds the subjects; the subscriber of `receiveSubject`
calls `serverSend` on that thread, which looks the session up and hands a task
to the session's own loop; the subscriber of `connectStatusSubject` queues a
closure on the main queue, as the completions of requests do. `stop()` runs on
`serverQueue`, clears the dictionary and waits for every loop.

What is hard: one handler object is shared by all connections; the dictionary
is shared by all threads without a lock; echoes are written in a later tick than
the text was read; closes wait for writes, for the peer and for timers; several
frames or records are handled before anything is flushed; peers vanish;
addresses return; subjects replay what they keep; and a stop or a reopen runs
against all of it. `PROJECT.json` lists the hazards line by line.

## Modules

| Module | Models | Correspondence |
|---|---|---|
| `Channels` | the SwiftNIO below the handlers | `sock`, `out`, `wire` are a connection's socket, pending writes and sent messages; `tasks[l]` is the loop's queue; `Write`, `Close`, `Execute`, `FollowingLoop` are context.write, close, eventLoop.execute and next() |
| `ConnectedChannels` | the dictionary and the notifications | `BeginChange`/`Commit` are the two ends of one access to the dictionary; `EndChange` commits and notifies, the second half of the three closures of configureWebSocketChannel; `RaceCrash` is two overlapping accesses ending the process |
| `HTTPHandler` | accept, requests, the upgrade | `Accept`, `Setup` (with handlerAdded), `Accepted` and then `Register` or `Refuse` are the steps of a connection from loop to loop; `ReadUpgrade`, `ReadGet`, `ReadOther` are the three outcomes of the first request; `FinishUpgrade` is the tick in which the HTTP handlers go and websocketHandler comes |
| `WebSocketHandler` | frames and texts | one action per kind of frame, `ReadComplete` for channelReadComplete, `SendText` for the closure of sendServer |
| `NIOHttpServer` | the composition, sockets, `stop()` | EXTENDS the two handlers; `Writable` and `Lost` are what sockets do, `Stop...` the steps of stop() and `CloseLoop`, `LoopExit` what it makes of a loop |
| `Sessions` | what the application is promised, with no sockets, loops or dictionary | abstract: sessions connect, are heard, are owed answers, leave, close |
| `NIOHttpServerSessions` | that `NIOHttpServer` implements `Sessions` | the refinement mapping, below |
| `LocalHttpServer` | opening and closing | one action per block, cut where others can interleave: `StartCreate`, then a `Bind...`; `StopChannel`, then a `Stop...` |
| `ContentView` | the view, the subjects and the main queue | EXTENDS `LocalHttpServer`; openServer is cut at each call that other threads can come between (`DisposeStatus`, `DisposeReceive`, `SubscribeStatus`, `SubscribeReceive`); `RunClosure` is the next closure of the main queue; `Connected`, `Disconnected`, `Received` are webSocketNotify on an event loop; `ServerStep` is a step of serverQueue with the completion it calls and the values stopServer resets |
| `FrameAggregator` | from frames to messages | `channelRead` of each frame is `Forward`, `Buffer`, `Aggregate` or `Refuse` |
| `HTTPParser` | from bytes to requests | one action per line, digit or read of c_nio_http_parser_execute, with the decoder's callbacks (`On...`) in it |
| `NIOSSLHandler` | one TLS connection | one action per entry point of the handler; `loop` says how far a read has got, since handlers are called from the middle of it |
| `SecureStream` | what TLS promises the listener of a stream, with no records, reads or handshakes | abstract: pieces are said and heard, the stream ends cleanly or is cut |
| `MCNIOHttpServer`, `MCContentView` | model values and symmetry for TLC | |
| `..._proofs` | theorems about the module they are named after | |

Definitions called "Mutant" in a comment are not part of any specification. Each
is a plausible error in the definition below it, and breaks a property named in
`PROJECT.json`.

### How the code is abstracted

* A text and a binary message are one kind of frame, `text`: binary data that is
  UTF-8 takes the same path, and data that is not is dropped by LHS 227.
  Continuation and pong frames change nothing and are not enumerated.
* A message is its kind and the number of the frame it answers.
* The frames of one socket read form a batch: the loop does nothing else from
  the first of them to `ReadComplete`, and frames of a batch are delivered even
  if a handler has closed the channel meanwhile.
* A text is echoed within `ReadText`: receiveSubject calls its subscriber, and
  the subscriber serverSend, on the thread that read the frame.
* `Writable` stands for a flush as well as for a later writable event: the
  socket takes any prefix of what is pending, as a vector write does, and then
  the completions run in order. A close takes what the completions left
  pending with it.
* Each hop of an accepted connection is a task of the loop it goes to, except
  that the first loop initialises its own connections at once. A loop that is
  closing registers none, and one that has ended drops the task, so that the
  connection stays `accepted`.
* 101 is the first message of its connection, so its socket has room; the
  upgrade continues in the same tick.
* A handler is removed one tick after its channel closes, which is when the
  shared `responseBody` becomes nil. The task carries that; removals that
  follow an upgrade happen in `FinishUpgrade`.
* An access to the dictionary has a beginning and an end. A change that ends
  may be written on top of what was there when it began, and a lookup may see
  the dictionary before or after the changes in progress: these are the results
  of an unsynchronised copy-on-write dictionary that do not crash. With one
  event loop and no `stop()` they cannot happen.
* In `NIOHttpServer` TLS changes one operation: `NIOSSLServerHandler` refuses
  close(mode: .output). What else it does to a connection is `NIOSSLHandler`'s.
* `BridgesErrno` says whether the `NSError` made of NIO's error would carry
  errno. It does not (IOError is a plain struct, whose code is 1), so the real
  value is FALSE; `requests`, with TRUE, shows that the retry, if it were
  reached, answers once, and, as `BindMayFail` is TRUE in it, it includes every
  behaviour of the real value.
* In `ContentView` the event loops of a server that has been replaced report
  nothing more: the handlers hold their server weakly. A subject's emission and
  the closure it queues are one step, since events of one session never
  overlap and the order of those of different sessions is left open.
* In `FrameAggregator` `ping` stands for the control opcodes, and `reserved` for
  3 to 7, which the decoder lets through whatever their fin bit
  (WebSocketFrameDecoder 195-203); the aggregator hands both on (AGG 88-90).
* In `HTTPParser` a line that sets a flag is read at once, a number digit by
  digit, a body read by read. A read may cut a line anywhere; the parser is
  resumed where it was and the decoder is left as a whole line would leave it.
* In `NIOSSLHandler` a record is its kind, and data is the place of its record
  among those the peer sent. The records of one read are opened one by one, and
  the server's handlers run when data is handed on in the middle of it, where
  they may write, flush and close.
* A trap ends the process: `trap`, the decoder's state `trapped`, and the TLS
  handler's state `trapped` stand for a failed precondition.

## Runs

`NIOHttpServer_*.cfg` check `MCNIOHttpServer`, `LocalHttpServer_*.cfg` check
`LocalHttpServer`, `ContentView_*.cfg` check `MCContentView`, and the others
the module they are named after. Deadlock is not checked: when every peer is
done and the user does nothing, the server rests.

| Run | Instance | Shows |
|---|---|---|
| `echo` | 2 connections, 2 addresses, 1 loop, 3 frames each, peers vanish | `EchoGoesHome`, `HealthyReachable`, `CloseIsAnswered`, `OneProtocolAtATime`, `ImplementsSessions` |
| `races` | 2 connections, 2 loops, every request and frame, peers vanish | `TypeOK`, `KeyedByAddress`, `ConnectFirst`, `NoTextAfterErrorClose`, `EchoInOrder` |
| `stop` | 2 connections, 2 loops, upgrades and GETs, stop() | `StoppedQuiet`, `NothingRunsAfterStop`, `StopEnds`, `ErrorCloseEnds` |
| `live` | 2 connections, 1 loop, every request, 3 frames each, peers read and do not vanish | `EntriesAreOpen`, `UpgradeEnds`, `SettlesSessions`, `AnsweredEnds` |
| `requests` | 3 taps at any time, both settings, every failure, both ports taken at will | `TypeOK`, `ServedOnce`, `ListenerIsCurrent`, `CloseCloses`, `SecureAsAsked`, `EveryRequestIsAnswered` |
| `ui` | 3 taps, each after the answer to the one before, two addresses, a text from each, a port taken at will, 2 closures of sessions waiting | `LightAgrees`, `ListIsLive`, `EchoFromSameServer`, `EchoesDoNotAddUp` |
| `aggregator` | 4 frames of every opcode class and 3 lengths, limits 2, 3 and 6 | `TypeOK`, `BufferIsBounded`, `MessagesAreWhole`, `MessagesArrive` |
| `parser` | 2 requests, 3 kinds of header lines each, a word of 6 bits | `TypeOK`, `DecoderNeverTraps`, `BodyIsWhole`, `LastIsLast` |
| `tls` | 6 records, 3 writes, 3 closes | `TypeOK`, `PeerKnowsTheEnd`, `ClosesAreAnswered`, `ImplementsStream` |

The other runs end in a violation, and each is a disagreement between the code
and what its comments say of it:

| Run | Property violated | How |
|---|---|---|
| `get` | `GetIsServed` | a GET after another connection's HTTPHandler was removed unwraps nil (NHS 390) |
| `shared_close` | `CloseIsAnswered` | `awaitingClose` was set by another connection (NHS 495) |
| `fallback` | `FailsOnlyWhenFull` | EADDRINUSE is not recognised, and the free port not tried (LHS 103) |

### Where the passing runs stop

Several properties hold only within what their run enumerates, and fail when
the instance is widened as follows. Each of these is what the code does:

* `CloseIsAnswered` and `SettlesSessions` fail once `Frames` has `"reserved"`:
  the shared `awaitingClose` leaves closes unanswered and silences every text
  to every client (NHS 495, 593);
* `HealthyReachable` fails with `NLoops = 2`: two loops cache at the same time
  and one entry is lost (NHS 560);
* `EntriesAreOpen` fails with `MayVanish`: a client that vanishes stays in the
  dictionary until its address returns (NHS 432);
* `ErrorCloseEnds` fails with `TLS = TRUE`: the half-close is refused and its
  result ignored (NHS 530);
* `StoppedQuiet` fails if no connection may be open (`IsOpen` for `IsActive`): one
  that is being handed from loop to loop (SocketChannel.swift 241-311) when a
  loop ends is in no loop's selector, the task that would register it is
  dropped, and `stop()` returns with its socket open. The application never
  heard of it and its peer is sent nothing. A debug build of SwiftNIO may end
  the process instead, for a promise or a channel that is leaked;
* `LastIsLast` fails if every request that says close is to be the last: after a
  1.0 request that says both close and keep-alive the parser reads another
  (CHP 2191-2207), although the comment at CHP 725 speaks of what follows a
  `Connection: close` message. `EndsConnection` says which requests are meant;
* `MessagesAreWhole` fails if only control frames may pass the aggregator: a frame
  with a reserved opcode is handed on unfinished, and in the middle of a message,
  to the handler, which answers it with closeOnError (AGG 88-90, NHS 484);
* `CloseCloses` and `ListenerIsCurrent` fail without `Patiently`: a reopen's
  start is queued behind a later close (LHS 21);
* `SecureAsAsked` fails on a port other than `defaultPort`: the retry drops
  `isSSLSecure` (LHS 119);
* `ListIsLive` fails without `~Reopened`: opening a server that is open stops
  it, no session it had is reported closed, and the list keeps them; the
  subject's replay may list one twice (CV 91-95, LHS 17-27);
* `ListIsLive` fails without `missed`: the server may be up, and sessions come
  and go, before openServer has disposed of its old subscriptions and made the
  new ones. The replay on subscribing brings only the last of what was
  emitted in between, so a session that was listed and ended then stays in the
  list (CV 91-104). `missed` is a history variable that holds those sessions
  and nothing else. A connect that is emitted in between may be missing from the
  list;
* `LightAgrees` fails without `~CloseFailed`: stop() closes the listening
  channel before the shutdown that throws, and closeServr then shows a server
  that no longer listens as running (CV 121);
* `EchoFromSameServer` fails with `ShutdownMayFail`, and with `BridgesErrno`:
  either leaves a server that takes connections behind when the next one is
  published, and the text it received is sent through the new one.

And the model shows, without a property about it:

* a text queued before a close frame may be written behind the answer to it
  while the socket is full, since receivedClose does not set `awaitingClose`
  (NHS 593);
* a reserved frame and a close frame in one socket read close the channel before
  the close frame of closeOnError is flushed (NHS 497);
* a server whose start failed is replaced without being stopped, and its
  event loops' threads stay (LHS 85);
* a frame the aggregator refuses is neither answered nor is its connection
  closed: no handler behind it takes notice of the error (AGG 92-96);
* the alert BoringSSL makes of a record it cannot read is written to its buffer
  and never sent, once the handshake is over: channelClose closes the channel
  without it (SSL 403-409);
* a text flushed while a TLS close waits for the peer ends the connection at
  once, since SSL_write fails after our close_notify (SSL 681-687).

### Bounds

* `Conn`: 2 connections, each used once. Every property is about one
  connection, or about one and what another does to it.
* `Addr`: 2 addresses, so that connections can have different ones, and so that
  an address can return.
* `NLoops`: 1 where the property fails once two threads race in the dictionary,
  and where symmetry cannot shrink a liveness check; 2 elsewhere, which gives
  every pair of accesses a race. One loop is what a single-core device has.
* `MaxFrames`: 2 frames are the smallest batch in which one frame finds what
  another left unflushed, and the smallest order; `echo` and `live` have 3, so
  that a close can follow two texts. `stop` has 1, as what it adds is the
  steps of stop().
* `MaxRequests`: 3 taps, which the shortest sequence takes in which a request
  overtakes another (after `open`, `open`, `close` the reopen's start is queued
  behind the close). `MaxPending` is 3 in `requests`, so the user never waits, and 1 in
  `ui`, so that the user waits for each answer, as the texts and closures of two
  sessions leave no room for more; the theorems about the view have no such
  bound. `Settings` is the SSL switch, both ways in
  `requests`. `Others` are the ports other programs may take: both in
  `requests`, so that retries run out, the first in `ui`, so that an open may
  fail. Failed shutdowns and retries under the view are left to the theorems
  too.
* `Session`, `MaxTexts`: two addresses, and one text from each, which is what a
  replay to the wrong session takes. `MaxQueue`: sessions pause while that many
  of their closures wait; taps and completions do not. It is 2: with 1, nothing could
  be emitted while a session's closure waits, and the sessions of `missed` would not
  occur.
* Aggregator: the limits are chosen so that 3 frames of at least 2 bytes meet
  the size limit exactly, and lengths 1, 2 and 4 fall below, on and above each
  limit; 4 frames allow a message after one that was refused.
* Parser: `ULLONG_MAX = 63` puts both limits, decimal and hexadecimal, within
  two digits; digits 0, 3, 6 and 0, 2, 3, 15 reach both sides of each. `MaxBody`
  stops chunks from adding up; the two requests are enough for anything one
  leaves to the next.
* TLS: 6 records are a handshake of two, three of data and an end; 3 writes and
  3 closes allow one of each before, in and after the last read.
* Wires, queues and notifications are bounded by these. Symmetry over
  connections and addresses, or sessions, is used only in runs without liveness
  properties; none of the constants distinguishes them.

### Fairness

* `RunTask` and `Finish` of each loop, weakly: an event loop is a thread that
  takes its tasks in order and returns from its handlers.
* The steps of stop() after the first, weakly: `serverQueue` is a thread too.
  That stop() is called is not assumed.
* `Writable`, weakly, in `FairPeersSpec` only: the peer reads, so its socket
  always has room again. `StopEnds` does not need it.
* `QueueStep`, weakly: Grand Central Dispatch runs the blocks of a serial
  queue.
* `LoopStep` of a TLS connection, weakly: a read that was begun is finished;
  and `timedOut`, weakly: a timer that is scheduled fires. `ClosesAreAnswered`
  assumes nothing of the peer.

Nothing is assumed of the peers' requests, frames and records, of vanishing
peers, of taps or of other programs.

### Refinement

`Sessions` is what the application counts on, in five variables: whether the
process runs, which connections are closed, what was heard of each, which texts
each is owed, and which it was sent. Its steps say that .connect comes first,
that a text is owed to the session it came from or to none, that owed texts are
sent in order, and that only a session that closes, or has left, loses one.
`NIOHttpServerSessions` maps the server to it:

| `Sessions` | `NIOHttpServer` |
|---|---|
| `alive` | no trap |
| `closed[c]` | the socket is no longer open for writing |
| `heard[c]` | the notifications |
| `owed[c]` | the texts among the pending writes, and the texts for `c` still queued on its loop |
| `sent[c]` | the texts on the wire |

`owed` and `sent` are sets: a text is known by its session and the number of the
frame it answers, and their numbers order them, so that no sequence has to be
filtered. What a set cannot show, that a text is on the wire once, is
`EchoInOrder`.

`echo` checks `ImplementsSessions`, that every step of the server is one of
`Sessions` or none; `live` checks `SettlesSessions`, the same with fairness:
owed texts are settled. The order of echoes, which `Sessions` states once for
all, is therefore checked through batches, full sockets and the detour over the
loop's queue. Both are checked on one loop, as a lost dictionary entry loses a
text. `ImplementsService` proves the first.

`SecureStream` is what a listener may count on in one direction of a TLS
connection: what the speaker says is heard in its order, once and without gaps;
the stream ends cleanly when the speaker has said that it was all, and only with
all of it heard; it may be cut at any time, but a listener who did not ask for
the end is told. `NIOSSLHandler` maps itself to it, with the peer as the speaker
and the server's handlers as the listener:

| `SecureStream` | `NIOSSLHandler` |
|---|---|
| `said` | the data records among those the peer sent, as positions |
| `over` | the peer has sent its close_notify |
| `heard` | the data the handlers were given |
| `told` | an error was reported, or a handler asked for a close |
| `end` | clean once the close_notify was read, cut when the connection is closed without it |

`tls` checks `ImplementsStream`, and `ImplementsASecureStream` proves it. That data
read together with a close_notify is handed on before it (SSL 398) is the step
`HearEnd`; that channelInactive and a failed read report the end (SSL 95-134,
403-409) is `Cut`.

## Proofs

Eight modules hold the theorems. Each proves an inductive invariant of the
specification by one case per action, and reads its theorems off it. They hold
for every value of the constants that satisfies the modules' named assumptions
and the hypotheses of the theorem. A hypothesis is there where TLC, or the proof
attempt, finds the property violated without it; every run that checks the
property satisfies it.

| Theorem | Property | Hypotheses |
|---|---|---|
| `TypeCorrect`, `AddressesKeyed`, `ConnectComesFirst`, `StopLeavesNothing`, `NothingRuns` | `TypeOK`, `KeyedByAddress`, `ConnectFirst`, `StoppedQuiet`, `NothingRunsAfterStop` | none |
| `StopWaitsForTold` | (`StopIsKnown`, stated with its proof) | none |
| `OneProtocol`, `NothingAfterErrorClose`, `EchoesKeepAddress`, `EchoesInOrder` | `OneProtocolAtATime`, `NoTextAfterErrorClose`, (`EchoKeepsAddress`), `EchoInOrder` | none |
| `ClosesAnswered` | `CloseIsAnswered` | no frame with a reserved opcode |
| `EchoesGoHome`, `HealthyReached` | `EchoGoesHome`, `HealthyReachable` | one loop |
| `EntriesStayOpen` | `EntriesAreOpen` | one loop, nobody vanishes, stop() not called, no frame the decoder refuses |
| `ImplementsService` | `ImplementsSessions` | one loop, stop() not called, no frame with a reserved opcode |
| `RequestsTypeCorrect`, `RequestsServedOnce`, `ListenerStaysCurrent`, `CloseDoesClose`, `OpensSecurely` | `TypeOK`, `ServedOnce`, `ListenerIsCurrent`, `CloseCloses`, `SecureAsAsked` | none |
| `TheViewKeepsToTheServer`, `TheLightAgrees`, `TheListIsLive`, `EchoesStayFew` | (`Spec` of `LocalHttpServer`), `LightAgrees`, `ListIsLive`, `EchoesDoNotAddUp` | none |
| `EchoesKeepServer` | `EchoFromSameServer` | errno is not bridged, no shutdown throws |
| `AggregatorTypeCorrect`, `AggregatorBounded`, `AggregatorWhole`, `AggregatorArrives` | `TypeOK`, `BufferIsBounded`, `MessagesAreWhole`, `MessagesArrive` | none |
| `ParserTypeCorrect`, `DecoderIsPrepared`, `BodiesAreWhole`, `NothingFollowsTheLast` | `TypeOK`, `DecoderNeverTraps`, `BodyIsWhole`, `LastIsLast` | none |
| `ShutdownNeverTraps`, `PeersKnowTheEnd`, `ImplementsASecureStream` | `TypeOK`, `PeerKnowsTheEnd`, `ImplementsStream` | none |
| `EveryEndIsReported`, `CleanEndsAreWhole`, `ClosesAnsweredOnce` | (`EndsAreReported`, `CleanEndIsWhole`, `ClosesCounted`) | none |

A property in parentheses is checked by no run of its own; the text below says
of each what run it belongs to.

"One loop" excludes the race in which two loops cache at once and one entry is
lost (NHS 560); a single-core device has one. It also excludes, for
`EchoGoesHome`, a lookup of the client that had the address before; on any
number of loops `EchoesKeepAddress` is what remains.

**`NIOHttpServer_proofs`**: for any connections, addresses, event loops, frames
and requests, with or without TLS, stop() and vanishing peers. `KeyedByAddress`
alone is not inductive: a thread writes on top of a dictionary it saw earlier, so
that copy must be keyed too, and the connection it stores must have been upgraded
and have that loop (`AccessInv`); the connection of an upgrade task must be
waiting for its upgrade, on that loop, and have no second upgrade, or `connect`
could be sent twice, and a connection to be initialised must be bare and be
initialised once (both are `MoveInv`); and a connection has an
address once it has been accepted (`Located`). `ConnectFirst` needs `NotesInv`:
notifications of a connection exist exactly when it has been upgraded and its
loop is not just about to send `connect`; a loop that is in the middle of a
change reads no frame, so no text overtakes it. The steps fall into three
groups, each with a lemma: `QuietStep`, for those that leave dictionary and
notifications alone; `BeginStep`, for an event loop that begins a change; and
the commits (`CommitKeyed`, `CommitAccess`). `StoppedQuiet` has an invariant of
its own, `StopInv`: until stop() has asked the loops to close, all are open and
none has a task to close, and when it has returned all have ended (`Asking`); a
loop that has ended has nothing left to do (`Ended`); and an open connection, or
the listening channel, is one of a loop that is open (`Served`). What it says of a
connection that is left open needs two more: of one that is not registered nobody
has heard (`Fresh`), and one of the first loop is in that loop's queue until it is
registered or refused (`Registering`), so that none is left when the loop has ended. With `StoppedQuiet` and
`Asking` every action's guard fails once stop() has returned, which is
`NothingRuns`. `StopIsKnown` says of the time stop() waits that each loop still
open has its closeLoop task in its queue: tasks are taken from the front and added
at the back (`Turn`, `TaskEffect`), so that the task goes only when it is run, and
then the loop is open no more (`HeadStays`, which serves `Registering` too). It is the part of `StopEnds` that is a
state property; what fairness adds, that the loop gets to the task, is
TLC's in `stop`. The module also assumes that `None` is none of
the values it stands in for.

**`NIOHttpServerWire_proofs`**: what is sent, on any number of loops. The
invariant `WireInv` is about the line of a connection, what it was sent and what
waits to be written, since a property of the wire alone says nothing of what the
next flush brings. `ProtocolInv` ties the line to the connection's stage;
`RefusedInv` says that the close frame of closeOnError is on a line only once
`awaitingClose` is set, and that no text is behind it; `EchoInv` and `SendInv` say
where texts of the line and of the queues come from, and that those queued for
a connection are younger than those on its line, which is what the order needs:
a text takes a turn in a queue, and pending ones may be dropped but never
overtaken. `AnswerInv` adds, where no reserved opcode comes, that `awaitingClose`
is never set and that a WebSocket that is closed was sent the answer to its
close frame. `EchoKeepsAddress`, which follows from `EchoInv`, is
checked by no run of its own: it is `EchoGoesHome` for any
number of loops, and the `echo` run has the stronger one.

**`NIOHttpServerSessions_proofs`**: what needs one loop. `SessionInv` says that a
connection, from the moment it is accepted, has its address to itself (`AloneInv`), that the dictionary
and the copy a thread works on lead to the client an address belongs to
(`OwnInv`), that texts in queue and line are the client's own (`HomeInv`), that
every client the application knows of is in the dictionary unless the loop is
just about to remove it (`ReachInv`), and that notifications carry the numbers
of frames already read (`NumberInv`). `EntriesStayOpen` adds `EntriesInv`. The
refinement goes action by action: each is shown to be a step of `Sessions` or
none. `Writable`, which sends any prefix of what is pending and may close with
it, is a `Settle`; a vanished peer or a closed channel is a `Close`; reading a
text is a `Receive` whose text is queued for the session it came from, and that
it is queued there, or that the session is closed or has left, is `ReachInv`.

**`LocalHttpServer_proofs`**: for any number of taps at any time, whatever
fails. `ServedOnce` counts the blocks of a request;
its inductive form (`Served`) says that blocks are of requests made, that no two
are of the same one, and that a request has a block or an answer. `Faithful`
relates a block to its request, through retries and reopens, and `AtWork` the
running block to the server it created. For the user who waits, `Calm` says
that there is one block at most and that nothing listens while a start is
queued or a stop under way, from which `ListenerIsCurrent` and `CloseCloses`
follow.

**`ContentView_proofs`**: on top of `IInv` of the server, which holds under the
view because the view takes no other steps. Each property speaks of a settled
state or of echoes; its invariant says what the main queue and the subjects
are going to make of it.
`LightInv`: once the closures that wait have run, the light will agree with the
server, or a block is on its way that will see to it. `QueueEnds` and
`OneCompletion` say that a block calls one completion and with what.
`ListInv`: what will stay in the list once the closures have run (`Stays`) is
open or missed, the value connectStatusSubject keeps is of an open session, and
a server that takes connections has been opened since the list was cleared, so
that one that is to replace it would be opened again (`StartsAfresh`).
`CountInv`: receiveSubject has one subscription at most, and none while
openServer is about to make it; a text on its way back, or kept by the subject,
was received when no more opens had been done than now, and has been echoed once
at most for itself and for each open since. `SendCounts` says that serverSend
adds one echo for each observer.
`SoleInv` and `HeldInv`: at most one server takes connections, and the text
receiveSubject keeps is one of a server that does; hence, if one is published,
the same.

**`FrameAggregator_proofs`**: for any limits, lengths and number of frames. The invariant
`Gathering` says that the buffer is the beginning of a message of which nothing
is missing and nothing was refused, with nothing in between but frames that
pass; `InTurn` holds as what completes a message is
always the frame just read (`CompletedRead`). For `MessagesArrive` it has to be
known what the buffer holds when the last fragment of a proper message comes:
`Underway` says that after each fragment but the last of a message within the
limits, the buffer is the data frames since its first one, in order, and
`Sizes` that the size counted is the number of their bytes. `TotalLength` is
stated as the number of the bytes of a set of frames rather than as a recursive sum,
so that adding a fragment adds its length (`FS_Union`, `FS_Interval`) and a
part of a message within the limits is within them.

**`HTTPParser_proofs`**: for any number of requests, lines,
chunks and digits, and every word size from 16 on. Parser and decoder keep
states of their own: `Called` says which belong together, `Coded` what the
flags remember of the request, `Counted` where the bytes announced are,
`Following` when a request may follow, and that the parser
gives up on what follows only after a request that ended the connection. `DecimalFits` and `HexFits` are the
arithmetic of the conservative limits.

**`NIOSSLHandler_proofs`**: for any number of records, writes and closes. `Standing`
says which states the timer, our close_notify and a closed channel go with, so
that neither a shutdown step nor the timer can find another; `Gathered` and
`EndRead` say that the data opened so far is what was handed on and what waits,
in order, and that a close_notify leaves none waiting. `Written` is about what was
sent and what waits to be sent, as one line: while the channel is open it has all
the data that was encrypted, and nothing behind our close_notify; so that whatever
part of it a closing channel has sent, a close_notify is in it only if all of it is
(`PrefixIsWhole`). The refinement goes action by action: a record the peer sends is
a `Say` or a `SayEnd`, data handed on is a `Hear`, the reading of a close_notify a
`HearEnd`, and a connection that closes without one a `Cut`, since whoever closes it
has reported an error or was asked to. That data is heard without gaps is `Gathered`
and `EndRead`. `EndsAreReported` and `CleanEndIsWhole` are what `ImplementsStream`
says of a single state, and have theorems of their own. `ClosesCounted` says that a
close is answered or waits and that none waits on a closed connection: the
counting half of `ClosesAreAnswered`, whose other half, that the timer fires, is
TLC's in `tls`.

Model-checked only: what needs fairness or `ENABLED`, which are beyond TLAPS. These
are `UpgradeEnds`, `SettlesSessions` and `AnsweredEnds` of `live`, `StopEnds` and
`ErrorCloseEnds` of `stop`, `EveryRequestIsAnswered` of `requests` and
`ClosesAreAnswered` of `tls`; `ServedOnce`, `StopIsKnown` and `ClosesCounted` are
what can be said of them without it, and are proved. The violations of `get`,
`shared_close` and `fallback` are TLC's too. Every invariant and every action
property the passing runs check, and both refinements without fairness, are proved.

## Not modelled

* Most of the vendored code, above all BoringSSL's ciphers, certificates,
  encodings and the content of the handshake, which the server reaches through
  two calls and whose results are abstracted to success or failure; the
  generated tables that make up much of it; CryptoSwift and swift-log. It is
  most of the repository by size, and none of it is the server's logic.
* Unwrapping (stopTLS), renegotiation and post-handshake messages: this server
  asks for none.
* A second request on a connection. HTTPServerPipelineHandler lets one that was
  pipelined through once the response to the first has ended
  (HTTPServerPipelineHandler 316-344), and `HTTPHandler` answers it too. If the
  socket takes the first response at once, the close that follows is in the same
  tick and the second does not reach the wire; if it is full, the second may be
  pending with the first, and `OneProtocolAtATime` says nothing of it. Nor the 400 that HTTPServerProtocolErrorHandler sends when
  the parser fails.
* HTTP responses, which a server does not parse; the bytes of tokens, folded
  lines and the limit on the size of a head; the encoders.
* stop() with TLS: `CloseLoop` closes a connection at once, while a TLS
  handler first does its closing handshake. That it ends in any case is
  `ClosesAreAnswered`.
* That a server asked for TLS has none if its certificate cannot be read
  (`try?`, NHS 101): the certificate is bundled.
* Data races on anything but `connectedChannels`: the static `httpServer`, the
  closures of `websocketHandler`, `responseBody` and `awaitingClose` across
  loops are atomic here.
* A change of `httpServer` between a text and its echo in `NIOHttpServer`, which
  is one life of one server; `ContentView` has it.
* `sendTime`, which nothing calls; the branch `.http` of sendServer, which does
  nothing.
* `ConsoleLogger`, encryption helpers, addresses, files: see the inventory.

## What is left

The size limit on an HTTP head, and `ConsoleLogger`'s buffer. Both are parts of
their own: the first would add a counter and one error to `HTTPParser`, the second
touches no other module.
