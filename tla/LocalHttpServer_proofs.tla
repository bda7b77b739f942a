----------------------- MODULE LocalHttpServer_proofs -----------------------
(***************************************************************************)
(* Every request has one block or one answer, TLS is what was asked for,   *)
(* and, for a user who waits for answers, nothing listens but the current  *)
(* server: for any number of requests and ports taken by others, whichever *)
(* binds and shutdowns fail.                                               *)
(***************************************************************************)
EXTENDS LocalHttpServer, FiniteSetTheorems, TLAPS

BlockRecord ==
    [kind : {"start", "stop", "restart"}, request : Request, secure : BOOLEAN, port : Port]
RequestRecord == [kind : {"open", "close"}, secure : BOOLEAN, waited : BOOLEAN]
State == {"none", "created", "listening", "failed", "closed", "stopped"}
ServerRecord == [state : State, port : Port, secure : BOOLEAN]

-----------------------------------------------------------------------------
(* The inductive invariant.                                                *)

\* The blocks are of requests that have been made, one block each.
Made == \A i \in DOMAIN blocks : blocks[i].request \in 1 .. Len(requests)
Unique ==
    \A i, j \in DOMAIN blocks : blocks[i].request = blocks[j].request => i = j

\* A request has a block and no answer, or one answer and no block.
Outstanding ==
    \A r \in Request :
        IF r \in 1 .. Len(requests)
        THEN \/ replies[r] = << >> /\ \E i \in DOMAIN blocks : blocks[i].request = r
             \/ Len(replies[r]) = 1 /\ \A i \in DOMAIN blocks : blocks[i].request # r
        ELSE replies[r] = << >>

Served == Made /\ Unique /\ Outstanding

\* A block does what its request asked for; only a retry, which is made on
\* another port, forgets about TLS.
Faithful ==
    \A i \in DOMAIN blocks :
        LET b == blocks[i]
            q == requests[b.request]
        IN  /\ b.kind = "stop" <=> q.kind = "close"
            /\ b.port = defaultPort /\ q.kind = "open" => b.secure = q.secure
            /\ b.kind # "start" => b.port = defaultPort

\* The running block, and the server it has created.
AtWork ==
    /\ running # "idle" => blocks # << >>
    /\ running = "binding" =>
          /\ Head(blocks).kind = "start"
          /\ httpServer \in Server
          /\ servers[httpServer].port = Head(blocks).port
          /\ servers[httpServer].secure = Head(blocks).secure
    /\ running = "stopping" => Head(blocks).kind # "start"

NoneListens == \A s \in Server : servers[s].state # "listening"

\* With a user who waits for answers there is one block at most, the latest
\* request's, and nothing listens while a start is queued or a stop is under
\* way.
Calm ==
    Patiently =>
        /\ Len(blocks) <= 1
        /\ blocks # << >> => Head(blocks).request = Len(requests)
        /\ \A s \in Server : servers[s].state = "listening" => httpServer = s
        /\ blocks # << >> /\ Head(blocks).kind = "start" => NoneListens
        /\ running = "stopping" => NoneListens

Sound == TypeOK /\ Served /\ Faithful /\ AtWork

IInv == Sound /\ Calm /\ CloseCloses

-----------------------------------------------------------------------------
(* Queues, ports and servers.                                              *)

LEMMA Ports == Len(ports) = 2 /\ ports[1] = 1024 /\ ports[2] = 2048
  BY DEF ports

LEMMA Appended ==
    ASSUME NEW S, NEW q \in Seq(S), NEW b \in S
    PROVE  /\ Append(q, b) \in Seq(S)
           /\ Len(Append(q, b)) = Len(q) + 1
           /\ DOMAIN q = 1 .. Len(q) /\ Len(q) \in Nat
           /\ DOMAIN Append(q, b) = 1 .. Len(q) + 1
           /\ \A i \in DOMAIN q : q[i] \in S /\ Append(q, b)[i] = q[i]
           /\ Append(q, b)[Len(q) + 1] = b
           /\ Append(q, b) # << >>
           /\ q # << >> => Head(Append(q, b)) = Head(q)
           /\ q = << >> => Head(Append(q, b)) = b
  OBVIOUS

LEMMA Removed ==
    ASSUME NEW S, NEW q \in Seq(S), q # << >>
    PROVE  /\ Tail(q) \in Seq(S) /\ Head(q) \in S
           /\ Len(Tail(q)) = Len(q) - 1
           /\ DOMAIN q = 1 .. Len(q) /\ Len(q) \in Nat \ {0}
           /\ DOMAIN Tail(q) = 1 .. Len(q) - 1
           /\ \A i \in DOMAIN Tail(q) : Tail(q)[i] = q[i + 1] /\ i + 1 \in DOMAIN q
           /\ Head(q) = q[1]
  OBVIOUS

LEMMA NotNil == ASSUME NEW s \in Server PROVE s # Nil
<1>1. PICK r \in Request, p \in Port : s = <<r, p>>
  BY DEF Server
<1>2. Len(<<r, p>>) = 2 /\ Len(<< >>) = 0
  OBVIOUS
<1> QED
  BY <1>1, <1>2 DEF Nil

LEMMA Empty == ASSUME NEW S, NEW q \in Seq(S), Len(q) = 0 PROVE q = << >>
  OBVIOUS

LEMMA Types ==
    ASSUME TypeOK
    PROVE  /\ requests \in Seq(RequestRecord) /\ Len(requests) \in Nat
           /\ Len(requests) <= MaxRequests
           /\ replies \in [Request -> Seq(BOOLEAN)]
           /\ blocks \in Seq(BlockRecord)
           /\ servers \in [Server -> ServerRecord]
           /\ MaxRequests \in Nat
  BY LocalHttpServerAssumption DEF TypeOK, RequestRecord, BlockRecord, ServerRecord, State

LEMMA TypesHold ==
    ASSUME requests \in Seq(RequestRecord), Len(requests) <= MaxRequests,
           replies \in [Request -> Seq(BOOLEAN)], blocks \in Seq(BlockRecord),
           running \in {"idle", "binding", "stopping"},
           servers \in [Server -> ServerRecord],
           httpServer \in Server \cup {Nil},
           portIndex \in 0 .. Len(ports) - 1,
           foreign \in SUBSET Port
    PROVE  TypeOK
  BY DEF TypeOK, RequestRecord, BlockRecord, ServerRecord, State

LEMMA TypesHoldNext ==
    ASSUME requests' \in Seq(RequestRecord), Len(requests') <= MaxRequests,
           replies' \in [Request -> Seq(BOOLEAN)], blocks' \in Seq(BlockRecord),
           running' \in {"idle", "binding", "stopping"},
           servers' \in [Server -> ServerRecord],
           httpServer' \in Server \cup {Nil},
           portIndex' \in 0 .. Len(ports) - 1,
           foreign' \in SUBSET Port
    PROVE  TypeOK'
  BY DEF TypeOK, RequestRecord, BlockRecord, ServerRecord, State

\* Becomes changes the state of httpServer and nothing else.
LEMMA BecomesState ==
    ASSUME TypeOK, httpServer \in Server, NEW state \in State, Becomes(state)
    PROVE  /\ servers' \in [Server -> ServerRecord]
           /\ servers'[httpServer].state = state
           /\ \A s \in Server : s # httpServer => servers'[s] = servers[s]
           /\ \A s \in Server : /\ servers'[s].port = servers[s].port
                                /\ servers'[s].secure = servers[s].secure
<1>1. servers \in [Server -> ServerRecord]
  BY Types
<1> QED
  BY <1>1 DEF Becomes, ServerRecord

LEMMA StillNoneListens ==
    ASSUME TypeOK, httpServer \in Server, NEW state \in State \ {"listening"},
           Becomes(state), NoneListens
    PROVE  NoneListens'
  BY BecomesState DEF NoneListens

-----------------------------------------------------------------------------
(* The three ways the queue changes.                                       *)

\* A request is made and its block queued.
AsksWith(b, q) ==
    /\ b \in BlockRecord
    /\ q \in RequestRecord
    /\ b.request = Len(requests) + 1
    /\ requests' = Append(requests, q)
    /\ blocks' = Append(blocks, b)
    /\ replies' = replies
    /\ b.kind = "stop" <=> q.kind = "close"
    /\ b.port = defaultPort
    /\ q.kind = "open" => b.secure = q.secure

\* The running block ends with another one for the same request.
Requeues(b) ==
    /\ b \in BlockRecord
    /\ blocks # << >>
    /\ b.request = Head(blocks).request
    /\ requests' = requests
    /\ blocks' = Append(Tail(blocks), b)
    /\ replies' = replies
    /\ Head(blocks).kind # "stop" /\ b.kind = "start"
    /\ b.port # defaultPort \/ (Head(blocks).port = defaultPort /\ b.secure = Head(blocks).secure)

\* The running block ends with an answer.
Answers(success) ==
    /\ success \in BOOLEAN
    /\ blocks # << >>
    /\ requests' = requests
    /\ blocks' = Tail(blocks)
    /\ Reply(Head(blocks).request, success)

LEMMA AsksServed ==
    ASSUME TypeOK, Served, Faithful, NEW b, NEW q, AsksWith(b, q),
           Len(requests) < MaxRequests
    PROVE  /\ Served' /\ Faithful'
           /\ requests' \in Seq(RequestRecord) /\ blocks' \in Seq(BlockRecord)
           /\ replies' \in [Request -> Seq(BOOLEAN)]
           /\ Len(requests') <= MaxRequests
<1> DEFINE n == Len(blocks) + 1
           r == Len(requests) + 1
<1>1. /\ requests \in Seq(RequestRecord) /\ blocks \in Seq(BlockRecord)
      /\ replies \in [Request -> Seq(BOOLEAN)]
      /\ Len(requests) \in Nat /\ MaxRequests \in Nat
  BY Types
<1>2. /\ blocks' \in Seq(BlockRecord)
      /\ DOMAIN blocks = 1 .. Len(blocks) /\ Len(blocks) \in Nat
      /\ DOMAIN blocks' = 1 .. n
      /\ \A i \in DOMAIN blocks : blocks'[i] = blocks[i]
      /\ blocks'[n] = b
  BY <1>1, Appended DEF AsksWith
<1>3. /\ requests' \in Seq(RequestRecord) /\ Len(requests') = r
      /\ \A i \in 1 .. Len(requests) : requests'[i] = requests[i]
      /\ requests'[r] = q
  BY <1>1, Appended DEF AsksWith
<1>4. b.request = r /\ replies' = replies /\ r \in Request
  BY <1>1 DEF AsksWith, Request
<1>5. \A i \in DOMAIN blocks' : i \in DOMAIN blocks \/ i = n
  BY <1>2
<1>6. \A i \in DOMAIN blocks : blocks[i].request \in 1 .. Len(requests) /\ blocks[i].request # r
  BY <1>1 DEF Served, Made
<1> HIDE DEF n, r
<1>7. Made'
  <2>1. 1 .. Len(requests) \subseteq 1 .. r /\ r \in 1 .. r
    BY <1>1 DEF r
  <2> QED
    BY <1>2, <1>3, <1>4, <1>5, <1>6, <2>1 DEF Made
<1>8. Unique'
  BY <1>2, <1>4, <1>5, <1>6 DEF Unique, Served
<1>9. Outstanding'
  <2> SUFFICES ASSUME NEW x \in Request
               PROVE  IF x \in 1 .. Len(requests')
                      THEN \/ /\ replies'[x] = << >>
                              /\ \E i \in DOMAIN blocks' : blocks'[i].request = x
                           \/ /\ Len(replies'[x]) = 1
                              /\ \A i \in DOMAIN blocks' : blocks'[i].request # x
                      ELSE replies'[x] = << >>
    BY DEF Outstanding
  <2>1. CASE x = r
    <3>1. replies[x] = << >>
      <4>1. x \notin 1 .. Len(requests)
        BY <1>1, <2>1 DEF r
      <4> QED
        BY <4>1 DEF Served, Outstanding
    <3>2. n \in DOMAIN blocks'
      BY <1>2 DEF n
    <3> QED
      BY <1>2, <1>4, <2>1, <3>1, <3>2
  <2>2. CASE x # r
    <3>1. x \in 1 .. Len(requests') <=> x \in 1 .. Len(requests)
      BY <1>1, <1>3, <2>2 DEF r, Request
    <3>2. DOMAIN blocks \subseteq DOMAIN blocks'
      BY <1>2 DEF n
    <3> QED
      BY <1>2, <1>4, <1>5, <2>2, <3>1, <3>2 DEF Served, Outstanding
  <2> QED
    BY <2>1, <2>2
<1>10. Faithful'
  <2> SUFFICES ASSUME NEW i \in DOMAIN blocks'
               PROVE  LET c == blocks'[i]
                          p == requests'[c.request]
                      IN  /\ c.kind = "stop" <=> p.kind = "close"
                          /\ c.port = defaultPort /\ p.kind = "open" => c.secure = p.secure
                          /\ c.kind # "start" => c.port = defaultPort
    BY DEF Faithful
  <2>1. CASE i \in DOMAIN blocks
    BY <1>2, <1>3, <1>6, <2>1 DEF Faithful
  <2>2. CASE i = n
    BY <1>2, <1>3, <1>4, <2>2 DEF AsksWith
  <2> QED
    BY <1>5, <2>1, <2>2
<1> QED
  BY <1>1, <1>2, <1>3, <1>4, <1>7, <1>8, <1>9, <1>10 DEF Served, r

LEMMA RequeuesServed ==
    ASSUME TypeOK, Served, Faithful, NEW b, Requeues(b)
    PROVE  /\ Served' /\ Faithful'
           /\ requests' \in Seq(RequestRecord) /\ blocks' \in Seq(BlockRecord)
           /\ replies' \in [Request -> Seq(BOOLEAN)]
           /\ Len(requests') <= MaxRequests
<1> DEFINE n == Len(blocks)
<1>1. /\ requests \in Seq(RequestRecord) /\ blocks \in Seq(BlockRecord)
      /\ replies \in [Request -> Seq(BOOLEAN)]
      /\ Len(requests) <= MaxRequests
  BY Types
<1>2. /\ Tail(blocks) \in Seq(BlockRecord) /\ Len(Tail(blocks)) = n - 1
      /\ DOMAIN blocks = 1 .. n /\ n \in Nat \ {0}
      /\ \A i \in 1 .. n - 1 : Tail(blocks)[i] = blocks[i + 1] /\ i + 1 \in DOMAIN blocks
      /\ Head(blocks) = blocks[1]
  BY <1>1, Removed DEF Requeues
<1>3. /\ blocks' \in Seq(BlockRecord) /\ DOMAIN blocks' = 1 .. n
      /\ \A i \in 1 .. n - 1 : blocks'[i] = blocks[i + 1] /\ i + 1 \in DOMAIN blocks
      /\ blocks'[n] = b
  <2>1. blocks' = Append(Tail(blocks), b) /\ b \in BlockRecord
    BY DEF Requeues
  <2> HIDE DEF n
  <2> QED
    BY <1>2, <2>1, Appended
<1>4. /\ b.request = blocks[1].request /\ replies' = replies /\ requests' = requests
      /\ 1 \in DOMAIN blocks
  BY <1>2 DEF Requeues
<1> HIDE DEF n
<1>5. \A i \in DOMAIN blocks' : (i \in 1 .. n - 1 /\ i + 1 # 1) \/ i = n
  BY <1>2, <1>3
<1>6. Made'
  BY <1>3, <1>4, <1>5 DEF Made, Served
<1>7. Unique'
  <2> SUFFICES ASSUME NEW i \in DOMAIN blocks', NEW j \in DOMAIN blocks',
                      blocks'[i].request = blocks'[j].request
               PROVE  i = j
    BY DEF Unique
  <2>1. CASE i \in 1 .. n - 1 /\ j \in 1 .. n - 1
    <3>1. i + 1 = j + 1
      BY <1>3, <2>1 DEF Unique, Served
    <3> QED
      BY <1>2, <2>1, <3>1
  <2>2. CASE i = n /\ j \in 1 .. n - 1 /\ j + 1 # 1
    BY <1>3, <1>4, <2>2 DEF Unique, Served
  <2>3. CASE j = n /\ i \in 1 .. n - 1 /\ i + 1 # 1
    BY <1>3, <1>4, <2>3 DEF Unique, Served
  <2> QED
    BY <1>5, <2>1, <2>2, <2>3
<1>8. \A x : (\E i \in DOMAIN blocks' : blocks'[i].request = x)
                <=> (\E i \in DOMAIN blocks : blocks[i].request = x)
  <2>1. ASSUME NEW i \in DOMAIN blocks'
        PROVE  \E j \in DOMAIN blocks : blocks[j].request = blocks'[i].request
    BY <1>3, <1>4, <1>5
  <2>2. ASSUME NEW i \in DOMAIN blocks
        PROVE  \E j \in DOMAIN blocks' : blocks'[j].request = blocks[i].request
    <3>1. CASE i = 1
      BY <1>2, <1>3, <1>4, <3>1
    <3>2. CASE i # 1
      <4>1. i - 1 \in 1 .. n - 1 /\ i - 1 \in DOMAIN blocks' /\ (i - 1) + 1 = i
        BY <1>2, <1>3, <3>2
      <4> QED
        BY <1>3, <4>1
    <3> QED
      BY <3>1, <3>2
  <2> QED
    BY <2>1, <2>2
<1>9. Outstanding'
  BY <1>4, <1>8 DEF Outstanding, Served
<1>10. Faithful'
  <2> SUFFICES ASSUME NEW i \in DOMAIN blocks'
               PROVE  LET c == blocks'[i]
                          p == requests'[c.request]
                      IN  /\ c.kind = "stop" <=> p.kind = "close"
                          /\ c.port = defaultPort /\ p.kind = "open" => c.secure = p.secure
                          /\ c.kind # "start" => c.port = defaultPort
    BY DEF Faithful
  <2>1. CASE i \in 1 .. n - 1
    BY <1>3, <1>4, <2>1 DEF Faithful
  <2>2. CASE i = n
    BY <1>2, <1>3, <1>4, <2>2 DEF Requeues, Faithful
  <2> QED
    BY <1>5, <2>1, <2>2
<1> QED
  BY <1>1, <1>3, <1>4, <1>6, <1>7, <1>9, <1>10 DEF Served

LEMMA AnswersServed ==
    ASSUME TypeOK, Served, Faithful, NEW success, Answers(success)
    PROVE  /\ Served' /\ Faithful'
           /\ requests' \in Seq(RequestRecord) /\ blocks' \in Seq(BlockRecord)
           /\ replies' \in [Request -> Seq(BOOLEAN)]
           /\ Len(requests') <= MaxRequests
           /\ replies'[Head(blocks).request] = <<success>>
           /\ Head(blocks).request \in 1 .. Len(requests)
           /\ \A x \in Request : x # Head(blocks).request => replies'[x] = replies[x]
<1> DEFINE n == Len(blocks)
           r == Head(blocks).request
<1>1. /\ requests \in Seq(RequestRecord) /\ blocks \in Seq(BlockRecord)
      /\ replies \in [Request -> Seq(BOOLEAN)]
      /\ Len(requests) <= MaxRequests /\ Len(requests) \in Nat
  BY Types
<1>2. /\ blocks' \in Seq(BlockRecord)
      /\ DOMAIN blocks = 1 .. n /\ n \in Nat \ {0}
      /\ DOMAIN blocks' = 1 .. n - 1
      /\ \A i \in DOMAIN blocks' : blocks'[i] = blocks[i + 1] /\ i + 1 \in DOMAIN blocks
      /\ Head(blocks) = blocks[1] /\ 1 \in DOMAIN blocks
      /\ Head(blocks) \in BlockRecord
  BY <1>1, Removed DEF Answers
<1>3. r \in 1 .. Len(requests) /\ r \in Request /\ r = blocks[1].request
  BY <1>2 DEF Served, Made, BlockRecord
<1>4. /\ requests' = requests
      /\ replies' = [replies EXCEPT ![r] = Append(@, success)]
      /\ success \in BOOLEAN
  BY DEF Answers, Reply
<1> HIDE DEF n, r
<1>5. replies[r] = << >>
  BY <1>2, <1>3 DEF Served, Outstanding
<1>6. /\ replies' \in [Request -> Seq(BOOLEAN)]
      /\ replies'[r] = <<success>>
      /\ \A x \in Request : x # r => replies'[x] = replies[x]
  BY <1>1, <1>3, <1>4, <1>5
<1>7. \A i \in DOMAIN blocks' : blocks'[i].request # r
  <2> SUFFICES ASSUME NEW i \in DOMAIN blocks', blocks'[i].request = r PROVE FALSE
    OBVIOUS
  <2>1. i + 1 = 1
    BY <1>2, <1>3 DEF Served, Unique
  <2> QED
    BY <1>2, <2>1
<1>8. Made'
  BY <1>2, <1>4 DEF Made, Served
<1>9. Unique'
  <2> SUFFICES ASSUME NEW i \in DOMAIN blocks', NEW j \in DOMAIN blocks',
                      blocks'[i].request = blocks'[j].request
               PROVE  i = j
    BY DEF Unique
  <2>1. i + 1 = j + 1
    BY <1>2 DEF Unique, Served
  <2> QED
    BY <1>2, <2>1
<1>10. \A x : x # r =>
            ((\E i \in DOMAIN blocks' : blocks'[i].request = x)
                <=> (\E i \in DOMAIN blocks : blocks[i].request = x))
  <2>1. ASSUME NEW i \in DOMAIN blocks, blocks[i].request # r
        PROVE  \E j \in DOMAIN blocks' : blocks'[j].request = blocks[i].request
    <3>1. i # 1
      BY <1>3, <2>1
    <3>2. i - 1 \in DOMAIN blocks' /\ (i - 1) + 1 = i
      BY <1>2, <3>1
    <3> QED
      BY <1>2, <3>2
  <2> QED
    BY <1>2, <2>1
<1>11. Outstanding'
  <2> SUFFICES ASSUME NEW x \in Request
               PROVE  IF x \in 1 .. Len(requests)
                      THEN \/ /\ replies'[x] = << >>
                              /\ \E i \in DOMAIN blocks' : blocks'[i].request = x
                           \/ /\ Len(replies'[x]) = 1
                              /\ \A i \in DOMAIN blocks' : blocks'[i].request # x
                      ELSE replies'[x] = << >>
    BY <1>4 DEF Outstanding
  <2>1. CASE x = r
    BY <1>3, <1>6, <1>7, <2>1
  <2>2. CASE x # r
    BY <1>6, <1>10, <2>2 DEF Served, Outstanding
  <2> QED
    BY <2>1, <2>2
<1>12. Faithful'
  BY <1>2, <1>4 DEF Faithful
<1> QED
  BY <1>1, <1>2, <1>3, <1>4, <1>6, <1>8, <1>9, <1>11, <1>12 DEF Served, r

-----------------------------------------------------------------------------
(* Every step keeps Sound.                                                 *)

LEMMA InitSound == Init => Sound
<1> SUFFICES ASSUME Init PROVE Sound
  OBVIOUS
<1>1. TypeOK
  <2>1. Len(ports) - 1 \in Nat /\ foreign \in SUBSET Port
    BY Ports, LocalHttpServerAssumption DEF Init
  <2>2. defaultPort \in Port
    BY DEF defaultPort, Port
  <2>3. servers \in [Server -> ServerRecord]
    BY <2>2 DEF Init, NoServer, ServerRecord, State
  <2> QED
    BY <2>1, <2>3, Ports, LocalHttpServerAssumption, TypesHold DEF Init
<1>2. Served /\ Faithful /\ AtWork
  BY LocalHttpServerAssumption
  DEF Init, Served, Made, Unique, Outstanding, Faithful, AtWork, Request
<1> QED
  BY <1>1, <1>2 DEF Sound

\* What making a request leaves alone.
LEMMA AsksSound ==
    ASSUME Sound, NEW b, NEW q, AsksWith(b, q), Len(requests) < MaxRequests,
           UNCHANGED <<running, servers, httpServer, portIndex, foreign>>
    PROVE  Sound'
<1> USE DEF Sound
<1>1. /\ Served' /\ Faithful'
      /\ requests' \in Seq(RequestRecord) /\ blocks' \in Seq(BlockRecord)
      /\ replies' \in [Request -> Seq(BOOLEAN)]
      /\ Len(requests') <= MaxRequests
  BY AsksServed
<1>2. TypeOK'
  BY <1>1, TypesHoldNext, Types DEF TypeOK
<1>3. AtWork'
  <2>1. blocks' # << >> /\ (blocks # << >> => Head(blocks') = Head(blocks))
    BY Types, Appended DEF AsksWith
  <2> QED
    BY <2>1 DEF AtWork
<1> QED
  BY <1>1, <1>2, <1>3

LEMMA openIsAsked ==
    ASSUME TypeOK, NEW secure \in Settings, openWebSocketServer(secure)
    PROVE  \E b, q :
              /\ AsksWith(b, q) /\ Len(requests) < MaxRequests
              /\ b.kind = IF isServerActive THEN "restart" ELSE "start"
              /\ q.kind = "open" /\ q.waited = (Pending = {})
<1> DEFINE b == IF isServerActive THEN StopBlock(ThisRequest, secure, TRUE)
                ELSE StartBlock(ThisRequest, secure, defaultPort)
           q == [kind |-> "open", secure |-> secure, waited |-> Pending = {}]
<1>1. secure \in BOOLEAN /\ (Pending = {}) \in BOOLEAN
  BY LocalHttpServerAssumption
<1>2. defaultPort \in Port /\ ThisRequest \in Request
  BY Types DEF defaultPort, Port, ThisRequest, Request, openWebSocketServer, Asks
<1>3. b \in BlockRecord /\ q \in RequestRecord
  BY <1>1, <1>2 DEF BlockRecord, RequestRecord, StopBlock, StartBlock
<1>4. /\ b.request = Len(requests) + 1 /\ b.kind # "stop" /\ b.port = defaultPort
      /\ b.kind = IF isServerActive THEN "restart" ELSE "start"
      /\ b.secure = q.secure /\ q.kind = "open" /\ q.waited = (Pending = {})
  BY DEF StopBlock, StartBlock, ThisRequest
<1>5. /\ requests' = Append(requests, q) /\ blocks' = Append(blocks, b)
      /\ replies' = replies /\ Len(requests) < MaxRequests
  BY DEF openWebSocketServer, Asks
<1> HIDE DEF b, q
<1> QED
  BY <1>3, <1>4, <1>5 DEF AsksWith

LEMMA closeIsAsked ==
    ASSUME TypeOK, closeWebSocketServer
    PROVE  \E b, q :
              /\ AsksWith(b, q) /\ Len(requests) < MaxRequests
              /\ b.kind = "stop"
              /\ q.kind = "close" /\ q.waited = (Pending = {})
<1> DEFINE b == StopBlock(ThisRequest, FALSE, FALSE)
           q == [kind |-> "close", secure |-> FALSE, waited |-> Pending = {}]
<1>1. (Pending = {}) \in BOOLEAN
  OBVIOUS
<1>2. defaultPort \in Port /\ ThisRequest \in Request
  BY Types DEF defaultPort, Port, ThisRequest, Request, closeWebSocketServer, Asks
<1>3. b \in BlockRecord /\ q \in RequestRecord
  BY <1>1, <1>2 DEF BlockRecord, RequestRecord, StopBlock
<1>4. /\ b.request = Len(requests) + 1 /\ b.kind = "stop" /\ b.port = defaultPort
      /\ q.kind = "close" /\ q.waited = (Pending = {})
  BY DEF StopBlock, ThisRequest
<1>5. /\ requests' = Append(requests, q) /\ blocks' = Append(blocks, b)
      /\ replies' = replies /\ Len(requests) < MaxRequests
  BY DEF closeWebSocketServer, Asks
<1> HIDE DEF b, q
<1> QED
  BY <1>3, <1>4, <1>5 DEF AsksWith

\* The end of a block, with an answer or with another block.
LEMMA EndsSound ==
    ASSUME Sound,
           \/ \E success : Answers(success)
           \/ \E b : Requeues(b),
           running' = "idle",
           servers' \in [Server -> ServerRecord],
           httpServer' \in Server \cup {Nil},
           portIndex' \in 0 .. Len(ports) - 1,
           foreign' = foreign
    PROVE  Sound'
<1> USE DEF Sound
<1>1. /\ Served' /\ Faithful'
      /\ requests' \in Seq(RequestRecord) /\ blocks' \in Seq(BlockRecord)
      /\ replies' \in [Request -> Seq(BOOLEAN)]
      /\ Len(requests') <= MaxRequests
  BY AnswersServed, RequeuesServed
<1>2. foreign' \in SUBSET Port
  BY DEF TypeOK
<1>3. TypeOK'
  BY <1>1, <1>2, TypesHoldNext
<1>4. AtWork'
  BY DEF AtWork
<1> QED
  BY <1>1, <1>3, <1>4

\* The head of the queue is a block, and has a place in it.
LEMMA HeadBlock ==
    ASSUME Sound, blocks # << >>
    PROVE  /\ Block \in BlockRecord
           /\ Block.request \in 1 .. Len(requests) /\ Block.request \in Request
           /\ Block.kind = "stop" <=> requests[Block.request].kind = "close"
           /\ Block.port = defaultPort /\ requests[Block.request].kind = "open"
                 => Block.secure = requests[Block.request].secure
           /\ Block.kind # "start" => Block.port = defaultPort
           /\ requests[Block.request] \in RequestRecord
<1>1. blocks \in Seq(BlockRecord) /\ requests \in Seq(RequestRecord) /\ Len(requests) \in Nat
  BY Types DEF Sound
<1>2. Head(blocks) = blocks[1] /\ 1 \in DOMAIN blocks /\ Head(blocks) \in BlockRecord
  BY <1>1, Removed
<1>3. Block.request \in 1 .. Len(requests)
  BY <1>2 DEF Block, Sound, Served, Made
<1>4. Block.request \in Request
  BY <1>2 DEF Block, BlockRecord
<1>5. requests[Block.request] \in RequestRecord
  BY <1>1, <1>3
<1> QED
  BY <1>2, <1>3, <1>4, <1>5 DEF Block, Sound, Faithful

LEMMA StartCreateSound == Sound /\ StartCreate => Sound'
<1> SUFFICES ASSUME Sound, StartCreate PROVE Sound'
  OBVIOUS
<1> USE DEF Sound
<1>1. /\ blocks # << >> /\ Block.kind = "start"
      /\ requests' = requests /\ replies' = replies /\ blocks' = blocks
      /\ running' = "binding" /\ portIndex' = portIndex /\ foreign' = foreign
      /\ httpServer' = <<Block.request, Block.port>>
      /\ servers' = [servers EXCEPT ![httpServer'] =
                       [state |-> "created", port |-> Block.port, secure |-> Block.secure]]
  BY DEF StartCreate, Runs
<1>2. Block.request \in Request /\ Block.port \in Port /\ Block.secure \in BOOLEAN
  BY <1>1, HeadBlock DEF BlockRecord
<1>3. httpServer' \in Server
  BY <1>1, <1>2 DEF Server
<1>4. /\ servers' \in [Server -> ServerRecord]
      /\ servers'[httpServer'].port = Block.port
      /\ servers'[httpServer'].secure = Block.secure
  BY <1>1, <1>2, <1>3, Types DEF ServerRecord, State
<1>5. TypeOK'
  <2>1. /\ requests' \in Seq(RequestRecord) /\ Len(requests') <= MaxRequests
        /\ replies' \in [Request -> Seq(BOOLEAN)] /\ blocks' \in Seq(BlockRecord)
    BY <1>1, Types
  <2>2. portIndex' \in 0 .. Len(ports) - 1 /\ foreign' \in SUBSET Port
    BY <1>1 DEF TypeOK
  <2> QED
    BY <1>1, <1>3, <1>4, <2>1, <2>2, TypesHoldNext
<1>6. Served' /\ Faithful'
  BY <1>1 DEF Served, Made, Unique, Outstanding, Faithful
<1>7. AtWork'
  BY <1>1, <1>3, <1>4 DEF AtWork, Block
<1> QED
  BY <1>5, <1>6, <1>7

\* What the outcomes of bind have in common.
LEMMA BindEnds ==
    ASSUME Sound, BindSucceeds \/ BindFails \/ BindRetries \/ BindGivesUp
    PROVE  /\ blocks # << >> /\ Block.kind = "start" /\ httpServer \in Server
           /\ servers[httpServer].port = Block.port
           /\ servers[httpServer].secure = Block.secure
           /\ running' = "idle" /\ requests' = requests
           /\ httpServer' = httpServer /\ foreign' = foreign
           /\ portIndex' \in 0 .. Len(ports) - 1
           /\ BindSucceeds => Becomes("listening") /\ Answers(TRUE)
           /\ BindFails \/ BindGivesUp => Becomes("failed") /\ Answers(FALSE)
           /\ BindRetries => /\ Becomes("failed")
                             /\ Requeues(StartBlock(Block.request, FALSE, ports[portIndex' + 1]))
<1>1. blocks # << >> /\ Block.kind = "start" /\ running = "binding"
  BY DEF BindSucceeds, BindFails, BindRetries, BindGivesUp, Runs
<1>2. /\ httpServer \in Server
      /\ servers[httpServer].port = Block.port
      /\ servers[httpServer].secure = Block.secure
  BY <1>1 DEF Sound, AtWork, Block
<1>3. portIndex \in 0 .. Len(ports) - 1
  BY DEF Sound, TypeOK
<1>4. /\ running' = "idle" /\ requests' = requests
      /\ httpServer' = httpServer /\ foreign' = foreign
      /\ portIndex' \in 0 .. Len(ports) - 1
  <2>1. CASE BindSucceeds
    BY <1>3, <2>1 DEF BindSucceeds
  <2>2. CASE BindFails
    BY <1>3, <2>2 DEF BindFails
  <2>3. CASE BindRetries
    <3>1. portIndex' = portIndex + 1 /\ portIndex + 1 < Len(ports)
      BY <2>3 DEF BindRetries
    <3> QED
      BY <1>3, <2>3, <3>1, Ports DEF BindRetries
  <2>4. CASE BindGivesUp
    <3>1. portIndex' = 0
      BY <2>4 DEF BindGivesUp
    <3> QED
      BY <2>4, <3>1, Ports DEF BindGivesUp
  <2> QED
    BY <2>1, <2>2, <2>3, <2>4
<1>5. BindSucceeds => Becomes("listening") /\ Answers(TRUE)
  BY <1>1 DEF BindSucceeds, Answers, Block
<1>6. BindFails \/ BindGivesUp => Becomes("failed") /\ Answers(FALSE)
  BY <1>1 DEF BindFails, BindGivesUp, Answers, Block
<1>7. ASSUME BindRetries
      PROVE  /\ Becomes("failed")
             /\ Requeues(StartBlock(Block.request, FALSE, ports[portIndex' + 1]))
  <2>1. ports[portIndex' + 1] = 2048
    BY <1>3, <1>7, Ports DEF BindRetries
  <2>2. Block.request \in Request
    BY <1>1, HeadBlock
  <2>3. StartBlock(Block.request, FALSE, 2048) \in BlockRecord
    BY <2>2 DEF StartBlock, BlockRecord, Port
  <2> QED
    BY <1>1, <1>7, <2>1, <2>3 DEF BindRetries, Requeues, Block, StartBlock, defaultPort
<1> QED
  BY <1>1, <1>2, <1>4, <1>5, <1>6, <1>7

LEMMA BindSound ==
    ASSUME Sound, BindSucceeds \/ BindFails \/ BindRetries \/ BindGivesUp
    PROVE  Sound'
<1>1. \E state \in State : Becomes(state)
  BY BindEnds DEF State
<1>2. servers' \in [Server -> ServerRecord]
  BY <1>1, BindEnds, BecomesState DEF Sound
<1>3. \/ \E success : Answers(success)
      \/ \E b : Requeues(b)
  BY BindEnds
<1>4. httpServer' \in Server \cup {Nil}
  BY BindEnds
<1> QED
  BY <1>2, <1>3, <1>4, BindEnds, EndsSound

LEMMA StopChannelSound == Sound /\ StopChannel => Sound'
<1> SUFFICES ASSUME Sound, StopChannel PROVE Sound'
  OBVIOUS
<1> USE DEF Sound
<1>1. /\ blocks # << >> /\ Block.kind # "start"
      /\ requests' = requests /\ replies' = replies /\ blocks' = blocks
      /\ running' = "stopping" /\ portIndex' = portIndex /\ foreign' = foreign
      /\ httpServer' = httpServer
  BY DEF StopChannel, Runs
<1>2. servers' \in [Server -> ServerRecord]
  <2>1. CASE isServerActive
    <3>1. httpServer \in Server /\ Becomes("closed") /\ "closed" \in State
      BY <2>1 DEF StopChannel, isServerActive, TypeOK, State
    <3> QED
      BY <3>1, BecomesState
  <2>2. CASE ~isServerActive
    BY <2>2, Types DEF StopChannel
  <2> QED
    BY <2>1, <2>2
<1>3. TypeOK'
  <2>1. /\ requests' \in Seq(RequestRecord) /\ Len(requests') <= MaxRequests
        /\ replies' \in [Request -> Seq(BOOLEAN)] /\ blocks' \in Seq(BlockRecord)
    BY <1>1, Types
  <2>2. /\ portIndex' \in 0 .. Len(ports) - 1 /\ foreign' \in SUBSET Port
        /\ httpServer' \in Server \cup {Nil}
    BY <1>1 DEF TypeOK
  <2> QED
    BY <1>1, <1>2, <2>1, <2>2, TypesHoldNext
<1>4. Served' /\ Faithful'
  BY <1>1 DEF Served, Made, Unique, Outstanding, Faithful
<1>5. AtWork'
  BY <1>1 DEF AtWork, Block
<1> QED
  BY <1>3, <1>4, <1>5

\* What the outcomes of stopServer have in common: a stop is answered, a
\* restart goes on to a start.
LEMMA StopEnds ==
    ASSUME Sound, NEW success \in BOOLEAN, Runs("stopping", {"stop", "restart"}),
           StopCompletes(success), requests' = requests
    PROVE  \/ Block.kind = "stop" /\ Answers(success)
           \/ /\ Block.kind = "restart"
              /\ Requeues(StartBlock(Block.request, Block.secure, defaultPort))
<1>1. blocks # << >> /\ Block.kind \in {"stop", "restart"}
  BY DEF Runs
<1>2. CASE Block.kind = "restart"
  <2>1. /\ Block.request \in Request /\ Block.secure \in BOOLEAN
        /\ Block.port = defaultPort
    BY <1>1, <1>2, HeadBlock DEF BlockRecord
  <2>2. StartBlock(Block.request, Block.secure, defaultPort) \in BlockRecord
    BY <2>1 DEF StartBlock, BlockRecord, Port, defaultPort
  <2>3. /\ blocks' = Append(Tail(blocks), StartBlock(Block.request, Block.secure, defaultPort))
        /\ replies' = replies
    BY <1>2 DEF StopCompletes
  <2>4. /\ StartBlock(Block.request, Block.secure, defaultPort).request = Block.request
        /\ StartBlock(Block.request, Block.secure, defaultPort).kind = "start"
        /\ StartBlock(Block.request, Block.secure, defaultPort).secure = Block.secure
    BY DEF StartBlock
  <2> QED
    BY <1>1, <1>2, <2>1, <2>2, <2>3, <2>4 DEF Requeues, Block
<1>3. CASE Block.kind = "stop"
  BY <1>1, <1>3 DEF StopCompletes, Answers, Block
<1> QED
  BY <1>1, <1>2, <1>3

LEMMA StopSound ==
    ASSUME Sound, StopSucceeds \/ StopFails
    PROVE  Sound'
<1>1. \/ \E success : Answers(success)
      \/ \E b : Requeues(b)
  BY StopEnds DEF StopSucceeds, StopFails
<1>2. servers' \in [Server -> ServerRecord]
  <2>1. CASE servers' = servers
    BY <2>1, Types DEF Sound
  <2>2. CASE httpServer # Nil /\ Becomes("stopped")
    BY <2>2, BecomesState DEF Sound, TypeOK, State
  <2> QED
    BY <2>1, <2>2 DEF StopSucceeds, StopFails
<1>3. /\ running' = "idle" /\ foreign' = foreign
      /\ httpServer' \in Server \cup {Nil}
      /\ portIndex' \in 0 .. Len(ports) - 1
  BY DEF StopSucceeds, StopFails, Sound, TypeOK
<1> QED
  BY <1>1, <1>2, <1>3, EndsSound

LEMMA OtherSound == ASSUME Sound, NEW p \in Others, OtherProgram(p) PROVE Sound'
<1> USE DEF Sound
<1>1. /\ requests' = requests /\ replies' = replies /\ blocks' = blocks
      /\ running' = running /\ servers' = servers /\ httpServer' = httpServer
      /\ portIndex' = portIndex
  BY DEF OtherProgram
<1>2. foreign' \in SUBSET Port
  BY LocalHttpServerAssumption DEF OtherProgram, TypeOK
<1>3. TypeOK'
  BY <1>1, <1>2 DEF TypeOK
<1>4. Served' /\ Faithful' /\ AtWork'
  BY <1>1 DEF Served, Made, Unique, Outstanding, Faithful, AtWork
<1> QED
  BY <1>3, <1>4

LEMMA NextSound == Sound /\ [Next]_vars => Sound'
<1> SUFFICES ASSUME Sound, [Next]_vars PROVE Sound'
  OBVIOUS
<1>1. ASSUME NEW secure \in Settings, openWebSocketServer(secure) PROVE Sound'
  BY <1>1, openIsAsked, AsksSound DEF Sound, openWebSocketServer
<1>2. CASE closeWebSocketServer
  BY <1>2, closeIsAsked, AsksSound DEF Sound, closeWebSocketServer
<1>3. CASE QueueStep
  BY <1>3, StartCreateSound, BindSound, StopChannelSound, StopSound DEF QueueStep
<1>4. ASSUME NEW p \in Others, OtherProgram(p) PROVE Sound'
  BY <1>4, OtherSound
<1>5. CASE UNCHANGED vars
  BY <1>5 DEF vars, Sound, TypeOK, Served, Made, Unique, Outstanding, Faithful, AtWork
<1> QED
  BY <1>1, <1>2, <1>3, <1>4, <1>5 DEF Next

LEMMA AlwaysSound == Spec => []Sound
  BY InitSound, NextSound, PTL DEF Spec

-----------------------------------------------------------------------------
(* A user who waits for answers.                                           *)

LEMMA InitCalm == Init => Calm /\ CloseCloses
  BY DEF Init, Calm, CloseCloses, NoneListens, NoServer

\* A user who has waited so far and waits now has nothing queued.
LEMMA AsksCalm ==
    ASSUME Sound, Calm, CloseCloses, NEW b, NEW q, AsksWith(b, q),
           q.waited = (Pending = {}),
           b.kind = "start" => ~isServerActive,
           UNCHANGED <<running, servers, httpServer>>
    PROVE  Calm' /\ CloseCloses'
<1> SUFFICES ASSUME Patiently' PROVE Calm' /\ CloseCloses'
  BY DEF Calm, CloseCloses
<1>1. /\ requests \in Seq(RequestRecord) /\ blocks \in Seq(BlockRecord)
      /\ Len(requests) \in Nat
  BY Types DEF Sound
<1>2. /\ requests' = Append(requests, q) /\ blocks' = Append(blocks, b)
      /\ q \in RequestRecord /\ b \in BlockRecord /\ b.request = Len(requests) + 1
  BY DEF AsksWith
<1>3. /\ Len(requests') = Len(requests) + 1
      /\ \A i \in 1 .. Len(requests) : requests'[i] = requests[i]
      /\ requests'[Len(requests) + 1] = q
  BY <1>1, <1>2, Appended
<1>4. Patiently
  BY <1>1, <1>3 DEF Patiently
<1>5. Pending = {}
  <2>1. Len(requests) + 1 \in 1 .. Len(requests')
    BY <1>1, <1>3
  <2> QED
    BY <1>3, <2>1 DEF Patiently
<1>6. blocks = << >>
  <2> SUFFICES ASSUME blocks # << >> PROVE FALSE
    OBVIOUS
  <2>1. Block.request \in 1 .. Len(requests) /\ Block.request \in Request
    BY HeadBlock
  <2>2. 1 \in DOMAIN blocks /\ Head(blocks) = blocks[1]
    BY <1>1, Removed
  <2>3. replies[Block.request] = << >>
    BY <2>1, <2>2 DEF Block, Sound, Served, Outstanding
  <2> QED
    BY <1>5, <2>1, <2>3 DEF Pending
<1>7. /\ blocks' # << >> /\ Len(blocks') = 1 /\ Head(blocks') = b
  BY <1>1, <1>2, <1>6, Appended
<1>8. running = "idle"
  BY <1>6 DEF Sound, AtWork
<1>9. \A s \in Server : servers[s].state = "listening" => httpServer = s
  BY <1>4 DEF Calm
<1>10. b.kind = "start" => NoneListens
  <2> SUFFICES ASSUME ~isServerActive, NEW s \in Server, servers[s].state = "listening"
               PROVE  FALSE
    BY DEF NoneListens
  <2>1. httpServer = s /\ s # Nil
    BY <1>9, NotNil
  <2> QED
    BY <2>1 DEF isServerActive
<1>11. Calm'
  BY <1>2, <1>3, <1>7, <1>8, <1>9, <1>10 DEF Calm, NoneListens
<1>12. CloseCloses'
  BY <1>7 DEF CloseCloses
<1> QED
  BY <1>11, <1>12

\* Requests that do not change keep the user patient or impatient.
LEMMA SamePatience == ASSUME requests' = requests PROVE Patiently' <=> Patiently
  BY DEF Patiently

LEMMA Impatiently == ASSUME ~Patiently' PROVE Calm' /\ CloseCloses'
  BY DEF Calm, CloseCloses

LEMMA StartCreateCalm == Sound /\ Calm /\ StartCreate => Calm' /\ CloseCloses'
<1> SUFFICES ASSUME Sound, Calm, StartCreate PROVE Calm' /\ CloseCloses'
  OBVIOUS
<1>1. /\ blocks # << >> /\ Block.kind = "start"
      /\ requests' = requests /\ blocks' = blocks /\ running' = "binding"
      /\ servers' = [servers EXCEPT ![httpServer'] =
                       [state |-> "created", port |-> Block.port, secure |-> Block.secure]]
  BY DEF StartCreate, Runs
<1>2. ASSUME NoneListens PROVE NoneListens'
  <2>1. \A s \in Server : servers'[s] = servers[s] \/ servers'[s].state = "created"
    BY <1>1, Types DEF Sound
  <2> QED
    BY <1>2, <2>1 DEF NoneListens
<1>3. Patiently => NoneListens
  BY <1>1 DEF Calm, Block
<1>4. Calm'
  BY <1>1, <1>2, <1>3, SamePatience DEF Calm, NoneListens
<1>5. CloseCloses'
  BY <1>1 DEF CloseCloses
<1> QED
  BY <1>4, <1>5

\* The one block there is ends: what queue is left.
LEMMA EndsCalm ==
    ASSUME Sound, Calm, Patiently, blocks # << >>
    PROVE  /\ Tail(blocks) = << >>
           /\ Block.request = Len(requests)
           /\ \A b \in BlockRecord : /\ Append(Tail(blocks), b) # << >>
                                     /\ Len(Append(Tail(blocks), b)) = 1
                                     /\ Head(Append(Tail(blocks), b)) = b
<1>1. blocks \in Seq(BlockRecord)
  BY Types DEF Sound
<1>2. Len(blocks) <= 1 /\ Block.request = Len(requests)
  BY DEF Calm, Block
<1>3. /\ Tail(blocks) \in Seq(BlockRecord)
      /\ Len(Tail(blocks)) = Len(blocks) - 1 /\ Len(blocks) \in Nat \ {0}
  BY <1>1, Removed
<1>4. Len(Tail(blocks)) = 0
  BY <1>2, <1>3
<1>5. Tail(blocks) = << >>
  BY <1>3, <1>4, Empty
<1>6. ASSUME NEW b \in BlockRecord
      PROVE  /\ Append(Tail(blocks), b) # << >>
             /\ Len(Append(Tail(blocks), b)) = 1
             /\ Head(Append(Tail(blocks), b)) = b
  BY <1>3, <1>4, <1>5, Appended
<1> QED
  BY <1>2, <1>5, <1>6

LEMMA BindCalm ==
    ASSUME Sound, Calm, BindSucceeds \/ BindFails \/ BindRetries \/ BindGivesUp
    PROVE  Calm' /\ CloseCloses'
<1>1. /\ blocks # << >> /\ Block.kind = "start" /\ httpServer \in Server
      /\ running' = "idle" /\ requests' = requests /\ httpServer' = httpServer
  BY BindEnds
<1> SUFFICES ASSUME Patiently PROVE Calm' /\ CloseCloses'
  BY Zenon, <1>1, SamePatience, Impatiently
<1>2. NoneListens
  BY <1>1 DEF Calm, Block
<1>3. /\ Tail(blocks) = << >>
      /\ Block.request = Len(requests)
      /\ \A b \in BlockRecord : /\ Append(Tail(blocks), b) # << >>
                                /\ Len(Append(Tail(blocks), b)) = 1
                                /\ Head(Append(Tail(blocks), b)) = b
  BY <1>1, EndsCalm
<1>4. requests[Len(requests)].kind = "open"
  BY <1>1, <1>3, HeadBlock DEF RequestRecord
<1>5. CASE BindSucceeds
  <2>1. Becomes("listening") /\ blocks' = << >>
    BY <1>3, <1>5, BindEnds DEF Answers
  <2>2. \A s \in Server : s # httpServer => servers'[s].state # "listening"
    BY <1>1, <1>2, <2>1, BecomesState DEF NoneListens, State, Sound
  <2>3. Calm'
    BY <1>1, <2>1, <2>2 DEF Calm
  <2>4. CloseCloses'
    BY <1>1, <1>4 DEF CloseCloses
  <2> QED
    BY <2>3, <2>4
<1>6. CASE BindFails \/ BindGivesUp
  <2>1. Becomes("failed") /\ blocks' = << >>
    BY <1>3, <1>6, BindEnds DEF Answers
  <2>2. NoneListens'
    BY <1>1, <1>2, <2>1, StillNoneListens DEF State, Sound
  <2>3. Calm'
    BY <1>1, <2>1, <2>2 DEF Calm, NoneListens
  <2>4. CloseCloses'
    BY <2>2 DEF CloseCloses, NoneListens
  <2> QED
    BY <2>3, <2>4
<1>7. CASE BindRetries
  <2>1. Becomes("failed")
    BY <1>7, BindEnds
  <2>2. NoneListens'
    BY <1>1, <1>2, <2>1, StillNoneListens DEF State, Sound
  <2>3. PICK b \in BlockRecord : b.request = Block.request /\ blocks' = Append(Tail(blocks), b)
    BY <1>7, BindEnds DEF Requeues, Block
  <2>4. blocks' # << >> /\ Len(blocks') = 1 /\ Head(blocks').request = Len(requests)
    BY <1>3, <2>3
  <2>5. Calm'
    BY <1>1, <2>2, <2>4 DEF Calm, NoneListens
  <2>6. CloseCloses'
    BY <2>2 DEF CloseCloses, NoneListens
  <2> QED
    BY <2>5, <2>6
<1> QED
  BY <1>5, <1>6, <1>7

LEMMA StopChannelCalm == Sound /\ Calm /\ StopChannel => Calm' /\ CloseCloses'
<1> SUFFICES ASSUME Sound, Calm, StopChannel PROVE Calm' /\ CloseCloses'
  OBVIOUS
<1>1. /\ blocks # << >> /\ requests' = requests /\ blocks' = blocks
      /\ httpServer' = httpServer /\ running' = "stopping"
      /\ Block.kind # "start"
  BY DEF StopChannel, Runs
<1>2. Patiently => NoneListens'
  <2> SUFFICES ASSUME Patiently PROVE NoneListens'
    OBVIOUS
  <2>1. \A s \in Server : servers[s].state = "listening" => httpServer = s
    BY DEF Calm
  <2>2. CASE isServerActive
    <3>1. httpServer \in Server /\ Becomes("closed") /\ "closed" \in State
      BY <2>2 DEF StopChannel, isServerActive, Sound, TypeOK, State
    <3>2. /\ servers'[httpServer].state = "closed"
          /\ \A s \in Server : s # httpServer => servers'[s] = servers[s]
      BY <3>1, BecomesState DEF Sound
    <3> QED
      BY <2>1, <3>2 DEF NoneListens
  <2>3. CASE ~isServerActive
    <3>1. servers' = servers
      BY <2>3 DEF StopChannel
    <3> QED
      BY <2>1, <2>3, <3>1, NotNil DEF NoneListens, isServerActive
  <2> QED
    BY <2>2, <2>3
<1>3. Calm'
  BY <1>1, <1>2, SamePatience DEF Calm, NoneListens, Block
<1>4. CloseCloses'
  BY <1>1 DEF CloseCloses
<1> QED
  BY <1>3, <1>4

LEMMA StopCalm ==
    ASSUME Sound, Calm, StopSucceeds \/ StopFails
    PROVE  Calm' /\ CloseCloses'
<1>1. /\ blocks # << >> /\ running = "stopping" /\ running' = "idle"
      /\ requests' = requests
  BY DEF StopSucceeds, StopFails, Runs
<1> SUFFICES ASSUME Patiently PROVE Calm' /\ CloseCloses'
  BY Zenon, <1>1, SamePatience, Impatiently
<1>2. NoneListens
  BY <1>1 DEF Calm
<1>3. NoneListens'
  <2>1. CASE servers' = servers
    BY <1>2, <2>1 DEF NoneListens
  <2>2. CASE httpServer # Nil /\ Becomes("stopped")
    BY <1>2, <2>2, StillNoneListens DEF Sound, TypeOK, State
  <2> QED
    BY <2>1, <2>2 DEF StopSucceeds, StopFails
<1>4. /\ Tail(blocks) = << >>
      /\ Block.request = Len(requests)
      /\ \A b \in BlockRecord : /\ Append(Tail(blocks), b) # << >>
                                /\ Len(Append(Tail(blocks), b)) = 1
                                /\ Head(Append(Tail(blocks), b)) = b
  BY <1>1, EndsCalm
<1>5. \/ blocks' = Tail(blocks)
      \/ \E b \in BlockRecord : b.request = Block.request /\ blocks' = Append(Tail(blocks), b)
  BY StopEnds DEF StopSucceeds, StopFails, Answers, Requeues, Block
<1>6. Len(blocks') <= 1 /\ (blocks' # << >> => Head(blocks').request = Len(requests))
  <2>1. CASE blocks' = Tail(blocks)
    <3>1. blocks' = << >> /\ Len(blocks') = 0
      BY <1>4, <2>1
    <3> QED
      BY <3>1
  <2>2. ASSUME NEW b \in BlockRecord, b.request = Block.request,
               blocks' = Append(Tail(blocks), b)
        PROVE  Len(blocks') <= 1 /\ Head(blocks').request = Len(requests)
    <3>1. Len(blocks') = 1 /\ Head(blocks') = b
      BY <1>4, <2>2
    <3> QED
      BY <1>4, <2>2, <3>1
  <2> QED
    BY <1>5, <2>1, <2>2
<1> QED
  BY <1>1, <1>3, <1>6 DEF Calm, CloseCloses, NoneListens

LEMMA NextCalm == IInv /\ [Next]_vars => Calm' /\ CloseCloses'
<1> SUFFICES ASSUME Sound, Calm, CloseCloses, [Next]_vars PROVE Calm' /\ CloseCloses'
  BY DEF IInv
<1>1. ASSUME NEW secure \in Settings, openWebSocketServer(secure) PROVE Calm' /\ CloseCloses'
  <2>1. PICK b, q :
           /\ AsksWith(b, q)
           /\ b.kind = IF isServerActive THEN "restart" ELSE "start"
           /\ q.waited = (Pending = {})
    BY <1>1, openIsAsked DEF Sound
  <2>2. b.kind = "start" => ~isServerActive
    BY <2>1
  <2> QED
    BY <1>1, <2>1, <2>2, AsksCalm DEF openWebSocketServer
<1>2. CASE closeWebSocketServer
  <2>1. PICK b, q : AsksWith(b, q) /\ b.kind = "stop" /\ q.waited = (Pending = {})
    BY <1>2, closeIsAsked DEF Sound
  <2> QED
    BY <1>2, <2>1, AsksCalm DEF closeWebSocketServer
<1>3. CASE QueueStep
  BY <1>3, StartCreateCalm, BindCalm, StopChannelCalm, StopCalm DEF QueueStep
<1>4. ASSUME NEW p \in Others, OtherProgram(p) PROVE Calm' /\ CloseCloses'
  BY <1>4 DEF OtherProgram, Calm, CloseCloses, Patiently, NoneListens
<1>5. CASE UNCHANGED vars
  BY <1>5 DEF vars, Calm, CloseCloses, Patiently, NoneListens
<1> QED
  BY <1>1, <1>2, <1>3, <1>4, <1>5 DEF Next

LEMMA Invariant == Spec => []IInv
<1>1. Init => IInv
  BY InitSound, InitCalm DEF IInv
<1>2. IInv /\ [Next]_vars => IInv'
  BY NextSound, NextCalm DEF IInv
<1> QED
  BY <1>1, <1>2, PTL DEF Spec

-----------------------------------------------------------------------------
(* The theorems.                                                           *)

\* Every variable keeps its type: in particular portIndex never points past
\* the last of ports, whichever binds fail.
THEOREM RequestsTypeCorrect == Spec => []TypeOK
  BY AlwaysSound, PTL DEF Sound

LEMMA SoundServesOnce == Sound => ServedOnce
<1> SUFFICES ASSUME Sound, NEW r \in 1 .. Len(requests)
             PROVE  Cardinality({i \in DOMAIN blocks : blocks[i].request = r})
                        + Len(replies[r]) = 1
  BY DEF ServedOnce
<1> DEFINE I == {i \in DOMAIN blocks : blocks[i].request = r}
<1>1. r \in Request
  BY Types DEF Sound, Request
<1>2. CASE replies[r] = << >> /\ \E i \in DOMAIN blocks : blocks[i].request = r
  <2>1. PICK i \in DOMAIN blocks : blocks[i].request = r
    BY <1>2
  <2>2. I = {i}
    BY <2>1 DEF Sound, Served, Unique
  <2>3. Cardinality(I) = 1
    BY <2>2, FS_Singleton
  <2> QED
    BY <1>2, <2>3
<1>3. CASE Len(replies[r]) = 1 /\ \A i \in DOMAIN blocks : blocks[i].request # r
  <2>1. I = {}
    BY <1>3
  <2>2. Cardinality(I) = 0
    BY <2>1, FS_EmptySet
  <2> QED
    BY <1>3, <2>2
<1> QED
  BY <1>1, <1>2, <1>3 DEF Sound, Served, Outstanding

\* startServer, its retries, stopServer and the reopening that follows a stop
\* neither drop a completion nor call one twice.
THEOREM RequestsServedOnce == Spec => []ServedOnce
  BY AlwaysSound, SoundServesOnce, PTL

\* openWebSocketServer stops what listens before it starts another server,
\* for a user who waits for answers.
THEOREM ListenerStaysCurrent == Spec => []ListenerIsCurrent
<1>1. IInv => ListenerIsCurrent
  BY DEF IInv, Calm, ListenerIsCurrent
<1> QED
  BY <1>1, Invariant, PTL

\* After closeWebSocketServer has succeeded nothing listens, for a user who
\* waits for answers.
THEOREM CloseDoesClose == Spec => []CloseCloses
  BY Invariant, PTL DEF IInv

\* One step answers an open as SecureAsAsked says.
SecureStep ==
    \A r \in 1 .. Len(requests) :
          (/\ requests[r].kind = "open"
           /\ replies[r] = << >> /\ replies'[r] = <<TRUE>>
           /\ servers'[httpServer'].port = defaultPort)
          => /\ servers'[httpServer'].state = "listening"
             /\ servers'[httpServer'].secure = requests[r].secure

LEMMA AnswersDiffer == <<FALSE>> # <<TRUE>> /\ << >> # <<TRUE>>
<1>1. <<FALSE>>[1] = FALSE /\ <<TRUE>>[1] = TRUE
  OBVIOUS
<1>2. Len(<< >>) = 0 /\ Len(<<TRUE>>) = 1
  OBVIOUS
<1> QED
  BY <1>1, <1>2

LEMMA StepsSecure == Sound /\ [Next]_vars => SecureStep
<1> SUFFICES ASSUME Sound, [Next]_vars, NEW r \in 1 .. Len(requests),
                    requests[r].kind = "open",
                    replies[r] = << >>, replies'[r] = <<TRUE>>,
                    servers'[httpServer'].port = defaultPort
             PROVE  /\ servers'[httpServer'].state = "listening"
                    /\ servers'[httpServer'].secure = requests[r].secure
  BY DEF SecureStep
<1>1. r \in Request
  BY Types DEF Sound, Request
<1>2. replies'[r] # replies[r]
  BY AnswersDiffer
<1>3. ASSUME NEW success, Answers(success)
      PROVE  r = Block.request /\ <<success>> = <<TRUE>>
  <2>1. /\ replies'[Block.request] = <<success>>
        /\ \A x \in Request : x # Block.request => replies'[x] = replies[x]
    BY <1>3, AnswersServed DEF Sound, Block
  <2>2. r = Block.request
    BY <1>1, <1>2, <2>1
  <2>3. <<success>> = <<TRUE>>
    BY <2>1, <2>2
  <2> QED
    BY <2>2, <2>3
<1>4. CASE BindSucceeds
  <2>1. /\ blocks # << >> /\ httpServer \in Server
        /\ servers[httpServer].port = Block.port
        /\ servers[httpServer].secure = Block.secure
        /\ httpServer' = httpServer
        /\ Becomes("listening") /\ Answers(TRUE)
    BY <1>4, BindEnds
  <2>2. r = Block.request
    BY <1>3, <2>1
  <2>3. /\ servers'[httpServer].state = "listening"
        /\ servers'[httpServer].port = Block.port
        /\ servers'[httpServer].secure = Block.secure
    BY <2>1, BecomesState DEF Sound, State
  <2>4. Block.secure = requests[r].secure
    BY <2>1, <2>2, <2>3, HeadBlock
  <2> QED
    BY <2>1, <2>3, <2>4
<1>5. CASE BindFails \/ BindGivesUp
  BY <1>3, <1>5, BindEnds, AnswersDiffer
<1>6. CASE BindRetries
  BY <1>2, <1>6, BindEnds DEF Requeues
<1>7. CASE StopSucceeds \/ StopFails
  <2>1. blocks # << >>
    BY <1>7 DEF StopSucceeds, StopFails, Runs
  <2>2. \/ Block.kind = "stop" /\ \E success : Answers(success)
        \/ replies' = replies
    BY <1>7, StopEnds DEF StopSucceeds, StopFails, Requeues
  <2>3. Block.kind = "stop" /\ r = Block.request
    BY <1>2, <1>3, <2>2
  <2> QED
    BY <2>1, <2>3, HeadBlock
<1>8. CASE replies' = replies
  BY <1>2, <1>8
<1> QED
  BY <1>4, <1>5, <1>6, <1>7, <1>8
  DEF Next, QueueStep, openWebSocketServer, closeWebSocketServer, StartCreate, StopChannel,
      OtherProgram, vars

\* An open that succeeds on the port it asked for has TLS as it was asked for,
\* though openWebSocketServer may have stopped another server first.
THEOREM OpensSecurely == Spec => SecureAsAsked
<1>1. Sound /\ [Next]_vars => [SecureStep]_vars
  BY StepsSecure
<1> QED
  BY <1>1, AlwaysSound, PTL DEF Spec, SecureAsAsked, SecureStep

=============================================================================
