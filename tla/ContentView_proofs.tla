-------------------------- MODULE ContentView_proofs --------------------------
(***************************************************************************)
(* The view shows what the server does: for any number of taps, sessions,  *)
(* texts and queued closures.  What is known of the server beneath it is   *)
(* what LocalHttpServer_proofs proves, since the view takes its steps only *)
(* (TheViewKeepsToTheServer).                                              *)
(***************************************************************************)
EXTENDS ContentView, LocalHttpServer_proofs

-----------------------------------------------------------------------------
(* The types of the view.                                                  *)

TapPc == {"done", "asked", "disposing", "disposed", "subscribing"}
StatusRecord == [sessionId : Session, isConnect : BOOLEAN]
Content == [n : Nat, server : Server, opens : Int]
ContextRecord == [sessionId : Session, content : Content]
EchoRecord == [text : Content, server : Server]
Completion == [kind : {"open", "close"}, value : BOOLEAN]
Closure == [kind : {"status"}, value : StatusRecord] \cup Completion

Typed ==
    /\ tap \in TapPc
    /\ statusObservers \in Nat /\ receiveObservers \in Nat
    /\ lastStatus \in SUBSET StatusRecord /\ lastReceive \in SUBSET ContextRecord
    /\ mainQueue \in Seq(Closure)
    /\ isStart \in BOOLEAN
    /\ texts \in [Session -> Nat]
    /\ echoes \in [Session -> Seq(EchoRecord)]

-----------------------------------------------------------------------------
(* The view and the server.                                                *)

LEMMA ViewStep == [ViewNext]_<<vars, viewVars>> => [Next]_vars
<1> SUFFICES ASSUME ViewNext PROVE [Next]_vars
  BY DEF viewVars
<1>1. CASE openServer \/ closeServr
  BY <1>1 DEF openServer, closeServr, Next
<1>2. CASE OpenStep
  BY <1>2 DEF OpenStep, DisposeStatus, DisposeReceive, SubscribeStatus, SubscribeReceive,
              Continues
<1>3. CASE RunClosure
  BY <1>3 DEF RunClosure
<1>4. CASE SessionStep
  BY <1>4 DEF SessionStep, Connected, Disconnected, Received, Reports
<1>5. CASE ServerStep
  BY <1>5 DEF ServerStep, Next
<1>6. CASE \E p \in Others : OtherProgram(p)
  BY <1>6 DEF Next
<1> QED
  BY <1>1, <1>2, <1>3, <1>4, <1>5, <1>6 DEF ViewNext

\* ContentView adds nothing to what LocalHttpServer does: whatever holds of it
\* by itself holds of it under the view.
THEOREM TheViewKeepsToTheServer == ViewSpec => Spec
<1>1. ViewInit => Init
  BY DEF ViewInit
<1> QED
  BY <1>1, ViewStep, PTL DEF ViewSpec, Spec

-----------------------------------------------------------------------------
(* The completions.                                                        *)

LEMMA NoCompletions == ASSUME replies' = replies PROVE Completions = << >>
  BY DEF Completions

\* A block that ends with an answer calls the completion of its request.
LEMMA OneCompletion ==
    ASSUME Sound, NEW b \in BOOLEAN, Answers(b)
    PROVE  /\ Completions = <<CompletionClosure(requests[Block.request].kind, b)>>
           /\ replies[Block.request] = << >> /\ replies'[Block.request] = <<b>>
           /\ \A r \in Request : r # Block.request => replies'[r] = replies[r]
<1> DEFINE q == Block.request
<1>1. q \in 1 .. Len(requests) /\ q \in Request /\ blocks # << >>
  BY HeadBlock DEF Answers
<1>2. 1 \in DOMAIN blocks /\ Head(blocks) = blocks[1]
  BY <1>1, Types, Removed DEF Sound
<1>3. replies[q] = << >>
  BY <1>1, <1>2 DEF Sound, Served, Outstanding, Block
<1>4. replies \in [Request -> Seq(BOOLEAN)]
  BY Types DEF Sound
<1>5. replies' = [replies EXCEPT ![q] = Append(@, b)]
  BY DEF Answers, Reply, Block
<1>6. replies'[q] = <<b>> /\ \A r \in Request : r # q => replies'[r] = replies[r]
  BY <1>1, <1>3, <1>4, <1>5
<1>7. <<b>> # << >> /\ <<b>>[Len(<<b>>)] = b
  OBVIOUS
<1>8. {r \in Request : replies'[r] # replies[r]} = {q}
  BY <1>1, <1>3, <1>6, <1>7
<1> HIDE DEF q
<1>9. (CHOOSE r \in {q} : TRUE) = q /\ {q} # {}
  OBVIOUS
<1>10. Completions = <<CompletionClosure(requests[q].kind, replies'[q][Len(replies'[q])])>>
  BY <1>8, <1>9 DEF Completions
<1> QED
  BY <1>3, <1>6, <1>7, <1>10 DEF q

-----------------------------------------------------------------------------
(* Queues of closures.                                                     *)

LEMMA Joined ==
    ASSUME NEW S, NEW q \in Seq(S), NEW t \in Seq(S)
    PROVE  /\ q \o t \in Seq(S)
           /\ DOMAIN q = 1 .. Len(q) /\ DOMAIN t = 1 .. Len(t)
           /\ Len(q) \in Nat /\ Len(t) \in Nat
           /\ DOMAIN (q \o t) = 1 .. Len(q) + Len(t)
           /\ \A i \in DOMAIN q : (q \o t)[i] = q[i] /\ i \in DOMAIN (q \o t)
           /\ \A k \in DOMAIN t : /\ (q \o t)[Len(q) + k] = t[k]
                                  /\ Len(q) + k \in DOMAIN (q \o t)
           /\ \A i \in DOMAIN (q \o t) :
                 i \in DOMAIN q \/ \E k \in DOMAIN t : i = Len(q) + k
<1>1. \A i \in DOMAIN (q \o t) : i \notin DOMAIN q => i - Len(q) \in DOMAIN t /\ i = Len(q) + (i - Len(q))
  OBVIOUS
<1> QED
  BY <1>1

LEMMA CopiesType ==
    ASSUME NEW S, NEW x \in S, NEW n \in Nat
    PROVE  /\ Copies(n, x) \in Seq(S) /\ DOMAIN Copies(n, x) = 1 .. n
           /\ \A k \in 1 .. n : Copies(n, x)[k] = x
  BY DEF Copies

LEMMA StatusType ==
    ASSUME NEW s \in Session, NEW on \in BOOLEAN
    PROVE  /\ Status(s, on) \in StatusRecord
           /\ Status(s, on).sessionId = s /\ Status(s, on).isConnect = on
  BY DEF Status, StatusRecord

LEMMA StatusClosureType ==
    ASSUME NEW status \in StatusRecord
    PROVE  /\ StatusClosure(status) \in Closure
           /\ StatusClosure(status).kind = "status" /\ StatusClosure(status).value = status
  BY DEF StatusClosure, Closure

LEMMA CompletionType ==
    ASSUME NEW k \in {"open", "close"}, NEW b \in BOOLEAN
    PROVE  /\ CompletionClosure(k, b) \in Closure
           /\ <<CompletionClosure(k, b)>> \in Seq(Closure)
           /\ DOMAIN <<CompletionClosure(k, b)>> = {1}
           /\ <<CompletionClosure(k, b)>>[1] = CompletionClosure(k, b)
           /\ CompletionClosure(k, b).kind = k /\ CompletionClosure(k, b).value = b
<1>1. CompletionClosure(k, b) \in Closure
  BY DEF CompletionClosure, Completion, Closure
<1> QED
  BY <1>1 DEF CompletionClosure

\* What a step of the subjects queues: closures for the list, n of them or none.
LEMMA NotifyQueues ==
    ASSUME Typed, NEW status \in StatusRecord, NotifyStatus(status)
    PROVE  \E t \in Seq(Closure) :
              /\ mainQueue' = mainQueue \o t
              /\ DOMAIN t = 1 .. statusObservers
              /\ \A k \in DOMAIN t : t[k] = StatusClosure(status)
<1> DEFINE t == Copies(statusObservers, StatusClosure(status))
<1>1. t \in Seq(Closure) /\ DOMAIN t = 1 .. statusObservers
  BY CopiesType, StatusClosureType DEF Typed
<1>2. \A k \in DOMAIN t : t[k] = StatusClosure(status)
  BY DEF Copies
<1>3. mainQueue' = mainQueue \o t
  BY DEF NotifyStatus
<1> QED
  BY <1>1, <1>2, <1>3

LEMMA ReplayQueues ==
    ASSUME Typed, SubscribeStatus
    PROVE  \/ lastStatus = {} /\ mainQueue' = mainQueue
           \/ \E status \in lastStatus :
                 /\ status \in StatusRecord
                 /\ <<StatusClosure(status)>> \in Seq(Closure)
                 /\ mainQueue' = mainQueue \o <<StatusClosure(status)>>
<1>1. mainQueue \in Seq(Closure) /\ lastStatus \in SUBSET StatusRecord
  BY DEF Typed
<1>2. CASE lastStatus = {}
  <2>1. mainQueue \o << >> = mainQueue
    BY <1>1
  <2> QED
    BY <1>2, <2>1 DEF SubscribeStatus
<1>3. CASE lastStatus # {}
  <2> DEFINE status == CHOOSE status \in lastStatus : TRUE
  <2>1. status \in lastStatus /\ status \in StatusRecord
    BY <1>1, <1>3
  <2>2. mainQueue' = mainQueue \o <<StatusClosure(status)>>
    BY <1>3 DEF SubscribeStatus
  <2> HIDE DEF status
  <2>3. <<StatusClosure(status)>> \in Seq(Closure)
    BY <2>1, StatusClosureType
  <2> QED
    BY <2>1, <2>2, <2>3
<1> QED
  BY <1>2, <1>3

-----------------------------------------------------------------------------
(* The light.                                                              *)

IsCompletion(c) == c.kind \in {"open", "close"}

\* What the light shows once closure c has run.
Shows(c) == IF c.kind = "open" THEN c.value ELSE ~c.value

\* Once the closures of q have run, a light that shows "on" shows b.
Lit(q, on, b) ==
    /\ (\A i \in DOMAIN q : ~IsCompletion(q[i])) => on = b
    /\ \A i \in DOMAIN q :
          IsCompletion(q[i]) /\ (\A j \in DOMAIN q : i < j => ~IsCompletion(q[j]))
              => Shows(q[i]) = b

LightInv ==
    \/ CloseFailed
    \/ running # "idle"
    \/ \E i \in DOMAIN blocks : blocks[i].kind = "start"
    \/ Lit(mainQueue, isStart, isServerActive)

\* Closures for the list leave the light alone.
LEMMA LitStays ==
    ASSUME NEW q \in Seq(Closure), NEW t \in Seq(Closure), NEW on, NEW b,
           \A k \in DOMAIN t : ~IsCompletion(t[k]), Lit(q, on, b)
    PROVE  Lit(q \o t, on, b)
<1>1. \A i \in DOMAIN (q \o t) : IsCompletion((q \o t)[i]) => i \in DOMAIN q
  BY Joined
<1>2. \A i \in DOMAIN q : i \in DOMAIN (q \o t) /\ (q \o t)[i] = q[i]
  BY Joined
<1> HIDE DEF IsCompletion
<1> QED
  BY <1>1, <1>2 DEF Lit

\* The last completion decides.
LEMMA LitByLast ==
    ASSUME NEW q \in Seq(Closure), NEW c, <<c>> \in Seq(Closure), IsCompletion(c), NEW on
    PROVE  Lit(q \o <<c>>, on, Shows(c))
<1> DEFINE n == Len(q) + 1
           p == q \o <<c>>
<1>1. n \in DOMAIN p /\ p[n] = c
  OBVIOUS
<1>2. \A i \in DOMAIN p : i # n => i < n
  OBVIOUS
<1> HIDE DEF n, p, IsCompletion, Shows
<1>3. Lit(p, on, Shows(c))
  BY <1>1, <1>2 DEF Lit
<1> QED
  BY <1>3 DEF p

\* The head runs, and the light follows it.
LEMMA LitByHead ==
    ASSUME NEW q \in Seq(Closure), q # << >>, NEW on, NEW b, Lit(q, on, b),
           NEW new, new = IF IsCompletion(Head(q)) THEN Shows(Head(q)) ELSE on
    PROVE  Lit(Tail(q), new, b)
<1> DEFINE t == Tail(q)
<1>1. /\ Head(q) = q[1] /\ 1 \in DOMAIN q
      /\ \A i \in DOMAIN t : t[i] = q[i + 1] /\ i + 1 \in DOMAIN q
      /\ \A j \in DOMAIN q : j # 1 => j - 1 \in DOMAIN t /\ t[j - 1] = q[j] /\ 1 < j
      /\ DOMAIN t \subseteq Nat /\ DOMAIN q \subseteq Nat
  OBVIOUS
<1> HIDE DEF t, IsCompletion, Shows
<1>2. ASSUME \A i \in DOMAIN t : ~IsCompletion(t[i]) PROVE new = b
  <2>1. \A j \in DOMAIN q : j # 1 => ~IsCompletion(q[j])
    BY <1>1, <1>2
  <2>2. CASE IsCompletion(q[1])
    <3>1. \A j \in DOMAIN q : 1 < j => ~IsCompletion(q[j])
      BY <1>1, <2>1
    <3> QED
      BY <1>1, <2>2, <3>1 DEF Lit
  <2>3. CASE ~IsCompletion(q[1])
    BY <1>1, <2>1, <2>3 DEF Lit
  <2> QED
    BY <2>2, <2>3
<1>3. ASSUME NEW i \in DOMAIN t, IsCompletion(t[i]),
             \A j \in DOMAIN t : i < j => ~IsCompletion(t[j])
      PROVE  Shows(t[i]) = b
  <2>1. ASSUME NEW j \in DOMAIN q, i + 1 < j PROVE ~IsCompletion(q[j])
    <3>1. j # 1 /\ i < j - 1
      BY <1>1, <2>1
    <3> QED
      BY <1>1, <1>3, <3>1
  <2> QED
    BY <1>1, <1>3, <2>1 DEF Lit
<1>4. Lit(t, new, b)
  BY <1>2, <1>3 DEF Lit
<1> QED
  BY <1>4 DEF t

-----------------------------------------------------------------------------
(* What serverQueue does to the view.                                      *)

\* A step of serverQueue calls no completion, and goes on to another step of
\* some start, or it calls one: the one of the block it ends.
LEMMA QueueEnds ==
    ASSUME Sound, QueueStep
    PROVE  /\ requests' = requests
           /\ \/ /\ replies' = replies
                 /\ \/ running' # "idle"
                    \/ \E i \in DOMAIN blocks' : blocks'[i].kind = "start"
              \/ \E b \in BOOLEAN :
                    /\ Answers(b) /\ Block.request \in 1 .. Len(requests)
                    /\ \/ /\ requests[Block.request].kind = "open"
                          /\ isServerActive' = b
                       \/ /\ requests[Block.request].kind = "close"
                          /\ b => StopSucceeds /\ ~isServerActive'
<1>0. \A s \in Server : s # Nil
  BY NotNil
<1>1. ASSUME NEW b, Requeues(b)
      PROVE  replies' = replies /\ \E i \in DOMAIN blocks' : blocks'[i].kind = "start"
  <2>1. Tail(blocks) \in Seq(BlockRecord)
    BY <1>1, Types, Removed DEF Sound, Requeues
  <2>2. blocks' = Append(Tail(blocks), b) /\ b \in BlockRecord /\ b.kind = "start"
    BY <1>1 DEF Requeues
  <2>3. Len(Tail(blocks)) + 1 \in DOMAIN blocks' /\ blocks'[Len(Tail(blocks)) + 1] = b
    BY <2>1, <2>2, Appended
  <2> QED
    BY <1>1, <2>2, <2>3 DEF Requeues
<1>2. ASSUME blocks # << >>, Block.kind # "stop"
      PROVE  requests[Block.request].kind = "open" /\ Block.request \in 1 .. Len(requests)
  <2>1. requests[Block.request] \in RequestRecord
    BY <1>2, HeadBlock
  <2> QED
    BY <1>2, <2>1, HeadBlock DEF RequestRecord
<1>3. CASE StartCreate \/ StopChannel
  BY <1>3 DEF StartCreate, StopChannel
<1>4. CASE BindSucceeds \/ BindFails \/ BindGivesUp
  <2>1. /\ blocks # << >> /\ Block.kind = "start" /\ httpServer \in Server
        /\ httpServer' = httpServer /\ requests' = requests
    BY <1>4, BindEnds
  <2>2. PICK b \in BOOLEAN, state \in State :
           Answers(b) /\ Becomes(state) /\ (state = "listening" <=> b)
    BY <1>4, BindEnds DEF State
  <2>3. servers'[httpServer].state = state
    BY <2>1, <2>2, BecomesState DEF Sound
  <2>4. isServerActive' = b
    BY <1>0, <2>1, <2>2, <2>3 DEF isServerActive
  <2> QED
    BY <1>2, <2>1, <2>2, <2>4
<1>5. CASE BindRetries
  BY <1>1, <1>5, BindEnds
<1>6. CASE StopSucceeds
  <2>1. /\ requests' = requests /\ ~isServerActive'
        /\ Runs("stopping", {"stop", "restart"}) /\ StopCompletes(TRUE)
    BY <1>6 DEF StopSucceeds, isServerActive
  <2>2. \/ Block.kind = "stop" /\ Answers(TRUE)
        \/ \E b : Requeues(b)
    BY <2>1, StopEnds
  <2> QED
    BY <1>1, <1>6, <2>1, <2>2, HeadBlock DEF Runs
<1>7. CASE StopFails
  <2>1. /\ requests' = requests
        /\ Runs("stopping", {"stop", "restart"}) /\ StopCompletes(FALSE)
    BY <1>7 DEF StopFails
  <2>2. \/ Block.kind = "stop" /\ Answers(FALSE)
        \/ \E b : Requeues(b)
    BY <2>1, StopEnds
  <2> QED
    BY <1>1, <2>1, <2>2, HeadBlock DEF Runs
<1> QED
  BY <1>3, <1>4, <1>5, <1>6, <1>7 DEF QueueStep

\* ... and queues its closure.
LEMMA ServerQueues ==
    ASSUME Sound, Typed, ServerStep
    PROVE  \/ mainQueue' = mainQueue /\ replies' = replies
           \/ \E b \in BOOLEAN, k \in {"open", "close"} :
                 /\ Answers(b) /\ k = requests[Block.request].kind
                 /\ mainQueue' = mainQueue \o <<CompletionClosure(k, b)>>
<1>1. mainQueue' = mainQueue \o Completions /\ QueueStep
  BY DEF ServerStep
<1>2. CASE replies' = replies
  <2>1. mainQueue \o << >> = mainQueue
    BY DEF Typed
  <2> QED
    BY <1>1, <1>2, <2>1, NoCompletions
<1>3. ASSUME NEW b \in BOOLEAN, Answers(b)
      PROVE  /\ mainQueue' = mainQueue \o <<CompletionClosure(requests[Block.request].kind, b)>>
             /\ requests[Block.request].kind \in {"open", "close"}
  BY <1>1, <1>3, OneCompletion, HeadBlock DEF Answers, RequestRecord
<1> QED
  BY <1>1, <1>2, <1>3, QueueEnds

-----------------------------------------------------------------------------
(* Types are kept.                                                         *)

LEMMA Serving == ASSUME Sound, Serves PROVE httpServer \in Server
  BY DEF Sound, TypeOK, Serves

\* serverSend sends its text a number of times, or not at all.
LEMMA Sends ==
    ASSUME Typed, NEW context, NEW n, NEW e \in serverSend(context, n)
    PROVE  \/ e = echoes
           \/ /\ Serves /\ context.sessionId \in live
              /\ e = [echoes EXCEPT ![context.sessionId] =
                        @ \o Copies(n, [text |-> context.content, server |-> httpServer])]
  BY DEF serverSend

LEMMA SendType ==
    ASSUME Sound, Typed, NEW context \in ContextRecord, NEW n \in Nat,
           NEW e \in serverSend(context, n)
    PROVE  e \in [Session -> Seq(EchoRecord)]
<1>1. echoes \in [Session -> Seq(EchoRecord)]
  BY DEF Typed
<1>2. CASE e = echoes
  BY <1>1, <1>2
<1>3. CASE /\ Serves
           /\ e = [echoes EXCEPT ![context.sessionId] =
                        @ \o Copies(n, [text |-> context.content, server |-> httpServer])]
  <2> DEFINE x == [text |-> context.content, server |-> httpServer]
  <2>1. x \in EchoRecord
    BY <1>3, Serving DEF EchoRecord, ContextRecord
  <2>2. Copies(n, x) \in Seq(EchoRecord)
    BY <2>1, CopiesType
  <2>3. context.sessionId \in Session
    BY DEF ContextRecord
  <2> HIDE DEF x
  <2>4. e = [echoes EXCEPT ![context.sessionId] = @ \o Copies(n, x)]
    BY <1>3 DEF x
  <2>5. echoes[context.sessionId] \o Copies(n, x) \in Seq(EchoRecord)
    BY <1>1, <2>2, <2>3
  <2> QED
    BY <1>1, <2>4, <2>5
<1> QED
  BY <1>2, <1>3, Sends

OpenRequests == {r \in 1 .. Len(requests) : requests[r].kind = "open"}

LEMMA OpensType ==
    ASSUME TypeOK
    PROVE  /\ IsFiniteSet(OpenRequests) /\ Cardinality(OpenRequests) \in Nat
           /\ Opens = Cardinality(OpenRequests) - (IF tap = "done" THEN 0 ELSE 1)
           /\ Opens \in Int
<1>1. IsFiniteSet(1 .. Len(requests))
  BY Types, FS_Interval
<1>2. IsFiniteSet(OpenRequests)
  BY <1>1, FS_Subset DEF OpenRequests
<1>3. Cardinality(OpenRequests) \in Nat
  BY <1>2, FS_CardinalityType
<1>4. Opens = Cardinality(OpenRequests) - (IF tap = "done" THEN 0 ELSE 1)
  BY DEF Opens, OpenRequests
<1> QED
  BY <1>2, <1>3, <1>4

\* What a loop reports of a text.
LEMMA ReceivedType ==
    ASSUME Sound, Typed, NEW s \in Session, Received(s)
    PROVE  /\ Context(s, texts[s] + 1) \in ContextRecord
           /\ Context(s, texts[s] + 1).sessionId = s
           /\ Context(s, texts[s] + 1).content
                  = [n |-> texts[s] + 1, server |-> httpServer, opens |-> Opens]
           /\ texts' = [texts EXCEPT ![s] = @ + 1]
           /\ lastReceive' = {Context(s, texts[s] + 1)}
           /\ echoes' \in serverSend(Context(s, texts[s] + 1), receiveObservers)
<1>1. texts[s] \in Nat /\ texts \in [Session -> Nat]
  BY DEF Typed
<1>2. httpServer \in Server
  BY Serving DEF Received, Reports
<1>3. Opens \in Int
  BY OpensType DEF Sound
<1>4. texts'[s] = texts[s] + 1 /\ texts' = [texts EXCEPT ![s] = @ + 1]
  BY <1>1 DEF Received
<1>5. Context(s, texts[s] + 1) \in ContextRecord
  BY <1>1, <1>2, <1>3 DEF Context, ContextRecord, Content
<1> QED
  BY <1>4, <1>5 DEF Received, Context

LEMMA InitTyped == ViewInit => Typed
<1>1. << >> \in Seq(EchoRecord) /\ << >> \in Seq(Closure)
  OBVIOUS
<1> SUFFICES ASSUME ViewInit PROVE Typed
  OBVIOUS
<1>2. texts \in [Session -> Nat] /\ echoes \in [Session -> Seq(EchoRecord)]
  BY <1>1 DEF ViewInit
<1>3. mainQueue \in Seq(Closure)
  BY <1>1 DEF ViewInit
<1> QED
  BY <1>2, <1>3 DEF ViewInit, Typed, TapPc

LEMMA SessionTyped ==
    ASSUME Sound, Typed, NEW s \in Session, Connected(s) \/ Disconnected(s) \/ Received(s)
    PROVE  Typed'
<1>1. UNCHANGED <<tap, statusObservers, receiveObservers, isStart>>
  BY DEF Connected, Disconnected, Received, Reports
<1>2. ASSUME NEW on \in BOOLEAN, NotifyStatus(Status(s, on)), UNCHANGED <<lastReceive, texts, echoes>>
      PROVE  Typed'
  <2>1. Status(s, on) \in StatusRecord
    BY StatusType
  <2>2. PICK t \in Seq(Closure) : mainQueue' = mainQueue \o t
    BY <1>2, <2>1, NotifyQueues
  <2>4. mainQueue' \in Seq(Closure)
    BY <2>2 DEF Typed
  <2>3. lastStatus' = {Status(s, on)}
    BY <1>2 DEF NotifyStatus
  <2> QED
    BY <1>1, <1>2, <2>1, <2>4, <2>3 DEF Typed
<1>3. CASE Received(s)
  <2> DEFINE context == Context(s, texts[s] + 1)
  <2>0. /\ context \in ContextRecord /\ lastReceive' = {context}
        /\ texts' = [texts EXCEPT ![s] = @ + 1]
        /\ echoes' \in serverSend(context, receiveObservers)
    BY <1>3, ReceivedType
  <2> HIDE DEF context
  <2>1. echoes' \in [Session -> Seq(EchoRecord)]
    <3>1. receiveObservers \in Nat
      BY DEF Typed
    <3> QED
      BY <2>0, <3>1, SendType
  <2>2. texts' \in [Session -> Nat]
    BY <2>0 DEF Typed
  <2>4. lastReceive' \in SUBSET ContextRecord
    BY <2>0
  <2>3. UNCHANGED <<lastStatus, mainQueue>>
    BY <1>3 DEF Received
  <2> QED
    BY <1>1, <2>1, <2>2, <2>3, <2>4 DEF Typed
<1> QED
  BY <1>2, <1>3 DEF Connected, Disconnected

LEMMA OpenTyped == ASSUME Sound, Typed, OpenStep PROVE Typed'
<1>0. UNCHANGED <<lastStatus, lastReceive, isStart, texts>> /\ tap' \in TapPc
  BY DEF OpenStep, DisposeStatus, DisposeReceive, SubscribeStatus, SubscribeReceive,
         Continues, TapPc
<1>1. CASE DisposeStatus \/ DisposeReceive
  BY <1>0, <1>1 DEF DisposeStatus, DisposeReceive, Typed
<1>2. CASE SubscribeStatus
  <2>1. \/ mainQueue' = mainQueue
        \/ \E t \in Seq(Closure) : mainQueue' = mainQueue \o t
    BY Zenon, <1>2, ReplayQueues
  <2>2. mainQueue' \in Seq(Closure)
    <3>1. mainQueue \in Seq(Closure)
      BY DEF Typed
    <3>2. \A t \in Seq(Closure) : mainQueue \o t \in Seq(Closure)
      BY <3>1, Joined
    <3> QED
      BY <3>1, <3>2, <2>1
  <2> QED
    BY <1>0, <1>2, <2>2 DEF SubscribeStatus, Typed
<1>3. CASE SubscribeReceive
  <2>1. echoes' \in [Session -> Seq(EchoRecord)]
    <3>1. CASE lastReceive = {}
      BY <1>3, <3>1 DEF SubscribeReceive, Typed
    <3>2. CASE lastReceive # {}
      <4>1. PICK context \in lastReceive : echoes' \in serverSend(context, 1)
        BY <1>3, <3>2 DEF SubscribeReceive
      <4> QED
        BY <4>1, SendType DEF Typed
    <3> QED
      BY <3>1, <3>2
  <2> QED
    BY <1>0, <1>3, <2>1 DEF SubscribeReceive, Typed
<1> QED
  BY <1>1, <1>2, <1>3 DEF OpenStep

\* The head of the main queue, by its kind.
LEMMA HeadClosure ==
    ASSUME Typed, mainQueue # << >>
    PROVE  /\ Tail(mainQueue) \in Seq(Closure) /\ Head(mainQueue) \in Closure
           /\ \/ /\ Head(mainQueue).kind = "status"
                 /\ Head(mainQueue).value \in StatusRecord
              \/ /\ Head(mainQueue).kind \in {"open", "close"}
                 /\ Head(mainQueue).value \in BOOLEAN
<1>1. Tail(mainQueue) \in Seq(Closure) /\ Head(mainQueue) \in Closure
  BY Removed DEF Typed
<1> QED
  BY <1>1 DEF Closure, Completion

LEMMA TypedKept ==
    ASSUME Sound, Typed, [ViewNext]_<<vars, viewVars>>
    PROVE  Typed'
<1>1. CASE openServer
  BY <1>1 DEF openServer, Typed, TapPc, subjectVars, serverVars
<1>2. CASE closeServr
  BY <1>2 DEF closeServr, Typed, viewVars, subjectVars, serverVars
<1>3. CASE OpenStep
  BY <1>3, OpenTyped
<1>4. CASE RunClosure
  <2>1. mainQueue' \in Seq(Closure) /\ isStart' \in BOOLEAN
    BY <1>4, HeadClosure DEF RunClosure, Typed
  <2> QED
    BY <1>4, <2>1 DEF RunClosure, Typed, subjectVars, serverVars
<1>5. CASE SessionStep
  BY <1>5, SessionTyped DEF SessionStep
<1>6. CASE ServerStep
  <2>0. \/ mainQueue' = mainQueue
        \/ \E t \in Seq(Closure) : mainQueue' = mainQueue \o t
    BY Zenon, <1>6, ServerQueues, CompletionType
  <2>1. mainQueue' \in Seq(Closure)
    <3>1. mainQueue \in Seq(Closure)
      BY DEF Typed
    <3>2. \A t \in Seq(Closure) : mainQueue \o t \in Seq(Closure)
      BY <3>1, Joined
    <3> QED
      BY <3>1, <3>2, <2>0
  <2>2. lastStatus' \in SUBSET StatusRecord /\ lastReceive' \in SUBSET ContextRecord
    BY <1>6 DEF ServerStep, ResetValues, Typed
  <2> QED
    BY <1>6, <2>1, <2>2 DEF ServerStep, Typed
<1>7. CASE UNCHANGED viewVars
  BY <1>7 DEF Typed, viewVars, subjectVars, serverVars
<1> QED
  BY <1>1, <1>2, <1>3, <1>4, <1>5, <1>6, <1>7 DEF ViewNext

LEMMA TypedAlways == ViewSpec => [](IInv /\ Typed)
<1>1. IInv /\ Typed /\ [ViewNext]_<<vars, viewVars>> => Typed'
  BY TypedKept DEF IInv
<1> QED
  BY <1>1, InitTyped, TheViewKeepsToTheServer, Invariant, PTL DEF ViewSpec

-----------------------------------------------------------------------------
(* The light follows the server.                                           *)

LEMMA LightInit == ViewInit => LightInv
<1> SUFFICES ASSUME ViewInit PROVE Lit(mainQueue, isStart, isServerActive)
  BY DEF LightInv
<1>1. DOMAIN mainQueue = {} /\ isStart = FALSE /\ isServerActive = FALSE
  BY DEF ViewInit, Init, isServerActive
<1> QED
  BY <1>1 DEF Lit

LEMMA LightByServer ==
    ASSUME Sound, Typed, ServerStep
    PROVE  LightInv'
<1>1. CASE mainQueue' = mainQueue /\ replies' = replies
  <2>1. ASSUME NEW b \in BOOLEAN, Answers(b) PROVE FALSE
    <3>1. replies[Block.request] = << >> /\ replies'[Block.request] = <<b>>
      BY <2>1, OneCompletion
    <3>2. <<b>> # << >>
      OBVIOUS
    <3> QED
      BY <1>1, <3>1, <3>2
  <2> QED
    BY <2>1, QueueEnds DEF ServerStep, LightInv
<1>2. ASSUME NEW b \in BOOLEAN, NEW k \in {"open", "close"},
             Answers(b), k = requests[Block.request].kind,
             mainQueue' = mainQueue \o <<CompletionClosure(k, b)>>
      PROVE  LightInv'
  <2>0. requests' = requests /\ UNCHANGED isStart
    BY QueueEnds DEF ServerStep
  <2>1. replies[Block.request] = << >> /\ replies'[Block.request] = <<b>>
    BY <1>2, OneCompletion
  <2>2. replies' # replies
    <3>1. <<b>> # << >>
      OBVIOUS
    <3> QED
      BY <2>1, <3>1
  <2>3. /\ Block.request \in 1 .. Len(requests)
        /\ \/ k = "open" /\ isServerActive' = b
           \/ k = "close" /\ (b => ~isServerActive')
    <3>1. ASSUME NEW d \in BOOLEAN, Answers(d) PROVE d = b
      <4>1. <<d>> = <<b>>
        BY <2>1, <3>1, OneCompletion
      <4>2. <<d>>[1] = d /\ <<b>>[1] = b
        OBVIOUS
      <4> QED
        BY <4>1, <4>2
    <3>2. PICK d \in BOOLEAN :
             /\ Answers(d) /\ Block.request \in 1 .. Len(requests)
             /\ \/ requests[Block.request].kind = "open" /\ isServerActive' = d
                \/ requests[Block.request].kind = "close" /\ (d => ~isServerActive')
      BY <2>2, QueueEnds DEF ServerStep
    <3> QED
      BY <1>2, <3>1, <3>2
  <2>4. CASE k = "close" /\ ~b
    <3>1. CloseFailed'
      BY <1>2, <2>0, <2>1, <2>2, <2>3, <2>4 DEF CloseFailed
    <3> QED
      BY <3>1 DEF LightInv
  <2>5. CASE ~(k = "close" /\ ~b)
    <3> DEFINE c == CompletionClosure(k, b)
    <3>1. /\ IsCompletion(c) /\ <<c>> \in Seq(Closure)
          /\ Shows(c) = IF k = "open" THEN b ELSE ~b
      BY CompletionType DEF IsCompletion, Shows
    <3>2. isServerActive' = Shows(c)
      BY <2>2, <2>3, <2>5, <3>1 DEF isServerActive
    <3> HIDE DEF c
    <3>3. Lit(mainQueue \o <<c>>, isStart, Shows(c))
      BY <3>1, LitByLast DEF Typed
    <3>4. Lit(mainQueue', isStart', isServerActive')
      BY <1>2, <2>0, <3>2, <3>3 DEF c
    <3> QED
      BY <3>4 DEF LightInv
  <2> QED
    BY <2>4, <2>5
<1> QED
  BY <1>1, <1>2, ServerQueues

\* Requests that are made leave answers as they are.
LEMMA StillFailed ==
    ASSUME TypeOK, UNCHANGED replies,
           \/ requests' = requests
           \/ \E q \in RequestRecord : requests' = Append(requests, q)
    PROVE  CloseFailed => CloseFailed'
<1>1. requests \in Seq(RequestRecord)
  BY Types
<1>2. CASE requests' = requests
  BY <1>2 DEF CloseFailed
<1>3. ASSUME NEW q \in RequestRecord, requests' = Append(requests, q)
      PROVE  \A r \in 1 .. Len(requests) : r \in 1 .. Len(requests') /\ requests'[r] = requests[r]
  BY <1>1, <1>3
<1> QED
  BY <1>2, <1>3 DEF CloseFailed

LEMMA AskedOnce ==
    ASSUME TypeOK, openServer \/ closeServr
    PROVE  \E b, q :
              /\ AsksWith(b, q) /\ Len(requests) < MaxRequests
              /\ q.waited = (Pending = {})
              /\ q.kind = (IF tap' = "asked" THEN "open" ELSE "close")
              /\ UNCHANGED <<running, servers, httpServer, mainQueue, isStart, connections,
                             serverVars, subjectVars>>
<1>1. CASE openServer
  <2>1. PICK secure \in Settings : openWebSocketServer(secure)
    BY <1>1 DEF openServer
  <2>2. PICK b, q :
           /\ AsksWith(b, q) /\ Len(requests) < MaxRequests
           /\ b.kind = IF isServerActive THEN "restart" ELSE "start"
           /\ q.waited = (Pending = {})
    BY <2>1, openIsAsked
  <2>3. q.kind = "open"
    BY <2>2 DEF AsksWith, RequestRecord
  <2> QED
    BY <1>1, <2>1, <2>2, <2>3 DEF openServer, openWebSocketServer
<1>2. CASE closeServr
  <2>1. PICK b, q :
           /\ AsksWith(b, q) /\ Len(requests) < MaxRequests
           /\ b.kind = "stop"
           /\ q.waited = (Pending = {})
    BY <1>2, closeIsAsked DEF closeServr
  <2>2. q.kind = "close" /\ tap' = "done"
    BY <1>2, <2>1 DEF AsksWith, RequestRecord, closeServr, viewVars
  <2> QED
    BY <1>2, <2>1, <2>2
    DEF closeServr, closeWebSocketServer, viewVars, subjectVars, serverVars
<1> QED
  BY <1>1, <1>2

LEMMA LightKept ==
    ASSUME Sound, Typed, LightInv, [ViewNext]_<<vars, viewVars>>
    PROVE  LightInv'
<1>0. mainQueue \in Seq(Closure) /\ TypeOK
  BY DEF Typed, Sound
<1>1. ASSUME UNCHANGED <<requests, replies, running, blocks>>,
             Lit(mainQueue, isStart, isServerActive)
                => Lit(mainQueue', isStart', isServerActive')
      PROVE  LightInv'
  BY <1>1 DEF LightInv, CloseFailed
<1>2. ASSUME NEW b, NEW q, AsksWith(b, q),
             UNCHANGED <<running, servers, httpServer, mainQueue, isStart>>
      PROVE  LightInv'
  <2>1. CloseFailed => CloseFailed'
    BY <1>0, <1>2, StillFailed DEF AsksWith
  <2>2. (\E i \in DOMAIN blocks : blocks[i].kind = "start")
           => \E i \in DOMAIN blocks' : blocks'[i].kind = "start"
    <3>1. /\ DOMAIN blocks \subseteq DOMAIN blocks'
          /\ \A i \in DOMAIN blocks : blocks'[i] = blocks[i]
      BY <1>0, <1>2, Types DEF AsksWith
    <3> QED
      BY <3>1
  <2>3. isServerActive' = isServerActive
    BY <1>2 DEF isServerActive
  <2> QED
    BY <1>2, <2>1, <2>2, <2>3 DEF LightInv
<1>3. CASE openServer \/ closeServr
  <2>1. PICK b, q :
           AsksWith(b, q) /\ UNCHANGED <<running, servers, httpServer, mainQueue, isStart>>
    BY <1>0, <1>3, AskedOnce
  <2> QED
    BY <1>2, <2>1
<1>4. CASE DisposeStatus \/ DisposeReceive \/ SubscribeReceive \/ UNCHANGED <<vars, viewVars>>
  BY <1>1, <1>4 DEF DisposeStatus, DisposeReceive, SubscribeReceive, Continues, vars, viewVars,
                    isServerActive
<1>5. ASSUME NEW t \in Seq(Closure), mainQueue' = mainQueue \o t,
             \A k \in DOMAIN t : ~IsCompletion(t[k]),
             UNCHANGED <<vars, isStart>>
      PROVE  LightInv'
  <2>1. Lit(mainQueue, isStart, isServerActive) => Lit(mainQueue', isStart, isServerActive)
    BY <1>0, <1>5, LitStays
  <2>2. isServerActive' = isServerActive
    BY <1>5 DEF isServerActive, vars
  <2> QED
    BY <1>1, <1>5, <2>1, <2>2 DEF vars
<1>6. CASE SubscribeStatus
  <2>1. UNCHANGED <<vars, isStart>>
    BY <1>6 DEF SubscribeStatus, Continues
  <2>2. CASE mainQueue' = mainQueue
    BY <1>1, <2>1, <2>2 DEF vars, isServerActive
  <2>3. ASSUME NEW status \in lastStatus, status \in StatusRecord,
               <<StatusClosure(status)>> \in Seq(Closure),
               mainQueue' = mainQueue \o <<StatusClosure(status)>>
        PROVE  LightInv'
    <3>1. \A k \in DOMAIN <<StatusClosure(status)>> :
             ~IsCompletion(<<StatusClosure(status)>>[k])
      BY DEF StatusClosure, IsCompletion
    <3> QED
      BY <1>5, <2>1, <2>3, <3>1
  <2> QED
    BY Zenon, <1>6, <2>2, <2>3, ReplayQueues
<1>7. ASSUME NEW s \in Session, Connected(s) \/ Disconnected(s) \/ Received(s) PROVE LightInv'
  <2>1. UNCHANGED <<vars, isStart>>
    BY <1>7 DEF Connected, Disconnected, Received, Reports
  <2>2. CASE Received(s)
    BY <1>1, <2>1, <2>2 DEF Received, vars, isServerActive
  <2>3. ASSUME NEW on \in BOOLEAN, NotifyStatus(Status(s, on)) PROVE LightInv'
    <3>1. Status(s, on) \in StatusRecord
      BY StatusType
    <3>2. PICK t \in Seq(Closure) :
             /\ mainQueue' = mainQueue \o t
             /\ \A k \in DOMAIN t : t[k] = StatusClosure(Status(s, on))
      BY <2>3, <3>1, NotifyQueues
    <3>3. \A k \in DOMAIN t : ~IsCompletion(t[k])
      BY <3>2 DEF StatusClosure, IsCompletion
    <3> QED
      BY <1>5, <2>1, <3>2, <3>3
  <2> QED
    BY <1>7, <2>2, <2>3 DEF Connected, Disconnected
<1>8. CASE RunClosure
  <2>1. /\ mainQueue # << >> /\ mainQueue' = Tail(mainQueue) /\ UNCHANGED vars
        /\ isStart' = IF IsCompletion(Head(mainQueue)) THEN Shows(Head(mainQueue)) ELSE isStart
    BY <1>8 DEF RunClosure, IsCompletion, Shows
  <2>2. Lit(mainQueue, isStart, isServerActive) => Lit(mainQueue', isStart', isServerActive)
    BY <1>0, <2>1, LitByHead
  <2>3. isServerActive' = isServerActive
    BY <2>1 DEF isServerActive, vars
  <2> QED
    BY <1>1, <2>1, <2>2, <2>3 DEF vars
<1>9. CASE ServerStep
  BY <1>9, LightByServer
<1>10. CASE (\E p \in Others : OtherProgram(p)) /\ UNCHANGED viewVars
  BY <1>1, <1>10 DEF OtherProgram, viewVars, isServerActive
<1> QED
  BY <1>3, <1>4, <1>6, <1>7, <1>8, <1>9, <1>10 DEF ViewNext, OpenStep, SessionStep

\* Whichever starts, retries and restarts fail, and in whatever order taps,
\* blocks and closures come, the light agrees with the server once all is done,
\* unless stopping the server for a close failed.
THEOREM TheLightAgrees == ViewSpec => []LightAgrees
<1>1. Sound /\ Typed /\ LightInv => LightAgrees
  <2> SUFFICES ASSUME Sound, Typed, LightInv, Settled, ~CloseFailed
               PROVE  isStart <=> isServerActive
    BY DEF LightAgrees
  <2>1. running = "idle" /\ DOMAIN blocks = {} /\ DOMAIN mainQueue = {}
    BY DEF Settled, Sound, AtWork
  <2>2. Lit(mainQueue, isStart, isServerActive)
    BY <2>1 DEF LightInv
  <2> QED
    BY <2>1, <2>2 DEF Lit
<1>2. IInv /\ Typed /\ LightInv /\ [ViewNext]_<<vars, viewVars>> => LightInv'
  BY LightKept DEF IInv
<1>3. IInv => Sound
  BY DEF IInv
<1> QED
  BY <1>1, <1>2, <1>3, LightInit, TypedAlways, PTL DEF ViewSpec

-----------------------------------------------------------------------------
(* Echoes do not add up.                                                   *)

\* How often x is in the sequence q.
Places(q, x) == {j \in DOMAIN q : q[j] = x}
Times(q, x) == Cardinality(Places(q, x))

\* No text is echoed more often than EchoesDoNotAddUp says; an echo is of a text
\* that has been received, when no more opens were done than now; and there is
\* one subscription, or none while openServer is about to make it.
CountInv ==
    /\ receiveObservers \in {0, 1}
    /\ tap \in {"disposed", "subscribing"} => receiveObservers = 0
    /\ \A s \in Session : \A i \in DOMAIN echoes[s] :
          /\ echoes[s][i].text.n <= texts[s]
          /\ echoes[s][i].text.opens <= Opens
          /\ Times(echoes[s], echoes[s][i]) <= 1 + Opens - echoes[s][i].text.opens
    /\ \A context \in lastReceive :
          /\ context.content.n <= texts[context.sessionId]
          /\ context.content.opens <= Opens

LEMMA TimesType ==
    ASSUME NEW S, NEW q \in Seq(S), NEW x
    PROVE  IsFiniteSet(Places(q, x)) /\ Times(q, x) \in Nat
<1>1. DOMAIN q = 1 .. Len(q) /\ Len(q) \in Nat
  OBVIOUS
<1>2. IsFiniteSet(DOMAIN q)
  BY <1>1, FS_Interval
<1>3. IsFiniteSet(Places(q, x))
  BY <1>2, FS_Subset DEF Places
<1> QED
  BY <1>3, FS_CardinalityType DEF Times

LEMMA TimesAppended ==
    ASSUME NEW S, NEW q \in Seq(S), NEW e \in S, NEW x
    PROVE  /\ x # e => Times(Append(q, e), x) = Times(q, x)
           /\ Times(Append(q, e), e) = Times(q, e) + 1
           /\ (\A i \in DOMAIN q : q[i] # x) => Times(q, x) = 0
<1> DEFINE n == Len(q) + 1
           p == Append(q, e)
<1>1. DOMAIN q = 1 .. Len(q) /\ Len(q) \in Nat /\ DOMAIN p = DOMAIN q \cup {n}
      /\ n \notin DOMAIN q
  OBVIOUS
<1>2. (\A i \in DOMAIN q : p[i] = q[i]) /\ p[n] = e
  OBVIOUS
<1>4. \A y : IsFiniteSet(Places(q, y))
  BY TimesType
<1> HIDE DEF n, p
<1>5. x # e => Places(p, x) = Places(q, x)
  BY <1>1, <1>2 DEF Places
<1>6. Places(p, e) = Places(q, e) \cup {n} /\ n \notin Places(q, e)
  BY <1>1, <1>2 DEF Places
<1>7. Times(p, e) = Times(q, e) + 1
  BY <1>4, <1>6, FS_AddElement DEF Times
<1>8. ASSUME \A i \in DOMAIN q : q[i] # x PROVE Times(q, x) = 0
  <2>1. Places(q, x) = {}
    BY <1>8 DEF Places
  <2> QED
    BY <2>1, FS_EmptySet DEF Times
<1> QED
  BY <1>4, <1>5, <1>7, <1>8 DEF p, Times

LEMMA NoneOrOne ==
    ASSUME NEW S, NEW q \in Seq(S), NEW e \in S
    PROVE  q \o Copies(0, e) = q /\ q \o Copies(1, e) = Append(q, e)
<1>1. Copies(0, e) = << >> /\ Copies(1, e) = <<e>>
  BY DEF Copies
<1>2. q \o << >> = q /\ q \o <<e>> = Append(q, e)
  OBVIOUS
<1> QED
  BY <1>1, <1>2

\* A tap on Open and its end change Opens together.
LEMMA OpensAsked ==
    ASSUME TypeOK, tap = "done", openServer \/ closeServr
    PROVE  Opens' = Opens
<1>1. PICK b, q :
         /\ AsksWith(b, q)
         /\ q.kind = (IF tap' = "asked" THEN "open" ELSE "close")
  BY AskedOnce
<1> DEFINE n == Len(requests) + 1
<1>2. /\ requests \in Seq(RequestRecord) /\ q \in RequestRecord
      /\ requests' = Append(requests, q)
  BY <1>1, Types DEF AsksWith
<1>3. /\ Len(requests') = n /\ n \notin 1 .. Len(requests) /\ requests'[n] = q
      /\ 1 .. n = (1 .. Len(requests)) \cup {n}
      /\ \A r \in 1 .. Len(requests) : requests'[r] = requests[r]
  BY <1>2
<1> HIDE DEF n
<1>4. /\ IsFiniteSet(OpenRequests) /\ Cardinality(OpenRequests) \in Nat
      /\ Opens = Cardinality(OpenRequests)
  BY OpensType
<1>5. OpenRequests' = OpenRequests \cup (IF q.kind = "open" THEN {n} ELSE {})
      /\ n \notin OpenRequests
  BY <1>3 DEF OpenRequests
<1>6. Opens' = Cardinality(OpenRequests') - (IF tap' = "done" THEN 0 ELSE 1)
  BY DEF Opens, OpenRequests
<1>7. CASE q.kind = "open"
  <2>1. tap' = "asked"
    BY <1>1, <1>7
  <2>2. OpenRequests' = OpenRequests \cup {n}
    BY <1>5, <1>7
  <2>3. Cardinality(OpenRequests') = Cardinality(OpenRequests) + 1
    BY <1>4, <1>5, <2>2, FS_AddElement
  <2> QED
    BY <1>4, <1>6, <2>1, <2>3
<1>8. CASE q.kind # "open"
  <2>1. tap' # "asked" /\ OpenRequests' = OpenRequests
    BY <1>1, <1>5, <1>8
  <2>2. tap' = "done"
    BY <2>1 DEF openServer, closeServr, viewVars
  <2> QED
    BY <1>4, <1>6, <2>1, <2>2
<1> QED
  BY <1>7, <1>8

LEMMA Within ==
    ASSUME NEW a \in Nat, NEW b \in Nat, NEW c \in Nat, NEW opens \in Int, NEW before \in Int,
           NEW after \in Int, NEW k \in Nat,
           a <= b, b <= c, opens <= before, before <= after, k <= 1 + before - opens
    PROVE  a <= c /\ opens <= after /\ k <= 1 + after - opens
OBVIOUS

\* A session hears of a text as CountInv allows: x is sent to it n times.
LEMMA SendCounts ==
    ASSUME Sound, Typed, CountInv, NEW context \in ContextRecord, NEW n \in {0, 1},
           echoes' \in serverSend(context, n),
           NEW o \in Int, o = Opens', Opens <= o,
           texts' \in [Session -> Nat], \A s \in Session : texts[s] <= texts'[s],
           context.content.n <= texts'[context.sessionId],
           context.content.opens <= Opens,
           o > Opens \/ context.content.n > texts[context.sessionId]
    PROVE  \A s \in Session : \A i \in DOMAIN echoes'[s] :
              /\ echoes'[s][i].text.n <= texts'[s]
              /\ echoes'[s][i].text.opens <= o
              /\ Times(echoes'[s], echoes'[s][i]) <= 1 + o - echoes'[s][i].text.opens
<1> SUFFICES ASSUME NEW s \in Session, NEW i \in DOMAIN echoes'[s]
             PROVE  /\ echoes'[s][i].text.n <= texts'[s]
                    /\ echoes'[s][i].text.opens <= o
                    /\ Times(echoes'[s], echoes'[s][i]) <= 1 + o - echoes'[s][i].text.opens
  OBVIOUS
<1>0. /\ echoes \in [Session -> Seq(EchoRecord)] /\ texts \in [Session -> Nat]
      /\ Opens \in Int /\ context.sessionId \in Session /\ context.content \in Content
  BY OpensType DEF Typed, Sound, ContextRecord
<1>1. ASSUME NEW j \in DOMAIN echoes[s]
      PROVE  /\ echoes[s][j] \in EchoRecord
             /\ echoes[s][j].text.n \in Nat /\ echoes[s][j].text.opens \in Int
             /\ echoes[s][j].text.n <= texts[s] /\ texts[s] <= texts'[s]
             /\ echoes[s][j].text.opens <= Opens
             /\ Times(echoes[s], echoes[s][j]) <= 1 + Opens - echoes[s][j].text.opens
  <2>1. echoes[s] \in Seq(EchoRecord)
    BY <1>0
  <2>2. echoes[s][j] \in EchoRecord
    BY <2>1
  <2> QED
    BY <2>2 DEF CountInv, EchoRecord, Content
<1>2. \A x : Times(echoes[s], x) \in Nat
  <2>1. echoes[s] \in Seq(EchoRecord)
    BY <1>0
  <2> QED
    BY <2>1, TimesType
<1>3. CASE echoes'[s] = echoes[s]
  <2> DEFINE x == echoes[s][i]
  <2>1. /\ x.text.n \in Nat /\ x.text.opens \in Int
        /\ x.text.n <= texts[s] /\ texts[s] <= texts'[s]
        /\ x.text.opens <= Opens
        /\ Times(echoes[s], x) <= 1 + Opens - x.text.opens
        /\ Times(echoes[s], x) \in Nat
    BY <1>1, <1>2, <1>3
  <2>2. echoes'[s][i] = x /\ Times(echoes'[s], x) = Times(echoes[s], x)
    BY <1>3
  <2>3. texts[s] \in Nat /\ texts'[s] \in Nat
    BY <1>0
  <2> HIDE DEF x
  <2>4. /\ x.text.n <= texts'[s] /\ x.text.opens <= o
        /\ Times(echoes[s], x) <= 1 + o - x.text.opens
    <3>1. Opens \in Int /\ Opens <= o
      BY <1>0
    <3> HIDE <1>0
    <3> QED
      BY <2>1, <2>3, <3>1, Within
  <2> QED
    BY <2>2, <2>4
<1>4. ASSUME NEW e \in EchoRecord, e.text = context.content, s = context.sessionId,
             echoes'[s] = Append(echoes[s], e)
      PROVE  /\ echoes'[s][i].text.n <= texts'[s]
             /\ echoes'[s][i].text.opens <= o
             /\ Times(echoes'[s], echoes'[s][i]) <= 1 + o - echoes'[s][i].text.opens
  <2> DEFINE q == echoes[s]
             x == echoes'[s][i]
  <2>1. q \in Seq(EchoRecord)
    BY <1>0
  <2>2. (i \in DOMAIN q /\ x = q[i]) \/ x = e
    BY <1>4, <2>1
  <2> HIDE DEF q, x
  <2>3. /\ x # e => Times(echoes'[s], x) = Times(q, x)
        /\ Times(echoes'[s], e) = Times(q, e) + 1
        /\ (\A j \in DOMAIN q : q[j] # e) => Times(q, e) = 0
        /\ Times(q, e) \in Nat /\ Times(q, x) \in Nat
    <3>1. echoes'[s] = Append(q, e)
      BY <1>4 DEF q
    <3> QED
      BY <2>1, <3>1, TimesType, TimesAppended
  <2>4. context.content.n \in Nat /\ context.content.opens \in Int
    BY <1>0 DEF Content
  <2>5. CASE x # e
    <3>1. /\ x.text.n \in Nat /\ x.text.opens \in Int
          /\ x.text.n <= texts[s] /\ texts[s] <= texts'[s]
          /\ x.text.opens <= Opens
          /\ Times(q, x) <= 1 + Opens - x.text.opens
      BY <1>1, <2>2, <2>5 DEF q
    <3>2. texts[s] \in Nat /\ texts'[s] \in Nat
      BY <1>0
    <3>3. /\ x.text.n <= texts'[s] /\ x.text.opens <= o
          /\ Times(echoes'[s], x) <= 1 + o - x.text.opens
      <4>1. Opens \in Int /\ Opens <= o
        BY <1>0
      <4>2. Times(echoes'[s], x) = Times(q, x) /\ Times(q, x) \in Nat
        BY <2>3, <2>5
      <4> HIDE <1>0
      <4> QED
        BY <3>1, <3>2, <4>1, <4>2, Within
    <3> QED
      BY <3>3 DEF x
  <2>6. CASE x = e
    <3>0. x.text = context.content
      BY <1>4, <2>6
    <3>1. x.text.n <= texts'[s] /\ x.text.opens <= o
      <4>1. \A a, b, c \in Int : a <= b /\ b <= c => a <= c
        OBVIOUS
      <4> QED
        BY Zenon, <1>0, <1>4, <2>4, <3>0, <4>1
    <3>2. CASE \A j \in DOMAIN q : q[j] # e
      <4>1. Times(echoes'[s], x) = 1
        BY <2>3, <2>6, <3>2
      <4>2. x.text.opens \in Int /\ x.text.opens <= o
        BY <2>4, <3>0, <3>1
      <4>3. Times(echoes'[s], x) <= 1 + o - x.text.opens
        BY <4>1, <4>2
      <4> QED
        BY <3>1, <4>3 DEF x
    <3>3. ASSUME NEW j \in DOMAIN q, q[j] = e
          PROVE  Times(echoes'[s], x) <= 1 + o - x.text.opens
      <4>1. /\ Times(q, e) <= 1 + Opens - context.content.opens
            /\ context.content.n <= texts[s]
        BY <1>1, <1>4, <3>3 DEF q
      <4>2. Opens \in Int /\ o \in Int
        BY <1>0
      <4>3. Opens + 1 <= o
        <5>1. texts[s] \in Nat /\ texts[s] = texts[context.sessionId]
          BY <1>0, <1>4
        <5>2. \A a, b \in Nat : a <= b => ~(a > b)
          OBVIOUS
        <5>3. o > Opens
          BY Zenon, <2>4, <4>1, <5>1, <5>2
        <5> HIDE <1>0
        <5> QED
          BY <4>2, <5>3
      <4>4. /\ Times(echoes'[s], x) = Times(q, e) + 1
            /\ Times(q, e) \in Nat
            /\ x.text.opens = context.content.opens
        BY Zenon, <2>3, <2>6, <3>0
      <4> HIDE <1>0
      <4> QED
        BY <2>4, <4>1, <4>2, <4>3, <4>4
    <3> QED
      BY <3>1, <3>2, <3>3 DEF x
  <2> QED
    BY <2>5, <2>6
<1>5. \/ echoes'[s] = echoes[s]
      \/ \E e \in EchoRecord :
            /\ e.text = context.content /\ s = context.sessionId
            /\ echoes'[s] = Append(echoes[s], e)
  <2>1. CASE echoes' = echoes
    BY <2>1
  <2>2. CASE /\ Serves
             /\ echoes' = [echoes EXCEPT ![context.sessionId] =
                     @ \o Copies(n, [text |-> context.content, server |-> httpServer])]
    <3> DEFINE e == [text |-> context.content, server |-> httpServer]
    <3>1. e \in EchoRecord /\ e.text = context.content
      BY <1>0, <2>2, Serving DEF EchoRecord
    <3> HIDE DEF e
    <3>2. echoes' = [echoes EXCEPT ![context.sessionId] = @ \o Copies(n, e)]
      BY <2>2 DEF e
    <3>3. CASE s # context.sessionId
      BY <1>0, <3>2, <3>3
    <3>4. CASE s = context.sessionId
      <4>1. echoes'[s] = echoes[s] \o Copies(n, e) /\ echoes[s] \in Seq(EchoRecord)
        BY <1>0, <3>2, <3>4
      <4>2. echoes[s] \o Copies(0, e) = echoes[s]
            /\ echoes[s] \o Copies(1, e) = Append(echoes[s], e)
        BY <3>1, <4>1, NoneOrOne
      <4> QED
        BY <3>1, <3>4, <4>1, <4>2
    <3> QED
      BY <3>3, <3>4
  <2> QED
    BY <2>1, <2>2, Sends
<1> QED
  BY <1>3, <1>4, <1>5

LEMMA OpensSame ==
    ASSUME \/ requests' = requests /\ tap' = tap
           \/ requests' = requests /\ tap # "done" /\ tap' # "done"
    PROVE  Opens' = Opens
  BY DEF Opens

LEMMA CountSame ==
    ASSUME Sound, Sound', Typed, CountInv, Opens' = Opens,
           UNCHANGED <<echoes, texts>>, lastReceive' \subseteq lastReceive,
           receiveObservers' \in {0, 1},
           tap' \in {"disposed", "subscribing"} => receiveObservers' = 0
    PROVE  CountInv'
<1>1. Opens' = Opens /\ echoes' = echoes /\ texts' = texts
  OBVIOUS
<1>2. \A s \in Session : \A i \in DOMAIN echoes'[s] :
          /\ echoes'[s][i].text.n <= texts'[s]
          /\ echoes'[s][i].text.opens <= Opens'
          /\ Times(echoes'[s], echoes'[s][i]) <= 1 + Opens' - echoes'[s][i].text.opens
  BY <1>1 DEF CountInv
<1>3. \A context \in lastReceive' :
          /\ context.content.n <= texts'[context.sessionId]
          /\ context.content.opens <= Opens'
  BY <1>1 DEF CountInv
<1> QED
  BY <1>2, <1>3 DEF CountInv, Times, Places

LEMMA CountInit == ViewInit => CountInv
<1> SUFFICES ASSUME ViewInit PROVE CountInv
  OBVIOUS
<1>1. \A s \in Session : DOMAIN echoes[s] = {}
  BY DEF ViewInit
<1> QED
  BY <1>1 DEF ViewInit, CountInv

LEMMA CountKept ==
    ASSUME Sound, Sound', Typed, Typed', CountInv, [ViewNext]_<<vars, viewVars>>
    PROVE  CountInv'
<1>0. /\ TypeOK /\ Opens \in Int /\ texts \in [Session -> Nat]
      /\ receiveObservers \in {0, 1}
      /\ tap \in {"disposed", "subscribing"} => receiveObservers = 0
  BY OpensType DEF Sound, Typed, CountInv
<1>1. CASE openServer \/ closeServr
  <2>1. tap = "done" /\ tap' \notin {"disposed", "subscribing"}
        /\ UNCHANGED <<echoes, texts, lastReceive, receiveObservers>>
    BY <1>1 DEF openServer, closeServr, viewVars, subjectVars, serverVars
  <2>2. Opens' = Opens
    BY <1>0, <1>1, <2>1, OpensAsked
  <2> QED
    BY <1>0, <2>1, <2>2, CountSame
<1>2. CASE DisposeStatus \/ DisposeReceive \/ SubscribeStatus
  <2>1. /\ requests' = requests /\ tap # "done" /\ tap' # "done"
        /\ tap' = "disposing" \/ receiveObservers' = 0
        /\ receiveObservers' \in {0, receiveObservers}
        /\ UNCHANGED <<echoes, texts, lastReceive>>
    BY <1>0, <1>2 DEF DisposeStatus, DisposeReceive, SubscribeStatus, Continues, vars
  <2>2. Opens' = Opens
    BY <2>1, OpensSame
  <2> QED
    BY <1>0, <2>1, <2>2, CountSame
<1>3. CASE SubscribeReceive
  <2>1. /\ tap = "subscribing" /\ tap' = "done" /\ receiveObservers' = 1
        /\ UNCHANGED <<requests, texts, lastReceive>>
    BY <1>0, <1>3 DEF SubscribeReceive, Continues, vars
  <2>2. Opens' = Opens + 1
    <3>1. OpenRequests' = OpenRequests
      BY <2>1 DEF OpenRequests
    <3>2. Opens' = Cardinality(OpenRequests') - 0
      BY <2>1 DEF Opens, OpenRequests
    <3> QED
      BY <1>0, <2>1, <3>1, <3>2, OpensType
  <2>3. \A context \in lastReceive' :
          /\ context.content.n <= texts'[context.sessionId]
          /\ context.content.opens <= Opens'
    <3> SUFFICES ASSUME NEW context \in lastReceive
                 PROVE  /\ context.content.n <= texts[context.sessionId]
                        /\ context.content.opens <= Opens + 1
      BY <2>1, <2>2
    <3>1. context.content.opens \in Int
      BY DEF Typed, ContextRecord, Content
    <3>2. context.content.n <= texts[context.sessionId] /\ context.content.opens <= Opens
      BY DEF CountInv
    <3> QED
      BY <1>0, <3>1, <3>2
  <2>4. \A s \in Session : \A i \in DOMAIN echoes'[s] :
          /\ echoes'[s][i].text.n <= texts'[s]
          /\ echoes'[s][i].text.opens <= Opens'
          /\ Times(echoes'[s], echoes'[s][i]) <= 1 + Opens' - echoes'[s][i].text.opens
    <3>1. PICK o \in Int : o = Opens' /\ o = Opens + 1
      BY <1>0, <2>2
    <3>2. \A s \in Session : texts[s] <= texts'[s]
      BY <1>0, <2>1
    <3>3. CASE lastReceive = {}
      <4>1. echoes' = echoes
        BY <1>3, <3>3 DEF SubscribeReceive
      <4> SUFFICES ASSUME NEW s \in Session, NEW i \in DOMAIN echoes[s]
                   PROVE  /\ echoes[s][i].text.n <= texts[s]
                          /\ echoes[s][i].text.opens <= o
                          /\ Times(echoes[s], echoes[s][i]) <= 1 + o - echoes[s][i].text.opens
        BY <2>1, <3>1, <4>1
      <4> DEFINE x == echoes[s][i]
      <4>2. x \in EchoRecord /\ echoes[s] \in Seq(EchoRecord)
        BY DEF Typed
      <4>3. x.text.opens \in Int
        BY <4>2 DEF EchoRecord, Content
      <4>4. /\ x.text.n <= texts[s] /\ x.text.opens <= Opens
            /\ Times(echoes[s], x) <= 1 + Opens - x.text.opens
        BY DEF CountInv
      <4>5. Times(echoes[s], x) \in Nat
        BY <4>2, TimesType
      <4> HIDE DEF x
      <4>6. x.text.opens <= o /\ Times(echoes[s], x) <= 1 + o - x.text.opens
        BY <1>0, <3>1, <4>3, <4>4, <4>5
      <4> QED
        BY <4>4, <4>6 DEF x
    <3>4. CASE lastReceive # {}
      <4>1. PICK context \in lastReceive : echoes' \in serverSend(context, 1)
        BY <1>3, <3>4 DEF SubscribeReceive
      <4>2. context \in ContextRecord
        BY <4>1 DEF Typed
      <4>3. /\ context.content.n <= texts'[context.sessionId]
            /\ context.content.opens <= Opens
        BY <2>1, <4>1 DEF CountInv
      <4>4. Opens <= o /\ o > Opens
        BY <1>0, <3>1
      <4>5. texts' \in [Session -> Nat]
        BY DEF Typed
      <4>6. \A s \in Session : \A i \in DOMAIN echoes'[s] :
              /\ echoes'[s][i].text.n <= texts'[s]
              /\ echoes'[s][i].text.opens <= o
              /\ Times(echoes'[s], echoes'[s][i]) <= 1 + o - echoes'[s][i].text.opens
        BY <3>1, <3>2, <4>1, <4>2, <4>3, <4>4, <4>5, SendCounts
      <4> QED
        BY <3>1, <4>6
    <3> QED
      BY <3>3, <3>4
  <2> QED
    BY <2>1, <2>3, <2>4 DEF CountInv, Times, Places
<1>4. ASSUME NEW s \in Session, Received(s) PROVE CountInv'
  <2> DEFINE context == Context(s, texts[s] + 1)
  <2>1. /\ context \in ContextRecord /\ context.sessionId = s
        /\ context.content = [n |-> texts[s] + 1, server |-> httpServer, opens |-> Opens]
        /\ texts' = [texts EXCEPT ![s] = @ + 1]
        /\ lastReceive' = {context}
        /\ echoes' \in serverSend(context, receiveObservers)
    BY <1>4, ReceivedType
  <2>2. UNCHANGED <<requests, tap, receiveObservers>>
    BY <1>4 DEF Received, Reports, vars
  <2>3. Opens' = Opens
    BY <2>2, OpensSame
  <2> HIDE DEF context
  <2>4. /\ context.content.n = texts[s] + 1 /\ context.content.opens = Opens
        /\ texts'[s] = texts[s] + 1 /\ texts' \in [Session -> Nat]
        /\ \A d \in Session : texts[d] <= texts'[d]
    BY <1>0, <2>1
  <2>5. PICK o \in Int : o = Opens' /\ o = Opens
    BY <1>0, <2>3
  <2>6. /\ Opens <= o
        /\ context.content.n <= texts'[context.sessionId]
        /\ context.content.opens <= Opens
        /\ context.content.n > texts[context.sessionId]
    BY <1>0, <2>1, <2>4, <2>5
  <2>7. \A d \in Session : \A i \in DOMAIN echoes'[d] :
          /\ echoes'[d][i].text.n <= texts'[d]
          /\ echoes'[d][i].text.opens <= o
          /\ Times(echoes'[d], echoes'[d][i]) <= 1 + o - echoes'[d][i].text.opens
    BY <1>0, <2>1, <2>4, <2>5, <2>6, SendCounts
  <2>8. \A d \in lastReceive' :
          d.content.n <= texts'[d.sessionId] /\ d.content.opens <= Opens'
    BY <1>0, <2>1, <2>5, <2>6
  <2> QED
    BY <1>0, <2>2, <2>5, <2>7, <2>8 DEF CountInv, Times, Places
<1>5. ASSUME UNCHANGED <<requests, tap, receiveObservers, echoes, texts>>,
             lastReceive' \subseteq lastReceive
      PROVE  CountInv'
  BY <1>0, <1>5, OpensSame, CountSame
<1>6. ASSUME NEW s \in Session, Connected(s) \/ Disconnected(s) PROVE CountInv'
  BY <1>5, <1>6 DEF Connected, Disconnected, Reports, vars
<1>7. CASE RunClosure
  BY <1>5, <1>7 DEF RunClosure, vars, subjectVars, serverVars
<1>8. CASE ServerStep
  BY <1>0, <1>5, <1>8, QueueEnds DEF ServerStep, ResetValues
<1>9. CASE (\E p \in Others : OtherProgram(p)) /\ UNCHANGED viewVars
  BY <1>5, <1>9 DEF OtherProgram, viewVars, subjectVars, serverVars
<1>10. CASE UNCHANGED <<vars, viewVars>>
  BY <1>5, <1>10 DEF vars, viewVars, subjectVars, serverVars
<1> QED
  BY <1>1, <1>2, <1>3, <1>4, <1>6, <1>7, <1>8, <1>9, <1>10
  DEF ViewNext, OpenStep, SessionStep

\* The subscriptions of openServer do not add up: a text is echoed once, and
\* once more at most for every Open after it, whatever threads come between the
\* disposing, the subscribing and the replay.
THEOREM EchoesStayFew == ViewSpec => []EchoesDoNotAddUp
<1>1. CountInv => EchoesDoNotAddUp
  BY DEF CountInv, EchoesDoNotAddUp, Times, Places
<1>2. /\ IInv /\ IInv' /\ Typed /\ Typed' /\ CountInv /\ [ViewNext]_<<vars, viewVars>>
      => CountInv'
  BY CountKept DEF IInv
<1> QED
  BY <1>1, <1>2, CountInit, TypedAlways, PTL DEF ViewSpec

-----------------------------------------------------------------------------
(* A text and its echo are one server's.  Stopping must not fail, and a    *)
(* port in use must not make the server try another: then one server at    *)
(* most takes connections, LocalHttpServer's or one it has lost.           *)

Takes(x) == servers[x].state \in {"listening", "closed"}

SoleInv ==
    /\ \A x, y \in Server : Takes(x) /\ Takes(y) => x = y
    /\ \A x \in Server : servers[x].state = "closed" => running = "stopping" /\ httpServer = x
    /\ \A x \in Server : Takes(x) => replies[x[1]] # << >>
    /\ running = "binding" => httpServer = <<Block.request, Block.port>>
    /\ \A x \in Server : servers[x].port = defaultPort
    /\ \A i \in DOMAIN blocks : blocks[i].port = defaultPort

HeldInv ==
    /\ \A context \in lastReceive : Takes(context.content.server)
    /\ EchoFromSameServer

LEMMA SoleInit == ViewInit => SoleInv /\ HeldInv
<1> SUFFICES ASSUME ViewInit PROVE SoleInv /\ HeldInv
  OBVIOUS
<1>1. /\ \A x \in Server : servers[x] = NoServer
      /\ running = "idle" /\ DOMAIN blocks = {} /\ lastReceive = {}
      /\ \A s \in Session : DOMAIN echoes[s] = {}
  BY DEF ViewInit, Init
<1>2. \A x \in Server : servers[x].state = "none" /\ servers[x].port = defaultPort
  BY <1>1 DEF NoServer
<1> QED
  BY <1>1, <1>2 DEF SoleInv, HeldInv, Takes, EchoFromSameServer

\* A block that is running has not been answered.
LEMMA Unanswered ==
    ASSUME Sound, blocks # << >>
    PROVE  /\ Block.request \in Request /\ replies[Block.request] = << >>
           /\ Block \in BlockRecord
           /\ 1 \in DOMAIN blocks /\ Block = blocks[1]
<1>1. 1 \in DOMAIN blocks /\ Head(blocks) = blocks[1]
  BY Types, Removed DEF Sound
<1>2. Block.request \in 1 .. Len(requests) /\ Block.request \in Request
  BY HeadBlock
<1> QED
  BY <1>1, <1>2, HeadBlock DEF Sound, Served, Outstanding, Block

\* A port that is in use is taken, a port that is not is free of our servers.
LEMMA SoleQueue ==
    ASSUME ~BridgesErrno, ~ShutdownMayFail, Sound, Sound', SoleInv, QueueStep
    PROVE  /\ SoleInv'
           /\ StopSucceeds \/ \A x \in Server : Takes(x) => Takes(x)'
<1> DEFINE Goal == /\ SoleInv'
                   /\ StopSucceeds \/ \A x \in Server : Takes(x) => Takes(x)'
<1>0. /\ servers \in [Server -> ServerRecord] /\ replies \in [Request -> Seq(BOOLEAN)]
      /\ blocks \in Seq(BlockRecord)
      /\ \A x \in Server : x[1] \in Request /\ x # Nil
  BY Types, NotNil DEF Sound, Server
<1>1. CASE StartCreate
  <2> DEFINE h == <<Block.request, Block.port>>
  <2>1. /\ blocks # << >> /\ running = "idle" /\ running' = "binding"
        /\ httpServer' = h /\ blocks' = blocks /\ replies' = replies
        /\ servers' = [servers EXCEPT ![h] =
                         [state |-> "created", port |-> Block.port, secure |-> Block.secure]]
    BY <1>1 DEF StartCreate, Runs
  <2>2. h \in Server /\ h[1] = Block.request /\ replies[h[1]] = << >> /\ Block.port = defaultPort
    BY <2>1, Unanswered DEF Server, BlockRecord, SoleInv
  <2>3. ~Takes(h)
    BY <2>2 DEF SoleInv
  <2> HIDE DEF h
  <2>4. /\ servers'[h].state = "created" /\ servers'[h].port = defaultPort
        /\ \A x \in Server : x # h => servers'[x] = servers[x]
    BY <1>0, <2>1, <2>2
  <2>5. \A x \in Server : (Takes(x) <=> Takes(x)') /\ servers[x].state # "closed"
    BY <2>1, <2>3, <2>4 DEF Takes, SoleInv
  <2>6. \A x \in Server : servers'[x].state # "closed" /\ servers'[x].port = defaultPort
    BY <2>4, <2>5 DEF SoleInv
  <2>7. httpServer' = <<Block.request, Block.port>>'
    BY <2>1 DEF Block, h
  <2> QED
    BY <2>1, <2>5, <2>6, <2>7 DEF SoleInv, Takes
<1>2. ASSUME NEW h \in Server, h = httpServer, NEW state \in State, Becomes(state)
      PROVE  /\ servers'[h].state = state
             /\ \A x \in Server : x # h => servers'[x] = servers[x]
             /\ \A x \in Server : servers'[x].port = servers[x].port
  BY <1>2, BecomesState DEF Sound
<1>3. ASSUME NEW b, Requeues(b), b.port = defaultPort
      PROVE  /\ \A i \in DOMAIN blocks' : blocks'[i].port = defaultPort
             /\ replies' = replies
  <2>1. /\ Tail(blocks) \in Seq(BlockRecord) /\ b \in BlockRecord
        /\ blocks' = Append(Tail(blocks), b)
    BY <1>0, <1>3, Removed DEF Requeues
  <2>2. \A i \in DOMAIN Tail(blocks) : Tail(blocks)[i].port = defaultPort
    BY <1>0, <1>3, Removed DEF SoleInv, Requeues
  <2>3. \A i \in DOMAIN blocks' :
           blocks'[i] = b \/ (i \in DOMAIN Tail(blocks) /\ blocks'[i] = Tail(blocks)[i])
    <3> DEFINE q == Tail(blocks)
    <3>1. q \in Seq(BlockRecord) /\ b \in BlockRecord /\ blocks' = Append(q, b)
      BY <2>1
    <3> HIDE DEF q
    <3>2. \A i \in DOMAIN blocks' : blocks'[i] = b \/ (i \in DOMAIN q /\ blocks'[i] = q[i])
      BY <3>1
    <3> QED
      BY <3>2 DEF q
  <2> QED
    BY <1>3, <2>2, <2>3 DEF Requeues
<1>4. ASSUME NEW b \in BOOLEAN, Answers(b)
      PROVE  /\ \A i \in DOMAIN blocks' : blocks'[i].port = defaultPort
             /\ replies'[Block.request] # << >>
             /\ \A r \in Request : replies[r] # << >> => replies'[r] # << >>
  <2>1. \A i \in DOMAIN blocks' : i + 1 \in DOMAIN blocks /\ blocks'[i] = blocks[i + 1]
    BY <1>0, <1>4, Removed DEF Answers
  <2>2. replies'[Block.request] = <<b>> /\ <<b>> # << >>
        /\ \A r \in Request : r # Block.request => replies'[r] = replies[r]
    BY <1>4, OneCompletion
  <2> QED
    BY <2>1, <2>2 DEF SoleInv
<1>5. CASE BindSucceeds
  <2> DEFINE h == <<Block.request, Block.port>>
  <2>1. /\ blocks # << >> /\ httpServer \in Server /\ running' = "idle"
        /\ httpServer' = httpServer /\ Becomes("listening") /\ Answers(TRUE)
    BY <1>5, BindEnds
  <2>2. running = "binding" /\ ~InUse(Block.port) /\ Block.port = defaultPort
        /\ httpServer = h /\ h[1] = Block.request
    BY <1>5, <2>1, Unanswered DEF BindSucceeds, Runs, SoleInv
  <2> HIDE DEF h
  <2>3. /\ servers'[h].state = "listening"
        /\ \A x \in Server : x # h => servers'[x] = servers[x]
        /\ \A x \in Server : servers'[x].port = defaultPort
    BY <1>2, <2>1, <2>2 DEF State, SoleInv
  <2>4. \A x \in Server : ~Takes(x)
    BY <2>2 DEF InUse, SoleInv, Takes
  <2>5. \A x \in Server : servers'[x].state # "closed" /\ (Takes(x)' => x = h)
    BY <2>3, <2>4 DEF Takes
  <2>6. replies'[h[1]] # << >> /\ \A i \in DOMAIN blocks' : blocks'[i].port = defaultPort
    BY <1>4, <2>1, <2>2
  <2> QED
    BY <2>1, <2>3, <2>4, <2>5, <2>6 DEF SoleInv
<1>6. CASE BindFails
  <2> DEFINE h == <<Block.request, Block.port>>
  <2>1. /\ blocks # << >> /\ httpServer \in Server /\ running' = "idle"
        /\ httpServer' = httpServer /\ Becomes("failed") /\ Answers(FALSE)
    BY <1>6, BindEnds
  <2>2. running = "binding" /\ httpServer = h /\ h[1] = Block.request
        /\ replies[Block.request] = << >>
    BY <1>6, <2>1, Unanswered DEF BindFails, Runs, SoleInv
  <2>3. ~Takes(h)
    BY <2>1, <2>2 DEF SoleInv
  <2> HIDE DEF h
  <2>4. /\ servers'[h].state = "failed"
        /\ \A x \in Server : x # h => servers'[x] = servers[x]
        /\ \A x \in Server : servers'[x].port = defaultPort
    BY <1>2, <2>1, <2>2 DEF State, SoleInv
  <2>5. \A x \in Server : servers'[x].state # "closed" /\ (Takes(x)' <=> Takes(x))
    BY <2>2, <2>3, <2>4 DEF Takes, SoleInv
  <2>6. /\ \A i \in DOMAIN blocks' : blocks'[i].port = defaultPort
        /\ \A x \in Server : Takes(x)' => replies'[x[1]] # << >>
    BY <1>0, <1>4, <2>1, <2>5 DEF SoleInv
  <2> QED
    BY <2>1, <2>4, <2>5, <2>6 DEF SoleInv
<1>7. ~BindRetries /\ ~BindGivesUp /\ ~StopFails
  BY DEF BindRetries, BindGivesUp, StopFails
<1>8. CASE StopChannel
  <2>1. /\ blocks # << >> /\ running = "idle" /\ running' = "stopping"
        /\ UNCHANGED <<replies, blocks, httpServer>>
    BY <1>8 DEF StopChannel, Runs
  <2>2. CASE isServerActive
    <3>1. httpServer \in Server /\ servers[httpServer].state = "listening"
          /\ Becomes("closed")
      BY <1>8, <2>2 DEF isServerActive, StopChannel, Sound, TypeOK
    <3>2. /\ servers'[httpServer].state = "closed"
          /\ \A x \in Server : x # httpServer => servers'[x] = servers[x]
          /\ \A x \in Server : servers'[x].port = defaultPort
      BY <1>2, <3>1 DEF State, SoleInv
    <3>3. \A x \in Server : Takes(x)' <=> Takes(x)
      BY <3>1, <3>2 DEF Takes
    <3>4. \A x \in Server : servers'[x].state = "closed" => x = httpServer
      BY <2>1, <3>2 DEF SoleInv
    <3> QED
      BY <2>1, <3>2, <3>3, <3>4 DEF SoleInv
  <2>3. CASE ~isServerActive
    <3>1. servers' = servers
      BY <1>8, <2>3 DEF StopChannel
    <3> QED
      BY <2>1, <3>1 DEF SoleInv, Takes
  <2> QED
    BY <2>2, <2>3
<1>9. CASE StopSucceeds
  <2>1. /\ blocks # << >> /\ running = "stopping" /\ running' = "idle"
        /\ Runs("stopping", {"stop", "restart"}) /\ StopCompletes(TRUE)
        /\ requests' = requests
    BY <1>9 DEF StopSucceeds, Runs
  <2>2. /\ \A x \in Server : servers'[x].state # "closed" /\ (Takes(x)' => Takes(x))
        /\ \A x \in Server : servers'[x].port = defaultPort
    <3>1. CASE httpServer = Nil
      <4>1. servers' = servers
        BY <1>9, <3>1 DEF StopSucceeds
      <4> QED
        BY <1>0, <3>1, <4>1 DEF SoleInv, Takes
    <3>2. CASE httpServer # Nil
      <4>1. httpServer \in Server /\ Becomes("stopped")
        BY <1>9, <3>2 DEF StopSucceeds, Sound, TypeOK
      <4>2. /\ servers'[httpServer].state = "stopped"
            /\ \A x \in Server : x # httpServer => servers'[x] = servers[x]
            /\ \A x \in Server : servers'[x].port = defaultPort
        BY <1>2, <4>1 DEF State, SoleInv
      <4> QED
        BY <4>2 DEF SoleInv, Takes
    <3> QED
      BY <3>1, <3>2
  <2>3. /\ \A i \in DOMAIN blocks' : blocks'[i].port = defaultPort
        /\ \A r \in Request : replies[r] # << >> => replies'[r] # << >>
    <3>1. \/ Block.kind = "stop" /\ Answers(TRUE)
          \/ Requeues(StartBlock(Block.request, Block.secure, defaultPort))
      BY <2>1, StopEnds
    <3>2. StartBlock(Block.request, Block.secure, defaultPort).port = defaultPort
      BY DEF StartBlock
    <3> QED
      BY <1>3, <1>4, <3>1, <3>2
  <2> QED
    BY <1>0, <1>9, <2>1, <2>2, <2>3 DEF SoleInv
<1> QED
  BY <1>1, <1>5, <1>6, <1>7, <1>8, <1>9 DEF QueueStep

LEMMA SoleKept ==
    ASSUME ~BridgesErrno, ~ShutdownMayFail, Sound, Sound', SoleInv,
           [ViewNext]_<<vars, viewVars>>
    PROVE  SoleInv'
<1>1. CASE openServer \/ closeServr
  <2>1. PICK b, q :
           AsksWith(b, q) /\ UNCHANGED <<running, servers, httpServer>>
    BY <1>1, AskedOnce DEF Sound
  <2>2. blocks \in Seq(BlockRecord) /\ blocks' = Append(blocks, b) /\ b \in BlockRecord
        /\ b.port = defaultPort /\ replies' = replies
    BY <2>1, Types DEF Sound, AsksWith
  <2>3. \A i \in DOMAIN blocks' : blocks'[i].port = defaultPort
    BY <2>2, Appended DEF SoleInv
  <2>4. running = "binding" => Block' = Block
    BY <2>2, Appended DEF Sound, AtWork, Block
  <2> QED
    BY <2>1, <2>2, <2>3, <2>4 DEF SoleInv, Takes
<1>2. CASE ServerStep
  BY <1>2, SoleQueue DEF ServerStep
<1>3. CASE UNCHANGED <<replies, blocks, running, servers, httpServer>>
  BY <1>3 DEF SoleInv, Takes, Block
<1>4. ASSUME OpenStep \/ RunClosure \/ SessionStep PROVE UNCHANGED vars
  BY <1>4 DEF OpenStep, DisposeStatus, DisposeReceive, SubscribeStatus, SubscribeReceive,
              Continues, RunClosure, SessionStep, Connected, Disconnected, Received, Reports
<1> QED
  BY <1>1, <1>2, <1>3, <1>4 DEF ViewNext, OtherProgram, vars

\* serverSend sends a text that its own server received, to that server's peer.
LEMMA SendsOwn ==
    ASSUME Sound, Typed, SoleInv, HeldInv, NEW context \in ContextRecord,
           Takes(context.content.server), NEW n \in Nat, echoes' \in serverSend(context, n)
    PROVE  EchoFromSameServer'
<1>1. echoes \in [Session -> Seq(EchoRecord)] /\ context.sessionId \in Session
      /\ context.content.server \in Server
  BY DEF Typed, ContextRecord, Content
<1>2. CASE echoes' = echoes
  BY <1>2 DEF HeldInv, EchoFromSameServer
<1>3. CASE /\ Serves
           /\ echoes' = [echoes EXCEPT ![context.sessionId] =
                   @ \o Copies(n, [text |-> context.content, server |-> httpServer])]
  <2> DEFINE e == [text |-> context.content, server |-> httpServer]
  <2>1. httpServer \in Server /\ Takes(httpServer)
    BY <1>3, Serving DEF Serves, Takes
  <2>2. context.content.server = httpServer
    BY <1>1, <2>1 DEF SoleInv
  <2>3. e \in EchoRecord /\ e.server = e.text.server
    BY <1>1, <2>1, <2>2 DEF EchoRecord, ContextRecord
  <2> HIDE DEF e
  <2>4. Copies(n, e) \in Seq(EchoRecord) /\ \A k \in DOMAIN Copies(n, e) : Copies(n, e)[k] = e
    BY <2>3, CopiesType
  <2>5. echoes' = [echoes EXCEPT ![context.sessionId] = @ \o Copies(n, e)]
    BY <1>3 DEF e
  <2> SUFFICES ASSUME NEW s \in Session, NEW i \in DOMAIN echoes'[s]
               PROVE  echoes'[s][i].server = echoes'[s][i].text.server
    BY DEF EchoFromSameServer
  <2>6. CASE s # context.sessionId
    BY <1>1, <2>5, <2>6 DEF HeldInv, EchoFromSameServer
  <2>7. CASE s = context.sessionId
    <3>1. echoes'[s] = echoes[s] \o Copies(n, e) /\ echoes[s] \in Seq(EchoRecord)
      BY <1>1, <2>5, <2>7
    <3>2. \A j \in DOMAIN echoes[s] : echoes[s][j].server = echoes[s][j].text.server
      BY DEF HeldInv, EchoFromSameServer
    <3>3. i \in DOMAIN (echoes[s] \o Copies(n, e))
      BY <3>1
    <3>4. \/ i \in DOMAIN echoes[s] /\ echoes'[s][i] = echoes[s][i]
          \/ echoes'[s][i] = e
      BY <2>4, <3>1, <3>3, Joined
    <3> QED
      BY <2>3, <3>2, <3>4
  <2> QED
    BY <2>6, <2>7
<1> QED
  BY <1>2, <1>3, Sends

LEMMA HeldKept ==
    ASSUME ~BridgesErrno, ~ShutdownMayFail, Sound, Sound', Typed, SoleInv, HeldInv,
           [ViewNext]_<<vars, viewVars>>
    PROVE  HeldInv'
<1>1. ASSUME UNCHANGED <<servers, echoes>>, lastReceive' \subseteq lastReceive PROVE HeldInv'
  BY <1>1 DEF HeldInv, Takes, EchoFromSameServer
<1>2. ASSUME NEW s \in Session, Received(s) PROVE HeldInv'
  <2> DEFINE context == Context(s, texts[s] + 1)
  <2>0. /\ context \in ContextRecord
        /\ context.content = [n |-> texts[s] + 1, server |-> httpServer, opens |-> Opens]
        /\ lastReceive' = {context} /\ echoes' \in serverSend(context, receiveObservers)
    BY <1>2, ReceivedType
  <2>1. /\ context \in ContextRecord /\ context.content.server = httpServer
        /\ lastReceive' = {context} /\ echoes' \in serverSend(context, receiveObservers)
    BY <2>0
  <2>2. Takes(httpServer) /\ servers' = servers /\ receiveObservers \in Nat
    BY <1>2 DEF Received, Reports, Serves, Takes, vars, Typed
  <2> HIDE DEF context
  <2>3. EchoFromSameServer'
    BY <2>1, <2>2, SendsOwn
  <2>4. \A d \in lastReceive' : Takes(d.content.server)'
    <3> SUFFICES ASSUME NEW d \in lastReceive' PROVE Takes(d.content.server)'
      OBVIOUS
    <3> QED
      BY <2>1, <2>2 DEF Takes
  <2> QED
    BY <2>3, <2>4 DEF HeldInv
<1>3. CASE SubscribeReceive
  <2>1. UNCHANGED <<servers, lastReceive>>
    BY <1>3 DEF SubscribeReceive, Continues, vars
  <2>2. CASE echoes' = echoes
    BY <1>1, <2>1, <2>2
  <2>3. ASSUME NEW context \in lastReceive, echoes' \in serverSend(context, 1) PROVE HeldInv'
    <3>1. context \in ContextRecord /\ Takes(context.content.server)
      BY DEF Typed, HeldInv
    <3>2. EchoFromSameServer'
      BY <2>3, <3>1, SendsOwn
    <3> QED
      BY <2>1, <3>2 DEF HeldInv, Takes
  <2> QED
    BY <1>3, <2>2, <2>3 DEF SubscribeReceive
<1>4. CASE ServerStep
  <2>1. echoes' = echoes /\ QueueStep /\ ResetValues
    BY <1>4 DEF ServerStep
  <2>2. EchoFromSameServer'
    BY <2>1 DEF HeldInv, EchoFromSameServer
  <2>3. CASE StopSucceeds
    BY <2>1, <2>2, <2>3 DEF ResetValues, HeldInv
  <2>4. CASE ~StopSucceeds
    <3>1. lastReceive' = lastReceive
      BY <2>1, <2>4 DEF ResetValues
    <3>2. \A x \in Server : Takes(x) => Takes(x)'
      BY <2>1, <2>4, SoleQueue
    <3>3. \A context \in lastReceive : context.content.server \in Server
      BY DEF Typed, ContextRecord, Content
    <3> QED
      BY <2>2, <3>1, <3>2, <3>3 DEF HeldInv, Takes
  <2> QED
    BY <2>3, <2>4
<1>5. ASSUME NEW s \in Session, Connected(s) \/ Disconnected(s) PROVE HeldInv'
  BY <1>1, <1>5 DEF Connected, Disconnected, Reports, vars
<1>6. CASE DisposeStatus \/ DisposeReceive \/ SubscribeStatus
  BY <1>1, <1>6 DEF DisposeStatus, DisposeReceive, SubscribeStatus, Continues, vars
<1>7. CASE RunClosure
  BY <1>1, <1>7 DEF RunClosure, vars, subjectVars, serverVars
<1>8. CASE openServer \/ closeServr
  BY <1>1, <1>8, AskedOnce DEF Sound, subjectVars, serverVars
<1>9. CASE (\E p \in Others : OtherProgram(p)) /\ UNCHANGED viewVars
  BY <1>1, <1>9 DEF OtherProgram, viewVars, subjectVars, serverVars
<1>10. CASE UNCHANGED <<vars, viewVars>>
  BY <1>1, <1>10 DEF vars, viewVars, subjectVars, serverVars
<1> QED
  BY <1>2, <1>3, <1>4, <1>5, <1>6, <1>7, <1>8, <1>9, <1>10
  DEF ViewNext, OpenStep, SessionStep

\* Where a port in use fails a start and a shutdown does not fail, a text is
\* sent back by the server that received it, though the subject keeps it for
\* later subscribers and its address may return to a later server: even a user
\* who does not wait for answers gets one server at most that takes connections.
THEOREM EchoesKeepServer ==
    ASSUME ~BridgesErrno, ~ShutdownMayFail
    PROVE  ViewSpec => []EchoFromSameServer
<1>1. HeldInv => EchoFromSameServer
  BY DEF HeldInv
<1>2. /\ IInv /\ IInv' /\ Typed /\ SoleInv /\ HeldInv /\ [ViewNext]_<<vars, viewVars>>
      => SoleInv' /\ HeldInv'
  BY SoleKept, HeldKept DEF IInv
<1> QED
  BY <1>1, <1>2, SoleInit, TypedAlways, PTL DEF ViewSpec

-----------------------------------------------------------------------------
(* The list.                                                               *)

\* What closure c does to session s in the list.
Drops(c, s) ==
    \/ c.kind = "status" /\ ~c.value.isConnect /\ c.value.sessionId = s
    \/ c.kind = "close" /\ c.value
Adds(c, s) == c.kind = "status" /\ c.value.isConnect /\ c.value.sessionId = s

\* Once the closures of q have run on the list L, session s is in it.
Stays(q, L, s) ==
    \/ s \in L /\ \A i \in DOMAIN q : ~Drops(q[i], s)
    \/ \E i \in DOMAIN q :
          /\ Adds(q[i], s)
          /\ \A j \in DOMAIN q : i < j => ~Drops(q[j], s)

\* What will be listed is open or missed, the subject keeps no session that is
\* not open, and a server that takes no connections has none.
Clean ==
    /\ \A s : Stays(mainQueue, connections, s) => s \in live \cup missed
    /\ \A status \in lastStatus : status.isConnect => status.sessionId \in live
    /\ ~Serves => live = {} /\ missed = {}

\* For a user who waits for answers, a server that takes connections has been
\* opened since the list was cleared, so that one which is to replace it would
\* be opened again; unless one has been, the list is to be clean.
ListInv ==
    /\ \A x, y \in lastStatus : x = y
    /\ httpServer = Nil => live = {} /\ missed = {}
    /\ Patiently /\ Serves => \E q \in SinceCleared : replies[q] = <<TRUE>>
    /\ Patiently /\ ~Reopened => Clean

LEMMA StaysJoined ==
    ASSUME NEW q \in Seq(Closure), NEW t \in Seq(Closure), NEW L, NEW s, Stays(q \o t, L, s)
    PROVE  /\ Stays(q, L, s) \/ \E k \in DOMAIN t : Adds(t[k], s)
           /\ (\E k \in DOMAIN t : Drops(t[k], s)) => \E k \in DOMAIN t : Adds(t[k], s)
<1> DEFINE p == q \o t
           n == Len(q)
<1>1. /\ DOMAIN q = 1 .. n /\ n \in Nat /\ DOMAIN t = 1 .. Len(t) /\ Len(t) \in Nat
      /\ \A i \in DOMAIN q : p[i] = q[i] /\ i \in DOMAIN p
      /\ \A k \in DOMAIN t : p[n + k] = t[k] /\ n + k \in DOMAIN p
      /\ \A i \in DOMAIN p : i \in DOMAIN q \/ \E k \in DOMAIN t : i = n + k
  BY Joined
<1>2. Stays(p, L, s)
  OBVIOUS
<1> HIDE DEF p, n, Drops, Adds
<1>3. CASE s \in L /\ \A i \in DOMAIN p : ~Drops(p[i], s)
  BY <1>1, <1>3 DEF Stays
<1>4. ASSUME NEW i \in DOMAIN p, Adds(p[i], s),
             \A j \in DOMAIN p : i < j => ~Drops(p[j], s)
      PROVE  /\ Stays(q, L, s) \/ \E k \in DOMAIN t : Adds(t[k], s)
             /\ (\E k \in DOMAIN t : Drops(t[k], s)) => \E k \in DOMAIN t : Adds(t[k], s)
  <2>1. CASE i \in DOMAIN q
    <3>1. \A k \in DOMAIN t : i < n + k
      BY <1>1, <2>1
    <3> QED
      BY <1>1, <1>4, <2>1, <3>1 DEF Stays
  <2>2. ASSUME NEW k \in DOMAIN t, i = n + k PROVE Adds(t[k], s)
    BY <1>1, <1>4, <2>2
  <2> QED
    BY <1>1, <2>1, <2>2
<1> QED
  BY <1>2, <1>3, <1>4 DEF Stays

LEMMA StaysByHead ==
    ASSUME NEW q \in Seq(Closure), q # << >>, NEW L, NEW new, NEW s,
           s \in new => (s \in L /\ ~Drops(Head(q), s)) \/ Adds(Head(q), s),
           Stays(Tail(q), new, s)
    PROVE  Stays(q, L, s)
<1> DEFINE t == Tail(q)
<1>1. /\ Head(q) = q[1] /\ 1 \in DOMAIN q
      /\ \A i \in DOMAIN t : t[i] = q[i + 1] /\ i + 1 \in DOMAIN q
      /\ \A j \in DOMAIN q : j # 1 => j - 1 \in DOMAIN t /\ t[j - 1] = q[j] /\ 1 < j
      /\ DOMAIN t \subseteq Nat /\ DOMAIN q \subseteq Nat
  OBVIOUS
<1>2. Stays(t, new, s)
  OBVIOUS
<1> HIDE DEF t, Drops, Adds
<1>3. CASE s \in new /\ \A i \in DOMAIN t : ~Drops(t[i], s)
  <2>1. \A j \in DOMAIN q : j # 1 => ~Drops(q[j], s)
    BY <1>1, <1>3
  <2>2. \A j \in DOMAIN q : 1 < j => ~Drops(q[j], s)
    BY <1>1, <2>1
  <2> QED
    BY <1>1, <1>3, <2>1, <2>2 DEF Stays
<1>4. ASSUME NEW i \in DOMAIN t, Adds(t[i], s),
             \A j \in DOMAIN t : i < j => ~Drops(t[j], s)
      PROVE  Stays(q, L, s)
  <2>1. ASSUME NEW j \in DOMAIN q, i + 1 < j PROVE ~Drops(q[j], s)
    <3>1. j # 1 /\ i < j - 1
      BY <1>1, <2>1
    <3> QED
      BY <1>1, <1>4, <3>1
  <2> QED
    BY <1>1, <1>4, <2>1 DEF Stays
<1> QED
  BY <1>2, <1>3, <1>4 DEF Stays

\* A close that succeeds clears the list, and only that.
LEMMA ClosureDrops ==
    ASSUME NEW k \in {"open", "close"}, NEW b \in BOOLEAN, NEW s
    PROVE  /\ ~Adds(CompletionClosure(k, b), s)
           /\ Drops(CompletionClosure(k, b), s) <=> k = "close" /\ b
  BY DEF Adds, Drops, CompletionClosure

LEMMA StatusAdds ==
    ASSUME NEW status, NEW s
    PROVE  /\ Adds(StatusClosure(status), s) <=> status.isConnect /\ status.sessionId = s
           /\ Drops(StatusClosure(status), s) <=> ~status.isConnect /\ status.sessionId = s
  BY DEF Adds, Drops, StatusClosure

\* A request that is made leaves what the list has to do with as it was.
LEMMA AskedSince ==
    ASSUME TypeOK, Served, NEW b, NEW q, AsksWith(b, q), Len(requests) < MaxRequests
    PROVE  /\ Patiently' => Patiently
           /\ SinceCleared \subseteq SinceCleared'
           /\ Reopened => Reopened'
<1> DEFINE n == Len(requests) + 1
<1>1. /\ requests \in Seq(RequestRecord) /\ q \in RequestRecord
      /\ requests' = Append(requests, q) /\ replies' = replies
      /\ Len(requests) \in Nat /\ MaxRequests \in Nat
  BY Types DEF AsksWith
<1>2. /\ Len(requests') = n /\ n \in Nat
      /\ \A r \in 1 .. n : r \in 1 .. Len(requests) \/ r = n
      /\ \A r \in 1 .. Len(requests) : r \in 1 .. n /\ requests'[r] = requests[r]
  BY <1>1
<1>3. replies[n] = << >>
  BY <1>1 DEF Served, Outstanding, Request
<1>4. << >> # <<TRUE>>
  OBVIOUS
<1>5. Patiently' => Patiently
  BY <1>2 DEF Patiently
<1>6. SinceCleared \subseteq SinceCleared'
  <2> SUFFICES ASSUME NEW r \in SinceCleared PROVE r \in SinceCleared'
    OBVIOUS
  <2>1. r \in 1 .. n /\ r \in 1 .. Len(requests)
    BY <1>2 DEF SinceCleared
  <2>2. ASSUME NEW x \in r .. n, requests'[x].kind = "close", replies[x] = <<TRUE>>
        PROVE  FALSE
    <3>1. x # n
      BY <1>3, <1>4, <2>2
    <3>2. r \in Nat /\ r >= 1 /\ n = Len(requests) + 1 /\ Len(requests) \in Nat
      BY <1>1, <2>1
    <3> HIDE DEF n
    <3>3. x \in 1 .. Len(requests) /\ x \in r .. Len(requests)
      BY <2>2, <3>1, <3>2
    <3>4. requests'[x] = requests[x]
      BY <1>2, <3>3
    <3> QED
      BY <2>2, <3>3, <3>4 DEF SinceCleared
  <2> QED
    BY <1>1, <1>2, <2>1, <2>2 DEF SinceCleared
<1>7. ASSUME Reopened PROVE Reopened'
  <2>1. PICK x, y \in SinceCleared :
           x < y /\ replies[x] = <<TRUE>> /\ requests[y].kind = "open"
    BY <1>7 DEF Reopened
  <2>2. requests'[y].kind = "open"
    BY <1>2, <2>1 DEF SinceCleared
  <2> QED
    BY <1>1, <1>6, <2>1, <2>2 DEF Reopened
<1> QED
  BY <1>5, <1>6, <1>7

\* So does a step of serverQueue, unless it stops the server.
LEMMA StillSince ==
    ASSUME Sound, QueueStep, ~StopSucceeds
    PROVE  /\ SinceCleared' = SinceCleared
           /\ \A r \in SinceCleared : replies[r] = <<TRUE>> => replies'[r] = <<TRUE>>
           /\ Reopened => Reopened'
<1>1. requests' = requests /\ 1 .. Len(requests) \subseteq Request
  BY QueueEnds, Types DEF Sound, Request
<1>2. \A r \in 1 .. Len(requests) :
         /\ replies[r] = <<TRUE>> => replies'[r] = <<TRUE>>
         /\ requests[r].kind = "close" /\ replies'[r] = <<TRUE>> => replies[r] = <<TRUE>>
  <2>1. CASE replies' = replies
    BY <2>1
  <2>2. ASSUME NEW b \in BOOLEAN, Answers(b), requests[Block.request].kind = "close" => ~b
        PROVE  \A r \in 1 .. Len(requests) :
                  /\ replies[r] = <<TRUE>> => replies'[r] = <<TRUE>>
                  /\ requests[r].kind = "close" /\ replies'[r] = <<TRUE>> => replies[r] = <<TRUE>>
    <3>1. /\ replies[Block.request] = << >> /\ replies'[Block.request] = <<b>>
          /\ \A r \in Request : r # Block.request => replies'[r] = replies[r]
      BY <2>2, OneCompletion
    <3>2. << >> # <<TRUE>> /\ (<<b>> = <<TRUE>> => b)
      <4>1. <<b>>[1] = b /\ <<TRUE>>[1] = TRUE /\ << >> # <<TRUE>>
        OBVIOUS
      <4> QED
        BY <4>1
    <3> QED
      BY <1>1, <2>2, <3>1, <3>2
  <2>3. \/ replies' = replies
        \/ \E b \in BOOLEAN :
              Answers(b) /\ (requests[Block.request].kind = "close" => ~b)
    BY QueueEnds
  <2> QED
    BY <2>1, <2>2, <2>3
<1>3. SinceCleared' = SinceCleared
  <2>1. ASSUME NEW r \in 1 .. Len(requests), NEW x \in r .. Len(requests)
        PROVE  (requests[x].kind = "close" /\ replies[x] = <<TRUE>>)
                  <=> (requests[x].kind = "close" /\ replies'[x] = <<TRUE>>)
    <3>1. x \in 1 .. Len(requests)
      OBVIOUS
    <3> QED
      BY <1>2, <3>1
  <2> QED
    BY <1>1, <2>1 DEF SinceCleared
<1>4. \A r \in SinceCleared : r \in 1 .. Len(requests)
  BY DEF SinceCleared
<1>5. Reopened => Reopened'
  BY <1>1, <1>2, <1>3, <1>4 DEF Reopened
<1> QED
  BY <1>2, <1>3, <1>4, <1>5

\* A server that is to be started for a user who waited, and who has not opened
\* an open one, takes the place of none that takes connections.
LEMMA StartsAfresh ==
    ASSUME Sound, Calm, Patiently, ~Reopened, blocks # << >>, Block.kind # "stop",
           Serves => \E q \in SinceCleared : replies[q] = <<TRUE>>
    PROVE  ~Serves
<1> SUFFICES ASSUME NEW q \in SinceCleared, replies[q] = <<TRUE>> PROVE FALSE
  OBVIOUS
<1> DEFINE r == Block.request
<1>1. r = Len(requests) /\ replies[r] = << >> /\ r \in 1 .. Len(requests)
  BY Unanswered, HeadBlock DEF Calm, Block
<1>2. requests[r].kind = "open"
  BY HeadBlock DEF RequestRecord
<1>3. << >> # <<TRUE>>
  OBVIOUS
<1> HIDE DEF r
<1>4. r \in SinceCleared
  <2>1. \A x \in r .. Len(requests) : x = r
    BY <1>1
  <2> QED
    BY <1>1, <1>2, <2>1 DEF SinceCleared
<1>5. q < r
  <2>1. q \in 1 .. Len(requests) /\ q # r
    BY <1>1, <1>3 DEF SinceCleared
  <2> QED
    BY <1>1, <2>1
<1> QED
  BY <1>2, <1>4, <1>5 DEF Reopened

LEMMA ListInit == ViewInit => ListInv
<1> SUFFICES ASSUME ViewInit PROVE ListInv
  OBVIOUS
<1>1. /\ DOMAIN mainQueue = {} /\ connections = {} /\ lastStatus = {}
      /\ live = {} /\ missed = {} /\ ~Serves
  BY DEF ViewInit, Init, Serves
<1> QED
  BY <1>1 DEF ListInv, Clean, Stays

\* A server takes connections once it is bound, and until it is stopped.
LEMMA ServesBefore ==
    ASSUME Sound, QueueStep, ~BindSucceeds
    PROVE  /\ Serves' => Serves /\ ~StopSucceeds
           /\ StopChannel \/ StopFails => (Serves' <=> Serves) /\ httpServer' = httpServer
<1>1. ASSUME NEW state \in State, Becomes(state), httpServer \in Server, httpServer' = httpServer
      PROVE  Serves' <=> state \in {"listening", "closed"}
  <2>1. servers'[httpServer].state = state /\ httpServer # Nil
    BY <1>1, BecomesState, NotNil DEF Sound
  <2> QED
    BY <1>1, <2>1 DEF Serves
<1>2. CASE StartCreate
  <2>1. /\ httpServer' = <<Block.request, Block.port>> /\ blocks # << >>
        /\ servers' = [servers EXCEPT ![httpServer'] =
                         [state |-> "created", port |-> Block.port, secure |-> Block.secure]]
    BY <1>2 DEF StartCreate, Runs
  <2>2. PICK x \in Server : x = <<Block.request, Block.port>>
    BY <2>1, HeadBlock DEF BlockRecord, Server
  <2>3. servers'[x].state = "created"
    BY <2>1, <2>2, Types DEF Sound
  <2>4. ~Serves'
    BY <2>1, <2>2, <2>3 DEF Serves
  <2> QED
    BY <1>2, <2>4 DEF StartCreate, StopChannel, StopFails, Runs
<1>3. CASE BindFails \/ BindRetries \/ BindGivesUp
  <2>1. Becomes("failed") /\ httpServer \in Server /\ httpServer' = httpServer
    BY <1>3, BindEnds
  <2>2. ~Serves'
    BY <1>1, <2>1 DEF State
  <2> QED
    BY <1>3, <2>2 DEF BindFails, BindRetries, BindGivesUp, StopChannel, StopFails, Runs
<1>4. CASE StopChannel
  <2>1. httpServer' = httpServer /\ ~StopSucceeds
    BY <1>4 DEF StopChannel, StopSucceeds, Runs
  <2>2. CASE isServerActive
    <3>1. Becomes("closed") /\ httpServer \in Server
      BY <1>4, <2>2 DEF StopChannel, isServerActive, Sound, TypeOK
    <3>2. Serves'
      BY <1>1, <2>1, <3>1 DEF State
    <3> QED
      BY <2>1, <2>2, <3>2 DEF isServerActive, Serves
  <2>3. CASE ~isServerActive
    BY <1>4, <2>1, <2>3 DEF StopChannel, Serves
  <2> QED
    BY <2>2, <2>3
<1>5. CASE StopSucceeds
  BY <1>5 DEF StopSucceeds, StopChannel, Serves, StopFails, Runs, StopCompletes
<1>6. CASE StopFails
  BY <1>6 DEF StopFails, StopSucceeds, Serves
<1> QED
  BY <1>2, <1>3, <1>4, <1>5, <1>6 DEF QueueStep

\* What a server does between its taps keeps the list.
LEMMA ListByServer ==
    ASSUME Sound, Calm, Typed, ListInv, ServerStep
    PROVE  ListInv'
<1>1. /\ QueueStep /\ requests' = requests /\ UNCHANGED connections
      /\ live' = (IF httpServer' = httpServer THEN live ELSE {})
      /\ missed' = (IF httpServer' = httpServer THEN missed ELSE {})
      /\ lastStatus' = (IF StopSucceeds THEN {} ELSE lastStatus)
      /\ mainQueue' = mainQueue \o Completions
      /\ mainQueue \in Seq(Closure)
  BY QueueEnds DEF ServerStep, ResetValues, Typed
<1>2. Patiently' <=> Patiently
  BY <1>1 DEF Patiently
<1>3. \A x, y \in lastStatus' : x = y
  BY <1>1 DEF ListInv
<1>4. httpServer' = Nil => live' = {} /\ missed' = {}
  BY <1>1 DEF ListInv
<1>5. ASSUME Patiently, Serves' PROVE \E q \in SinceCleared' : replies'[q] = <<TRUE>>
  <2>1. CASE BindSucceeds
    <3>1. Answers(TRUE) /\ blocks # << >> /\ Block.kind = "start"
      BY <2>1, BindEnds
    <3>2. PICK r \in 1 .. Len(requests) :
             r = Block.request /\ r = Len(requests) /\ requests[r].kind # "close"
      BY <1>5, <3>1, HeadBlock DEF Calm, Block
    <3>3. replies'[r] = <<TRUE>>
      BY <3>1, <3>2, OneCompletion
    <3>4. \A x \in r .. Len(requests) : x = r
      BY <3>2
    <3>5. r \in SinceCleared'
      BY <1>1, <3>2, <3>4 DEF SinceCleared
    <3> QED
      BY <3>3, <3>5
  <2>2. CASE ~BindSucceeds
    <3>1. Serves /\ ~StopSucceeds
      BY <1>1, <1>5, <2>2, ServesBefore
    <3>2. PICK q \in SinceCleared : replies[q] = <<TRUE>>
      BY <1>5, <3>1 DEF ListInv
    <3>3. q \in SinceCleared' /\ replies'[q] = <<TRUE>>
      BY <1>1, <3>1, <3>2, StillSince
    <3> QED
      BY <3>3
  <2> QED
    BY <2>1, <2>2
<1>6. ASSUME Patiently, ~Reopened, blocks # << >>, Block.kind # "stop"
      PROVE  ~Serves /\ live = {} /\ missed = {}
  <2>1. ~Serves
    BY <1>6, StartsAfresh DEF ListInv
  <2> QED
    BY <1>6, <2>1 DEF ListInv, Clean
<1>7. ASSUME Patiently, ~Reopened' PROVE Clean'
  <2>1. CASE StopSucceeds
    <3>0. /\ Runs("stopping", {"stop", "restart"}) /\ StopCompletes(TRUE)
          /\ blocks # << >>
      BY <2>1 DEF StopSucceeds, Runs
    <3>1. live' = {} /\ missed' = {} /\ lastStatus' = {}
      BY <1>1, <1>4, <2>1 DEF StopSucceeds
    <3>2. ASSUME NEW s, Stays(mainQueue', connections, s) PROVE FALSE
      <4>1. CASE Block.kind = "stop" /\ Answers(TRUE)
        <5> DEFINE c == CompletionClosure("close", TRUE)
        <5>1. requests[Block.request].kind = "close"
          BY <3>0, <4>1, HeadBlock
        <5>2. mainQueue' = mainQueue \o <<c>>
          BY <1>1, <4>1, <5>1, OneCompletion
        <5>3. <<c>> \in Seq(Closure) /\ DOMAIN <<c>> = {1} /\ <<c>>[1] = c
          BY CompletionType
        <5>4. ~Adds(c, s) /\ Drops(c, s)
          BY ClosureDrops
        <5> HIDE DEF c
        <5>5. Stays(mainQueue \o <<c>>, connections, s)
          BY <3>2, <5>2
        <5> QED
          BY <1>1, <5>3, <5>4, <5>5, StaysJoined
      <4>2. CASE Block.kind = "restart" /\ replies' = replies
        <5>1. mainQueue' = mainQueue
          <6>1. mainQueue \o << >> = mainQueue
            BY <1>1
          <6> QED
            BY <1>1, <4>2, <6>1, NoCompletions
        <5>2. ~Reopened
          BY <1>1, <1>7, <4>2 DEF Reopened, SinceCleared
        <5>3. live = {} /\ missed = {}
          BY <1>6, <1>7, <3>0, <4>2, <5>2
        <5> QED
          BY <1>7, <3>2, <5>1, <5>2, <5>3 DEF ListInv, Clean
      <4> QED
        BY <1>1, <3>0, <4>1, <4>2, StopEnds DEF Requeues
    <3> QED
      BY <1>1, <3>1, <3>2 DEF Clean
  <2>2. CASE ~StopSucceeds
    <3>1. ~Reopened /\ Clean
      BY <1>1, <1>7, <2>2, StillSince DEF ListInv
    <3>2. ASSUME NEW s, Stays(mainQueue', connections, s)
          PROVE  Stays(mainQueue, connections, s)
      <4>1. ASSUME NEW b \in BOOLEAN, NEW k \in {"open", "close"}, Answers(b),
                   k = requests[Block.request].kind,
                   mainQueue' = mainQueue \o <<CompletionClosure(k, b)>>
            PROVE  Stays(mainQueue, connections, s)
        <5> DEFINE c == CompletionClosure(k, b)
        <5>1. <<c>> \in Seq(Closure) /\ DOMAIN <<c>> = {1} /\ <<c>>[1] = c
          BY CompletionType
        <5>2. ~Adds(c, s)
          BY ClosureDrops
        <5> HIDE DEF c
        <5>3. Stays(mainQueue \o <<c>>, connections, s)
          BY <3>2, <4>1 DEF c
        <5> QED
          BY <1>1, <5>1, <5>2, <5>3, StaysJoined
      <4> QED
        BY <3>2, <4>1, ServerQueues
    <3>3. live' \subseteq live /\ missed' \subseteq missed
      BY <1>1
    <3>4. CASE StopChannel \/ StopFails
      <4>1. (Serves' <=> Serves) /\ live' = live /\ missed' = missed
        <5>1. ~BindSucceeds
          BY <3>4 DEF StopChannel, StopFails, BindSucceeds, Runs
        <5> QED
          BY <1>1, <3>4, <5>1, ServesBefore
      <4> QED
        BY <1>1, <2>2, <3>1, <3>2, <4>1 DEF Clean
    <3>5. CASE ~(StopChannel \/ StopFails)
      <4>1. blocks # << >> /\ Block.kind = "start"
        BY <1>1, <2>2, <3>5 DEF QueueStep, StartCreate, BindSucceeds, BindFails, BindRetries,
                                BindGivesUp, Runs
      <4>2. live = {} /\ missed = {}
        BY <1>6, <1>7, <3>1, <4>1
      <4> QED
        BY <1>1, <2>2, <3>1, <3>2, <3>3, <4>2 DEF Clean
    <3> QED
      BY <3>4, <3>5
  <2> QED
    BY <2>1, <2>2
<1> QED
  BY <1>2, <1>3, <1>4, <1>5, <1>7 DEF ListInv

\* A step of the view that queues closures t for the list keeps it clean if they
\* add what is open or missed, and drop what no longer is.
LEMMA ListGrows ==
    ASSUME Typed, ListInv, UNCHANGED <<vars, connections>>,
           NEW t \in Seq(Closure), mainQueue' = mainQueue \o t,
           \A x, y \in lastStatus' : x = y,
           ~Serves => live' \subseteq live /\ missed' \subseteq missed,
           Clean =>
              /\ \A s : (\E k \in DOMAIN t : Adds(t[k], s)) => s \in live' \cup missed'
              /\ \A s \in live \cup missed :
                    s \in live' \cup missed' \/ \E k \in DOMAIN t : Drops(t[k], s)
              /\ \A status \in lastStatus' : status.isConnect => status.sessionId \in live'
    PROVE  ListInv'
<1>1. /\ requests' = requests /\ replies' = replies /\ httpServer' = httpServer
      /\ Serves' = Serves /\ SinceCleared' = SinceCleared /\ Reopened' = Reopened
      /\ Patiently' = Patiently /\ connections' = connections
  BY DEF vars, Serves, SinceCleared, Reopened, Patiently
<1>2. httpServer' = Nil => live' = {} /\ missed' = {}
  BY <1>1 DEF ListInv, Serves
<1>3. ASSUME Patiently, ~Reopened PROVE Clean'
  <2>1. Clean
    BY <1>3 DEF ListInv
  <2>2. ASSUME NEW s, Stays(mainQueue', connections', s) PROVE s \in live' \cup missed'
    <3>1. Stays(mainQueue \o t, connections, s) /\ mainQueue \in Seq(Closure)
      BY <1>1, <2>2 DEF Typed
    <3>2. /\ Stays(mainQueue, connections, s) \/ \E k \in DOMAIN t : Adds(t[k], s)
          /\ (\E k \in DOMAIN t : Drops(t[k], s)) => \E k \in DOMAIN t : Adds(t[k], s)
      BY <3>1, StaysJoined
    <3> HIDE DEF Adds, Drops, Stays
    <3> QED
      BY <2>1, <3>2 DEF Clean
  <2>3. ~Serves' => live' = {} /\ missed' = {}
    BY <1>1, <2>1 DEF Clean
  <2> QED
    BY <2>1, <2>2, <2>3 DEF Clean
<1> QED
  BY <1>1, <1>2, <1>3 DEF ListInv

LEMMA ListByStatus ==
    ASSUME Sound, Typed, ListInv, NEW s \in Session, Connected(s) \/ Disconnected(s)
    PROVE  ListInv'
<1>1. UNCHANGED <<vars, connections>> /\ Serves /\ statusObservers \in Nat
  BY DEF Connected, Disconnected, Reports, Typed
<1>2. ASSUME NEW on \in BOOLEAN, NotifyStatus(Status(s, on)),
             on => live' = live \cup {s} /\ missed' = missed,
             ~on => /\ live' = live \ {s}
                    /\ missed' = IF statusObservers = 0 THEN missed \cup {s} ELSE missed \ {s}
      PROVE  ListInv'
  <2>1. /\ Status(s, on) \in StatusRecord /\ Status(s, on).sessionId = s
        /\ Status(s, on).isConnect = on
    BY StatusType
  <2>2. lastStatus' = {Status(s, on)}
    BY <1>2 DEF NotifyStatus
  <2>3. PICK t \in Seq(Closure) :
           /\ mainQueue' = mainQueue \o t
           /\ DOMAIN t = 1 .. statusObservers
           /\ \A k \in DOMAIN t : t[k] = StatusClosure(Status(s, on))
    BY <1>2, <2>1, NotifyQueues
  <2>4. \A k \in DOMAIN t : \A x : /\ Adds(t[k], x) <=> on /\ x = s
                                   /\ Drops(t[k], x) <=> ~on /\ x = s
    BY <2>1, <2>3, StatusAdds
  <2>5. \A x : (\E k \in DOMAIN t : Adds(t[k], x)) => x \in live' \cup missed'
    BY <1>2, <2>4
  <2>6. ASSUME NEW x \in live \cup missed, x \notin live' \cup missed'
        PROVE  \E k \in DOMAIN t : Drops(t[k], x)
    <3>1. ~on /\ x = s /\ statusObservers # 0
      BY <1>2, <2>6
    <3>2. 1 \in DOMAIN t
      BY <1>1, <2>3, <3>1
    <3> QED
      BY <2>4, <3>1, <3>2
  <2>7. \A status \in lastStatus' : status.isConnect => status.sessionId \in live'
    BY <1>2, <2>1, <2>2
  <2>8. \A x, y \in lastStatus' : x = y
    BY <2>2
  <2> QED
    BY <1>1, <2>3, <2>5, <2>6, <2>7, <2>8, ListGrows
<1> QED
  BY <1>2 DEF Connected, Disconnected

LEMMA ListByReplay ==
    ASSUME Typed, ListInv, SubscribeStatus
    PROVE  ListInv'
<1>1. /\ UNCHANGED <<vars, connections, live, lastStatus>>
      /\ missed' = missed \ {status.sessionId : status \in lastStatus}
  BY DEF SubscribeStatus, Continues
<1>2. CASE lastStatus = {} /\ mainQueue' = mainQueue
  <2>1. missed' = missed
    BY <1>1, <1>2
  <2> QED
    BY <1>1, <1>2, <2>1
    DEF ListInv, Clean, vars, Serves, SinceCleared, Reopened, Patiently
<1>3. ASSUME NEW status \in lastStatus, <<StatusClosure(status)>> \in Seq(Closure),
             mainQueue' = mainQueue \o <<StatusClosure(status)>>
      PROVE  ListInv'
  <2> DEFINE t == <<StatusClosure(status)>>
  <2>1. \A x \in lastStatus : x = status
    BY <1>3 DEF ListInv
  <2>2. 1 \in DOMAIN t /\ \A k \in DOMAIN t : t[k] = StatusClosure(status)
    OBVIOUS
  <2> HIDE DEF t
  <2>3. \A k \in DOMAIN t : \A x :
           /\ Adds(t[k], x) <=> status.isConnect /\ status.sessionId = x
           /\ Drops(t[k], x) <=> ~status.isConnect /\ status.sessionId = x
    BY <2>2, StatusAdds
  <2>4. ASSUME Clean, NEW x, \E k \in DOMAIN t : Adds(t[k], x)
        PROVE  x \in live' \cup missed'
    BY <1>1, <1>3, <2>3, <2>4 DEF Clean
  <2>5. ASSUME Clean, NEW x \in live \cup missed, x \notin live' \cup missed'
        PROVE  \E k \in DOMAIN t : Drops(t[k], x)
    <3>1. x \notin live /\ x = status.sessionId
      BY <1>1, <2>1, <2>5
    <3>2. ~status.isConnect
      BY <1>3, <2>5, <3>1 DEF Clean
    <3> QED
      BY <2>2, <2>3, <3>1, <3>2
  <2>6. Clean => \A x \in lastStatus' : x.isConnect => x.sessionId \in live'
    BY <1>1 DEF Clean
  <2>7. \A x, y \in lastStatus' : x = y
    BY <1>1 DEF ListInv
  <2>8. t \in Seq(Closure) /\ mainQueue' = mainQueue \o t
    BY <1>3 DEF t
  <2> QED
    BY <1>1, <2>4, <2>5, <2>6, <2>7, <2>8, ListGrows
<1> QED
  BY Zenon, <1>2, <1>3, ReplayQueues

\* The head runs, and what will be listed is among what would have been.
LEMMA ListByHead ==
    ASSUME Typed, ListInv, RunClosure
    PROVE  ListInv'
<1>1. /\ mainQueue # << >> /\ mainQueue \in Seq(Closure) /\ mainQueue' = Tail(mainQueue)
      /\ UNCHANGED <<vars, lastStatus, live, missed>>
  BY DEF RunClosure, Typed, subjectVars, serverVars
<1>2. ASSUME NEW s, s \in connections'
      PROVE  (s \in connections /\ ~Drops(Head(mainQueue), s)) \/ Adds(Head(mainQueue), s)
  <2>1. CASE /\ Head(mainQueue).kind = "status"
             /\ connections' = Listed(Head(mainQueue).value)
    <3>1. Head(mainQueue).value.isConnect \in BOOLEAN
      BY <1>1, <2>1, HeadClosure DEF StatusRecord
    <3> QED
      BY <1>2, <2>1, <3>1 DEF Listed, Drops, Adds
  <2>2. CASE /\ Head(mainQueue).kind = "open"
             /\ connections' = connections
    BY <1>2, <2>2 DEF Drops
  <2>3. CASE /\ Head(mainQueue).kind = "close"
             /\ connections' = IF Head(mainQueue).value THEN {} ELSE connections
    BY <1>2, <2>3 DEF Drops
  <2> QED
    BY <2>1, <2>2, <2>3 DEF RunClosure
<1>3. ASSUME NEW s, Stays(mainQueue', connections', s) PROVE Stays(mainQueue, connections, s)
  <2> DEFINE new == connections'
  <2>1. Stays(Tail(mainQueue), new, s)
    BY <1>1, <1>3
  <2>2. s \in new => (s \in connections /\ ~Drops(Head(mainQueue), s)) \/ Adds(Head(mainQueue), s)
    BY <1>2
  <2> HIDE DEF new, Drops, Adds
  <2> QED
    BY <1>1, <2>1, <2>2, StaysByHead
<1> QED
  BY <1>1, <1>3 DEF ListInv, Clean, vars, Serves, SinceCleared, Reopened, Patiently

LEMMA ListKept ==
    ASSUME Sound, Calm, Typed, ListInv, [ViewNext]_<<vars, viewVars>>
    PROVE  ListInv'
<1>1. ASSUME UNCHANGED <<requests, replies, servers, httpServer, mainQueue, connections,
                         lastStatus, live, missed>>
      PROVE  ListInv'
  BY <1>1 DEF ListInv, Clean, Serves, SinceCleared, Reopened, Patiently
<1>2. CASE openServer \/ closeServr
  <2>1. PICK b, q :
           /\ AsksWith(b, q) /\ Len(requests) < MaxRequests
           /\ UNCHANGED <<servers, httpServer, mainQueue, connections, serverVars, subjectVars>>
    BY <1>2, AskedOnce DEF Sound
  <2>2. /\ Patiently' => Patiently
        /\ SinceCleared \subseteq SinceCleared'
        /\ Reopened => Reopened'
    BY <2>1, AskedSince DEF Sound
  <2>3. replies' = replies /\ (Serves' <=> Serves)
    BY <2>1 DEF AsksWith, Serves
  <2>4. Clean => Clean'
    BY <2>1, <2>3 DEF Clean, serverVars, subjectVars
  <2> QED
    BY <2>1, <2>2, <2>3, <2>4 DEF ListInv, serverVars, subjectVars
<1>3. CASE DisposeStatus \/ DisposeReceive \/ SubscribeReceive \/ UNCHANGED <<vars, viewVars>>
  BY <1>1, <1>3 DEF DisposeStatus, DisposeReceive, SubscribeReceive, Continues, vars, viewVars,
                    subjectVars, serverVars
<1>4. CASE SubscribeStatus
  BY <1>4, ListByReplay
<1>5. ASSUME NEW s \in Session, Connected(s) \/ Disconnected(s) \/ Received(s) PROVE ListInv'
  <2>1. CASE Received(s)
    BY <1>1, <2>1 DEF Received, Reports, vars
  <2> QED
    BY <1>5, <2>1, ListByStatus
<1>6. CASE RunClosure
  BY <1>6, ListByHead
<1>7. CASE ServerStep
  BY <1>7, ListByServer
<1>8. CASE (\E p \in Others : OtherProgram(p)) /\ UNCHANGED viewVars
  BY <1>1, <1>8 DEF OtherProgram, viewVars, subjectVars, serverVars
<1> QED
  BY <1>2, <1>3, <1>4, <1>5, <1>6, <1>7, <1>8 DEF ViewNext, OpenStep, SessionStep

\* For a user who waits for answers and does not open a server that is open,
\* no order of sessions, blocks, replays and closures leaves in the list what
\* is neither open nor ended between openServer's subscriptions.
THEOREM TheListIsLive == ViewSpec => []ListIsLive
<1>1. ListInv => ListIsLive
  <2> SUFFICES ASSUME ListInv, Settled, Patiently, ~Reopened, NEW s \in connections
               PROVE  s \in live \cup missed
    BY DEF ListIsLive
  <2>1. DOMAIN mainQueue = {}
    BY DEF Settled
  <2>2. Stays(mainQueue, connections, s)
    BY <2>1 DEF Stays
  <2> QED
    BY <2>2 DEF ListInv, Clean
<1>2. IInv /\ Typed /\ ListInv /\ [ViewNext]_<<vars, viewVars>> => ListInv'
  BY ListKept DEF IInv
<1> QED
  BY <1>1, <1>2, ListInit, TypedAlways, PTL DEF ViewSpec

=============================================================================
