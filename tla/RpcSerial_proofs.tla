--------------------------- MODULE RpcSerial_proofs ---------------------------
(* Theorems about the replies RpcClient gives to one task at a time, as in *)
(* BOINC_Manager: for every number of connections, every set of calls and  *)
(* every bound, read timeouts included.                                    *)
EXTENDS RpcClient_proofs

(***************************************************************************)
(* What is on the connections.  QuietInv says that an exchange on a        *)
(* connection without a timeout finds every queue empty and leaves it so.  *)
(* The rest of SerialInv: a read that ends because the other side has gone *)
(* leaves no request behind (NobodyNoRequests), nothing is collected       *)
(* without a stream (NoStream), and what a method returns is about the     *)
(* request its own name stands for (OwnRequest).                           *)
(***************************************************************************)
Elsewhere == \A c \in Conns : c # mOutput => Nothing(c)

Locals(t) ==
  /\ pc[t] \in Receiving => call[t].stream = mOutput
  /\ pc[t] = "send" /\ call[t].req \in Commands \cup {"auth2"} =>
       mRequest = call[t].req

Clean == mOutput # None /\ ~timedOut[mOutput]

Exchange(t) ==
  /\ pc[t] \notin {"receive", "read"} => Nothing(mOutput)
  /\ pc[t] \in {"receive", "read"} => Answering(t, mOutput)
  /\ pc[t] = "append" => \E m \in Message : Answer(t, m) /\ call[t].bytes = <<m>>
  /\ pc[t] = "trim" => \E m \in Message : Answer(t, m) /\ mResult = <<m, End>>
  /\ pc[t] = "result" /\ mResult # <<>> =>
       \E m \in Message : Answer(t, m) /\ mResult = <<m>>

Answers(t) ==
  ret[t].ok /\ ret[t].op \notin Unread \cup {"open"} /\ ~Late =>
    /\ Len(ret[t].from) = 1
    /\ ret[t].from[1].by = t
    /\ ret[t].from[1].req = ret[t].req

NobodyNoRequests == \A c \in Conns : ~peer[c] => requests[c] = <<>>

Without(t) ==
  pc[t] \in Receiving /\ mOutput = None => /\ pc[t] \in {"read", "result"}
                                           /\ mResult = <<>>

NoStream == \A t \in Threads : Without(t)

Own(t) ==
  pc[t] \in Exchanging =>
    \/ call[t].op = "authorize" /\ call[t].req \in AuthRequests
    \/ call[t].op = "connectionAlive" /\ call[t].req = AliveRequest
    \/ call[t].op \in Queries \cup Commands /\ call[t].req = call[t].op

OwnRequest == \A t \in Threads : Own(t)

SerialInv == QuietInv /\ NobodyNoRequests /\ NoStream /\ OwnRequest

\* What the steps are taken from: the invariants of the socket fields, of the
\* buffers and of authorize().
Base == SocketAndBuffers /\ AuthInv

LEMMA QuietParts ==
  ASSUME NEW t \in Threads, Threads = {t}
  PROVE  SerialInv <=> /\ mInput = mOutput /\ Elsewhere /\ Locals(t)
                       /\ Clean => Exchange(t)
                       /\ Answers(t) /\ NobodyNoRequests /\ Without(t) /\ Own(t)
<1>1. QuietInv <=> mInput = mOutput /\ Elsewhere /\ Locals(t)
                     /\ (Clean => Exchange(t)) /\ Answers(t)
  BY DEF QuietInv, ReplyAnswersCall, Elsewhere, Locals, Clean, Exchange, Answers
<1>2. (NoStream <=> Without(t)) /\ (OwnRequest <=> Own(t))
  BY DEF NoStream, OwnRequest
<1>3. QED  BY <1>1, <1>2 DEF SerialInv

LEMMA QuietPartsNext ==
  ASSUME NEW t \in Threads, Threads = {t},
         SocketInv', Elsewhere', Locals(t)', Clean' => Exchange(t)', Answers(t)',
         NobodyNoRequests', Without(t)', Own(t)'
  PROVE  SerialInv'
<1>1. mInput' = mOutput'
  BY DEF SocketInv
<1>2. QuietInv'
  BY <1>1 DEF QuietInv, ReplyAnswersCall, Elsewhere, Locals, Clean, Exchange, Answers,
              Nothing, Answering, Answer
<1>3. NoStream' /\ OwnRequest'
  BY DEF NoStream, OwnRequest
<1>4. QED  BY <1>2, <1>3 DEF SerialInv

\* A connection that is not open has nothing on it.
LEMMA DeadNothing ==
  ASSUME SocketInv, NobodyNoRequests
  PROVE  \A c \in Conns : local[c] # "open" => Nothing(c)
BY DEF SocketInv, NobodyNoRequests, Nothing

\* A step between exchanges, or while a request is put together.
LEMMA QuietKept ==
  ASSUME NEW t \in Threads, Threads = {t}, SerialInv, SocketInv',
         UNCHANGED <<requests, replies, peer, mOutput, timedOut>>,
         pc[t] \notin {"receive", "read"},
         pc'[t] \notin Receiving, pc'[t] # "receive",
         pc'[t] = "send" /\ call'[t].req \in Commands \cup {"auth2"} =>
           mRequest' = call'[t].req,
         Answers(t)', Own(t)'
  PROVE  SerialInv'
<1>1. Elsewhere /\ (Clean => Exchange(t)) /\ NobodyNoRequests
  BY QuietParts
<1>2. Elsewhere' /\ NobodyNoRequests'
  BY <1>1 DEF Elsewhere, NobodyNoRequests, Nothing
<1>3. Locals(t)' /\ Without(t)'
  BY DEF Locals, Without
<1>4. Clean' => Exchange(t)'
  BY <1>1 DEF Clean, Exchange, Nothing, Receiving
<1>5. QED  BY <1>2, <1>3, <1>4, QuietPartsNext

LEMMA AppendFirst ==
  ASSUME NEW S, NEW s \in Seq(S), NEW e \in S, Len(s) = 1
  PROVE  Append(s, e)[1] = s[1]
OBVIOUS

\* A queue, or a text, of one message.
LEMMA Singleton ==
  ASSUME NEW m \in Message
  PROVE  /\ <<m>> \in Seq(Message) /\ Len(<<m>>) = 1 /\ <<m>>[1] = m
         /\ Append(<<>>, m) = <<m>>
         /\ Head(<<m>>) = m /\ Tail(<<m>>) = <<>>
         /\ SubSeq(<<m>>, 1, 1) = <<m>> /\ SubSeq(<<m>>, 2, 1) = <<>>
         /\ <<>> \o Append(<<m>>, End) = <<m, End>>
         /\ SubSeq(<<m, End>>, 1, Len(<<m, End>>) - 1) = <<m>>
         /\ <<m, End>>[Len(<<m, End>>)] = End /\ <<m, End>> # <<>>
<1>1. <<m>> \in Seq(Message) /\ Len(<<m>>) = 1 /\ <<m>>[1] = m
  OBVIOUS
<1>2. Append(<<>>, m) = <<m>>
  OBVIOUS
<1>3. Head(<<m>>) = m
  OBVIOUS
<1>4. Tail(<<m>>) = <<>>
  <2> DEFINE s == <<m>>
  <2>1. s \in Seq(Message) /\ s # <<>> /\ Len(s) = 1
    BY <1>1
  <2> HIDE DEF s
  <2>2. Tail(s) \in Seq(Message) /\ Len(Tail(s)) = 0
    BY <2>1, HeadTailProperties
  <2>3. Tail(s) = <<>>
    BY <2>2, EmptySeq
  <2>4. QED  BY <2>3 DEF s
<1>5. SubSeq(<<m>>, 1, 1) = <<m>>
  <2> DEFINE s == <<m>>
  <2>1. s \in Seq(Message) /\ Len(s) = 1
    BY <1>1
  <2> HIDE DEF s
  <2>2. SubSeq(s, 1, 1) = s
    BY <2>1, SubSeqProperties, SeqEqual
  <2>3. QED  BY <2>2 DEF s
<1>6. SubSeq(<<m>>, 2, 1) = <<>>
  OBVIOUS
<1>7. <<>> \o Append(<<m>>, End) = <<m, End>>
  <2> DEFINE S == Message \cup {End}
             s == <<m>>
             u == <<>> \o Append(s, End)
             v == <<m, End>>
  <2>1. s \in Seq(S) /\ End \in S /\ Len(s) = 1 /\ s[1] = m
    OBVIOUS
  <2>2. u[Len(u)] = End /\ Len(u) = Len(s) + 1
    BY <1>1, AppendEnd
  <2>3. v \in Seq(S) /\ Len(v) = 2 /\ v[1] = m /\ v[2] = End
    OBVIOUS
  <2> HIDE DEF S, s, v
  <2>4. u \in Seq(S) /\ u[1] = m
    <3>1. Append(s, End) \in Seq(S)
      BY <2>1
    <3>2. Append(s, End)[1] = s[1]
      BY ONLY <2>1, AppendFirst
    <3>3. <<>> \o Append(s, End) = Append(s, End)
      BY <3>1
    <3>4. QED  BY <2>1, <3>1, <3>2, <3>3
  <2> HIDE DEF u
  <2>5. Len(u) = 2 /\ u[2] = End
    BY <2>1, <2>2
  <2>6. \A i \in 1 .. 2 : u[i] = v[i]
    <3>1. \A i \in 1 .. 2 : i = 1 \/ i = 2
      OBVIOUS
    <3>2. QED  BY <2>3, <2>4, <2>5, <3>1
  <2>7. u = v
    BY <2>3, <2>4, <2>5, <2>6, SeqEqual
  <2>8. QED  BY <2>7 DEF s, u, v
<1>8. <<m, End>>[Len(<<m, End>>)] = End /\ <<m, End>> # <<>>
  OBVIOUS
<1>9. SubSeq(<<m, End>>, 1, Len(<<m, End>>) - 1) = <<m>>
  BY <1>1, <1>7, AppendEnd
<1>10. QED  BY <1>1, <1>2, <1>3, <1>4, <1>5, <1>6, <1>7, <1>8, <1>9

(***************************************************************************)
(* One step after the other                                                *)
(***************************************************************************)
LEMMA OpenExchangesNothing ==
  ASSUME TypeOK, NEW t \in Threads, SocketInv',
         \/ StartOpen(t) \/ CloseStreams(t) \/ CloseSocket(t) \/ NewSocket(t)
         \/ Connect(t) \/ Streams(t)
  PROVE  /\ pc[t] \notin Exchanging /\ pc'[t] \notin Exchanging
         /\ pc[t] \notin Receiving /\ pc'[t] \notin Receiving
<1>1. pc[t] \notin Exchanging
  BY DEF Exchanging, StartOpen, CloseStreams, CloseSocket, NewSocket, Connect, Streams,
         Running
<1>2. ~crashed'
  BY DEF SocketInv
<1>3. \E label \in Opening \cup {"idle"} : Goto(t, label)
  BY <1>2 DEF Opening, StartOpen, CloseStreams, CloseSocket, NewSocket, Connect,
              Streams, RuntimeException, DropSocket, Return
<1>4. QED  BY <1>1, <1>3 DEF TypeOK, Goto, Opening, Exchanging, Receiving

\* The result of open() is about no request.
LEMMA OpenReturns ==
  ASSUME TypeOK, AuthInv, NEW t \in Threads, SocketInv',
         \/ StartOpen(t) \/ CloseStreams(t) \/ CloseSocket(t) \/ NewSocket(t)
         \/ Connect(t) \/ Streams(t)
  PROVE  \/ ret'[t] = NoReturn
         \/ Streams(t) /\ ret'[t] = [op |-> "open", req |-> "none", ok |-> TRUE, from |-> <<>>]
<1>1. ~RuntimeException
  BY DEF SocketInv, RuntimeException
<1>2. CASE StartOpen(t)
  BY <1>2 DEF StartOpen, TypeOK
<1>3. CASE CloseStreams(t) \/ CloseSocket(t) \/ NewSocket(t)
  BY <1>1, <1>3, AuthParts DEF CloseStreams, CloseSocket, NewSocket, Running
<1>4. CASE DropSocket(t)
  BY <1>4 DEF DropSocket, Return, TypeOK
<1>5. CASE Connect(t) /\ ~DropSocket(t)
  BY <1>1, <1>5, AuthParts DEF Connect, Running
<1>6. CASE Streams(t) /\ ~DropSocket(t)
  <2>1. Return(t, "open", "none", TRUE, <<>>)
    BY <1>1, <1>6 DEF Streams
  <2>2. QED  BY <1>6, <2>1 DEF Return, TypeOK
<1>7. QED  BY <1>2, <1>3, <1>4, <1>5, <1>6

\* Closing a connection loses what is on it, and a new one has nothing on it.
Same(c) == /\ requests'[c] = requests[c] /\ replies'[c] = replies[c]
           /\ peer'[c] = peer[c] /\ timedOut'[c] = timedOut[c]
Emptied(c) == requests'[c] = <<>> /\ replies'[c] = <<>>

LEMMA SerialOpen ==
  ASSUME Base, SerialInv, NEW t \in Threads, Threads = {t}, SocketInv',
         \/ StartOpen(t) \/ CloseStreams(t) \/ CloseSocket(t) \/ NewSocket(t)
         \/ Connect(t) \/ Streams(t)
  PROVE  SerialInv'
<1> USE DEF coreVars, socketVars, bufferVars, historyVars, Base, SocketAndBuffers
<1>0. ~RuntimeException
  BY DEF SocketInv, RuntimeException
<1>1. /\ pc[t] \notin Exchanging /\ pc'[t] \notin Exchanging
      /\ pc[t] \notin Receiving /\ pc'[t] \notin Receiving
  BY OpenExchangesNothing
<1>2. Answers(t)'
  <2>1. ret'[t] = NoReturn \/ ret'[t].op = "open"
    BY OpenReturns
  <2>2. QED  BY <2>1 DEF Answers, NoReturn
<1>3. Elsewhere /\ NobodyNoRequests /\ (Clean => Nothing(mOutput))
  BY <1>1, QuietParts DEF Exchange, Exchanging
<1>4. ASSUME Elsewhere', NobodyNoRequests', Clean' => Nothing(mOutput)'
      PROVE  SerialInv'
  <2>1. Locals(t)' /\ Without(t)' /\ Own(t)'
    BY <1>1 DEF Locals, Without, Own, Exchanging
  <2>2. Clean' => Exchange(t)'
    BY <1>1, <1>4 DEF Exchange, Exchanging, Receiving
  <2>3. QED  BY <1>2, <1>4, <2>1, <2>2, QuietPartsNext
<1>5. CASE StartOpen(t) \/ DropSocket(t)
  <2>1. UNCHANGED <<requests, replies, peer, mOutput, timedOut>>
    BY <1>5 DEF StartOpen, DropSocket
  <2>2. QED  BY <1>3, <1>4, <2>1 DEF Elsewhere, NobodyNoRequests, Clean, Nothing
<1>6. CASE CloseStreams(t) \/ CloseSocket(t)
  <2>1. PICK sockets : Closing(sockets)
    BY <1>0, <1>6 DEF CloseStreams, CloseSocket
  <2>2. mOutput' = mOutput
    BY <1>0, <1>6 DEF CloseStreams, CloseSocket
  <2>3. \A c \in Conns : Emptied(c) \/ Same(c)
    <3> SUFFICES ASSUME NEW c \in Conns PROVE Emptied(c) \/ Same(c)
      OBVIOUS
    <3>1. CASE c \in sockets
      BY <2>1, <3>1 DEF Closing, Emptied
    <3>2. CASE c \notin sockets
      <4>1. requests'[c] = requests[c] /\ replies'[c] = replies[c]
        BY <2>1, <3>2 DEF Closing
      <4>2. peer'[c] = (c \notin sockets /\ peer[c])
            /\ timedOut'[c] = (c \notin sockets /\ timedOut[c])
        BY <2>1, Zenon DEF Closing
      <4>3. peer[c] \in BOOLEAN /\ timedOut[c] \in BOOLEAN
        BY DEF TypeOK
      <4>4. peer'[c] = peer[c] /\ timedOut'[c] = timedOut[c]
        BY <3>2, <4>2, <4>3
      <4>5. QED  BY <4>1, <4>4 DEF Same
    <3>3. QED  BY <3>1, <3>2
  <2>4. Elsewhere' /\ NobodyNoRequests'
    BY <1>3, <2>2, <2>3 DEF Elsewhere, NobodyNoRequests, Nothing, Emptied, Same
  <2>5. mOutput # None => mOutput \in Conns
    BY DEF TypeOK
  <2>6. Clean' => Nothing(mOutput)'
    BY <1>3, <2>2, <2>3, <2>5 DEF Clean, Nothing, Emptied, Same
  <2>7. QED  BY <1>4, <2>4, <2>6
<1>7. CASE NewSocket(t)
  <2> DEFINE c == CHOOSE x \in Unreferenced : TRUE
  <2>1. c \in Unreferenced
    BY <1>7 DEF NewSocket
  <2>2. /\ requests' = [requests EXCEPT ![c] = <<>>]
        /\ replies' = [replies EXCEPT ![c] = <<>>]
        /\ peer' = [peer EXCEPT ![c] = FALSE]
        /\ timedOut' = [timedOut EXCEPT ![c] = FALSE]
        /\ mOutput' = mOutput
    BY <1>7 DEF NewSocket
  <2> HIDE DEF c
  <2>3. c \in Conns /\ c # mOutput
    BY <2>1 DEF Unreferenced
  <2>4. Emptied(c) /\ \A d \in Conns : d # c => Same(d)
    BY <2>2, <2>3 DEF TypeOK, Emptied, Same
  <2>5. Elsewhere' /\ NobodyNoRequests'
    BY <1>3, <2>2, <2>4 DEF Elsewhere, NobodyNoRequests, Nothing, Emptied, Same
  <2>6. mOutput # None => mOutput \in Conns
    BY DEF TypeOK
  <2>7. Clean' => Nothing(mOutput)'
    BY <1>3, <2>2, <2>3, <2>4, <2>6 DEF Clean, Nothing, Emptied, Same
  <2>8. QED  BY <1>4, <2>5, <2>7
<1>8. CASE Connect(t) /\ ~DropSocket(t)
  <2>1. /\ UNCHANGED <<requests, replies, mOutput, timedOut>>
        /\ peer' = [peer EXCEPT ![mSocket] = TRUE]
    BY <1>0, <1>8 DEF Connect
  <2>2. \A c \in Conns : ~peer'[c] => ~peer[c]
    BY <2>1 DEF TypeOK
  <2>3. QED  BY <1>3, <1>4, <2>1, <2>2 DEF Elsewhere, NobodyNoRequests, Clean, Nothing
<1>9. CASE Streams(t) /\ ~DropSocket(t)
  <2>1. mOutput' = mSocket /\ UNCHANGED <<requests, replies, peer, timedOut>>
    BY <1>0, <1>9 DEF Streams
  <2>2. \A c \in Conns : c # mSocket => Nothing(c)
    BY <1>3, DeadNothing DEF SocketInv
  <2>3. Elsewhere' /\ NobodyNoRequests'
    BY <1>3, <2>1, <2>2 DEF Elsewhere, NobodyNoRequests, Nothing
  <2>4. Clean' => Nothing(mOutput)'
    <3>1. mSocket # None => mSocket \in Conns
      BY DEF TypeOK
    <3>2. QED  BY <1>3, <2>1, <3>1 DEF Clean, Elsewhere, Nothing
  <2>5. QED  BY <1>4, <2>3, <2>4
<1>10. QED  BY <1>5, <1>6, <1>7, <1>8, <1>9

LEMMA SerialCall ==
  ASSUME Base, SerialInv, NEW t \in Threads, Threads = {t}, SocketInv',
         StartAuthorize(t) \/ StartConnectionAlive(t) \/ StartCall(t)
  PROVE  SerialInv'
<1> USE DEF coreVars, socketVars, bufferVars, historyVars, Base, SocketAndBuffers
<1>1. pc[t] = "idle" /\ UNCHANGED <<requests, replies, peer, mOutput, timedOut>>
  BY DEF StartAuthorize, StartConnectionAlive, StartIfConnected, StartCall, Running, Begin
<1>3. ASSUME NEW op, NEW req, Begin(t, op, req), req # "auth2",
             \/ op = "authorize" /\ req \in AuthRequests
             \/ op = "connectionAlive" /\ req = AliveRequest
             \/ op \in Queries \cup Commands /\ req = op
      PROVE  SerialInv'
  <2>1. /\ pc'[t] = IF req \in Commands THEN "build" ELSE "send"
        /\ call'[t] = NewCall(op, req)
        /\ ret'[t] = NoReturn
    BY <1>3 DEF Begin, Goto, TypeOK
  <2>2. Answers(t)'
    BY <2>1 DEF Answers, NoReturn
  <2>3. Own(t)'
    BY <1>3, <2>1 DEF Own, NewCall
  <2>4. pc'[t] = "send" => call'[t].req \notin Commands \cup {"auth2"}
    BY <1>3, <2>1 DEF NewCall
  <2>5. pc'[t] \notin Receiving /\ pc'[t] # "receive"
    BY <2>1 DEF Receiving
  <2>6. QED  BY <1>1, <2>2, <2>3, <2>4, <2>5, QuietKept
<1>4. ASSUME NEW op, NEW req, Return(t, op, req, FALSE, <<>>)
      PROVE  SerialInv'
  <2>1. pc'[t] = "idle" /\ ret'[t] = NoReturn
    BY <1>4 DEF Return, Goto, TypeOK
  <2>2. QED  BY <1>1, <2>1, QuietKept DEF Answers, Own, Exchanging, Receiving, NoReturn
<1>5. CASE StartAuthorize(t)
  BY <1>3, <1>4, <1>5 DEF StartAuthorize, StartIfConnected, AuthRequests
<1>6. CASE StartConnectionAlive(t)
  <2>1. AliveRequest # "auth2"
    BY DEF AliveRequest
  <2>2. QED  BY <1>3, <1>4, <1>6, <2>1 DEF StartConnectionAlive, StartIfConnected
<1>7. CASE StartCall(t)
  <2>1. PICK req \in Calls[t] \cap (Queries \cup Commands) : Begin(t, req, req)
    BY <1>7 DEF StartCall
  <2>2. req # "auth2"
    BY ConstantsAssumption
  <2>3. QED  BY <1>3, <2>1, <2>2
<1>8. QED  BY <1>5, <1>6, <1>7

\* One thread composes its request without another's interference.
LEMMA SerialCompose ==
  ASSUME Base, SerialInv, NEW t \in Threads, Threads = {t}, SocketInv',
         Build(t) \/ Compose(t)
  PROVE  SerialInv'
<1> USE DEF coreVars, socketVars, bufferVars, historyVars, Base, SocketAndBuffers
<1>1. /\ pc[t] \in {"build", "compose"} /\ pc'[t] \in {"compose", "send"}
      /\ UNCHANGED <<requests, replies, peer, mInput, mOutput, timedOut, call, ret>>
  BY DEF Build, Compose, Running, Goto, TypeOK
<1>2. Answers(t)' /\ Own(t)'
  BY <1>1, QuietParts DEF Answers, Late, Own, Exchanging
<1>3. pc'[t] = "send" => mRequest' = call'[t].req
  BY <1>1 DEF Build, Compose, Goto, TypeOK
<1>4. pc[t] \notin {"receive", "read"} /\ pc'[t] \notin Receiving /\ pc'[t] # "receive"
  BY <1>1 DEF Receiving
<1>5. QED  BY <1>1, <1>2, <1>3, <1>4, QuietKept

\* What a method leaves behind is nobody's; where there was nothing, it is
\* nothing.
LEMMA SerialAbandoned ==
  ASSUME Base, SerialInv, NEW t \in Threads, Threads = {t}, SocketInv',
         requests' = Abandoned(t, requests), replies' = Abandoned(t, replies),
         UNCHANGED <<peer, mOutput>>,
         Clean' => Clean /\ Nothing(mOutput),
         pc'[t] \notin Receiving, pc'[t] \notin {"receive", "send"},
         Answers(t)', Own(t)'
  PROVE  SerialInv'
<1> USE DEF Base, SocketAndBuffers
<1>1. Elsewhere /\ NobodyNoRequests
  BY QuietParts
<1>2. \A c \in Conns : /\ requests[c] = <<>> => requests'[c] = <<>>
                       /\ replies[c] = <<>> => replies'[c] = <<>>
  BY AbandonedEmpty DEF TypeOK
<1>3. Elsewhere' /\ NobodyNoRequests'
  BY <1>1, <1>2 DEF Elsewhere, NobodyNoRequests, Nothing
<1>4. Clean' => Exchange(t)'
  <2>1. mOutput # None => mOutput \in Conns
    BY DEF TypeOK
  <2>2. Clean' => Nothing(mOutput)'
    BY <1>2, <2>1 DEF Nothing, Clean
  <2>3. QED  BY <2>2 DEF Exchange, Receiving
<1>5. Locals(t)' /\ Without(t)'
  BY DEF Locals, Without
<1>6. QED  BY <1>3, <1>4, <1>5, QuietPartsNext

LEMMA SerialIOException ==
  ASSUME Base, SerialInv, NEW t \in Threads, Threads = {t}, SocketInv', IOException(t),
         UNCHANGED <<peer, mOutput>>, Clean' => Clean /\ Nothing(mOutput)
  PROVE  SerialInv'
<1>1. pc'[t] = "idle" /\ ret'[t] = NoReturn
  BY DEF IOException, Return, Goto, TypeOK, Base, SocketAndBuffers
<1>2. requests' = Abandoned(t, requests) /\ replies' = Abandoned(t, replies)
  BY DEF IOException
<1>3. Answers(t)' /\ Own(t)' /\ pc'[t] \notin Receiving
  BY <1>1 DEF Answers, NoReturn, Own, Exchanging, Receiving
<1>4. QED  BY <1>1, <1>2, <1>3, SerialAbandoned

LEMMA SerialSend ==
  ASSUME Base, SerialInv, NEW t \in Threads, Threads = {t}, SocketInv',
         SendRequest(t)
  PROVE  SerialInv'
<1> USE DEF coreVars, socketVars, bufferVars, historyVars, Base, SocketAndBuffers
<1>1. pc[t] = "send" /\ UNCHANGED <<mInput, mOutput, peer, timedOut>>
  BY DEF SendRequest, Running
<1>2. /\ Answers(t) /\ Own(t) /\ NobodyNoRequests /\ Elsewhere /\ Locals(t)
      /\ Clean => Nothing(mOutput)
  BY <1>1, QuietParts DEF Exchange
<1>3. CASE IOException(t)
  BY <1>1, <1>2, <1>3, SerialIOException DEF Clean
<1>4. ASSUME pc'[t] = "receive", UNCHANGED <<replies, call, ret>>,
             \A c \in Conns : c # mOutput => requests'[c] = requests[c],
             NobodyNoRequests', Clean => Answering(t, mOutput)'
      PROVE  SerialInv'
  <2>1. Elsewhere' /\ Locals(t)' /\ Without(t)'
    BY <1>1, <1>2, <1>4 DEF Elsewhere, Nothing, Locals, Without, Receiving
  <2>2. Answers(t)' /\ Own(t)'
    BY <1>1, <1>2, <1>4 DEF Answers, Late, Own, Exchanging
  <2>3. Clean' => Exchange(t)'
    BY <1>1, <1>4 DEF Clean, Exchange
  <2>4. QED  BY <1>4, <2>1, <2>2, <2>3, QuietPartsNext
<1>5. CASE /\ mOutput # None => local[mOutput] # "closed" /\ ~peer[mOutput]
           /\ Goto(t, "receive")
           /\ UNCHANGED <<requests, replies, call, ret>>
  <2>1. pc'[t] = "receive"
    BY <1>5 DEF Goto, TypeOK
  <2>2. Clean => Answering(t, mOutput)'
    BY <1>1, <1>2, <1>5 DEF Answering, Clean, Nothing
  <2>3. QED  BY <1>1, <1>2, <1>4, <1>5, <2>1, <2>2 DEF NobodyNoRequests
<1>6. ASSUME mOutput # None, peer[mOutput], NEW ok \in BOOLEAN,
             requests' = [requests EXCEPT ![mOutput] =
                  Append(@, [req |-> RequestText(t), by |-> t, ok |-> ok])],
             Goto(t, "receive"),
             UNCHANGED <<replies, call, ret>>
      PROVE  SerialInv'
  <2> DEFINE m == [req |-> RequestText(t), by |-> t, ok |-> ok]
  <2>1. pc'[t] = "receive" /\ mOutput \in Conns
    BY <1>6 DEF Goto, TypeOK
  <2>2. call[t].req \in Requests
    BY <1>1 DEF TypeOK, Exchanging
  <2>3. RequestText(t) = call[t].req
    BY <1>1, <1>2 DEF RequestText, Locals
  <2>4. m \in Message /\ m.by = t /\ m.req = call[t].req
    BY <2>2, <2>3 DEF Message
  <2>5. requests' = [requests EXCEPT ![mOutput] = Append(@, m)]
    BY <1>6
  <2> HIDE DEF m
  <2>6. Clean => Answering(t, mOutput)'
    <3> SUFFICES ASSUME Clean PROVE Answering(t, mOutput)'
      OBVIOUS
    <3>1. requests'[mOutput] = <<m>> /\ replies'[mOutput] = <<>>
      <4>1. requests'[mOutput] = Append(<<>>, m)
        BY <1>2, <2>1, <2>5 DEF Nothing, TypeOK
      <4>2. QED  BY <1>2, <1>6, <2>4, <4>1, Singleton DEF Nothing
    <3>2. m.by = t /\ m.req = call'[t].req
      BY <1>6, <2>4
    <3>3. QED  BY <1>1, <2>4, <3>1, <3>2 DEF Answering
  <2>7. \A c \in Conns : c # mOutput => requests'[c] = requests[c]
    BY <2>5 DEF TypeOK
  <2>8. NobodyNoRequests'
    BY <1>1, <1>2, <1>6, <2>7 DEF NobodyNoRequests
  <2>9. QED  BY <1>4, <1>6, <2>1, <2>6, <2>7, <2>8
<1>7. QED  BY <1>3, <1>5, <1>6 DEF SendRequest

\* What the first read finds is what was sent, or nothing without a stream.
LEMMA SerialStartReceive ==
  ASSUME Base, SerialInv, NEW t \in Threads, Threads = {t}, SocketInv',
         StartReceive(t)
  PROVE  SerialInv'
<1> USE DEF coreVars, socketVars, bufferVars, historyVars, Base, SocketAndBuffers
<1>1. /\ pc[t] = "receive" /\ pc'[t] = "read" /\ mResult' = <<>>
      /\ UNCHANGED <<requests, replies, peer, mInput, mOutput, timedOut, ret>>
      /\ call'[t].op = call[t].op /\ call'[t].req = call[t].req
      /\ call'[t].stream = mInput
  BY DEF StartReceive, Running, Goto, Reading, TypeOK
<1>2. /\ mInput = mOutput /\ Elsewhere /\ Answers(t) /\ NobodyNoRequests /\ Own(t)
      /\ Clean => Answering(t, mOutput)
  BY <1>1, QuietParts DEF Exchange
<1>3. Clean' => Exchange(t)'
  BY <1>1, <1>2 DEF Clean, Exchange, Answering, Nothing
<1>4. Locals(t)' /\ Without(t)'
  BY <1>1, <1>2 DEF Locals, Without
<1>5. Elsewhere' /\ Answers(t)' /\ NobodyNoRequests' /\ Own(t)'
  BY <1>1, <1>2 DEF Elsewhere, Nothing, Answers, Late, NobodyNoRequests, Own, Exchanging
<1>6. QED  BY <1>3, <1>4, <1>5, QuietPartsNext

\* On a connection without a timeout, what there is to read is the reply to
\* this very call, alone.
LEMMA OneReply ==
  ASSUME Base, SerialInv, NEW t \in Threads, Threads = {t}, pc[t] = "read", Clean,
         NEW n \in 1 .. Len(replies[mOutput])
  PROVE  /\ n = 1 /\ requests[mOutput] = <<>>
         /\ \E m \in Message : replies[mOutput] = <<m>> /\ Answer(t, m)
<1>1. Answering(t, mOutput)
  BY QuietParts DEF Exchange
<1>2. replies[mOutput] # <<>>
  OBVIOUS
<1>3. PICK m \in Message : /\ m.by = t /\ m.req = call[t].req
                           /\ requests[mOutput] = <<>> /\ replies[mOutput] = <<m>>
  BY <1>1, <1>2 DEF Answering, Nothing
<1>4. Len(replies[mOutput]) = 1
  BY <1>3, Singleton
<1>5. QED  BY <1>3, <1>4 DEF Answer

LEMMA SerialRead ==
  ASSUME Base, SerialInv, NEW t \in Threads, Threads = {t}, SocketInv', ReadReply(t)
  PROVE  SerialInv'
<1> USE DEF coreVars, socketVars, bufferVars, historyVars, Base, SocketAndBuffers
<1>1. pc[t] = "read" /\ call[t].stream = mOutput /\ mOutput \in Conns /\ mOutput # None
  BY QuietParts DEF ReadReply, Readable, Running, Locals, Receiving, TypeOK
<1>2. PICK n \in 1 .. Len(replies[mOutput]) :
        /\ call' = [call EXCEPT ![t] =
                      Reading(t, mOutput, SubSeq(replies[mOutput], 1, n))]
        /\ replies' = [replies EXCEPT ![mOutput] =
                         SubSeq(replies[mOutput], n + 1, Len(replies[mOutput]))]
  BY <1>1 DEF ReadReply
<1>3. /\ pc'[t] = "append" /\ UNCHANGED <<requests, peer, mInput, mOutput, timedOut, ret>>
  BY DEF ReadReply, Goto, TypeOK
<1>4. Elsewhere /\ Answers(t) /\ NobodyNoRequests /\ Own(t)
  BY QuietParts
<1>5. call'[t] = Reading(t, mOutput, SubSeq(replies[mOutput], 1, n))
  BY <1>2 DEF TypeOK
<1>6. Locals(t)' /\ Without(t)'
  BY <1>1, <1>3, <1>5 DEF Locals, Without, Reading, Receiving
<1>7. Elsewhere' /\ Answers(t)' /\ NobodyNoRequests' /\ Own(t)'
  <2>1. Elsewhere'
    BY <1>1, <1>2, <1>3, <1>4 DEF Elsewhere, Nothing, TypeOK
  <2>2. call'[t].op = call[t].op /\ call'[t].req = call[t].req
    BY <1>5 DEF Reading
  <2>3. QED  BY <1>1, <1>3, <1>4, <2>1, <2>2
             DEF Answers, Late, NobodyNoRequests, Own, Exchanging
<1>8. Clean' => Exchange(t)'
  <2> SUFFICES ASSUME Clean PROVE Exchange(t)'
    BY <1>3 DEF Clean
  <2>1. n = 1 /\ requests[mOutput] = <<>>
    BY <1>1, OneReply
  <2>2. PICK m \in Message : replies[mOutput] = <<m>> /\ Answer(t, m)
    BY <1>1, OneReply
  <2>3. SubSeq(<<m>>, 1, 1) = <<m>> /\ SubSeq(<<m>>, 2, 1) = <<>> /\ Len(<<m>>) = 1
    BY Singleton
  <2>4. call'[t].bytes = <<m>> /\ call'[t].req = call[t].req
    BY <1>5, <2>1, <2>2, <2>3 DEF Reading
  <2>5. replies'[mOutput] = <<>>
    <3>1. SubSeq(replies[mOutput], n + 1, Len(replies[mOutput])) = <<>>
      BY <2>1, <2>2, <2>3
    <3>2. QED  BY <1>1, <1>2, <3>1 DEF TypeOK
  <2>6. m \in Message /\ Answer(t, m)' /\ call'[t].bytes = <<m>>
    BY <2>2, <2>4 DEF Answer
  <2>7. QED  BY <1>3, <2>1, <2>5, <2>6 DEF Exchange, Nothing
<1>9. QED  BY <1>6, <1>7, <1>8, QuietPartsNext

\* What has been read goes through mResult unchanged.
LEMMA SerialCollect ==
  ASSUME Base, SerialInv, NEW t \in Threads, Threads = {t}, SocketInv',
         AppendReply(t) \/ TrimReply(t)
  PROVE  SerialInv'
<1> USE DEF coreVars, socketVars, bufferVars, historyVars, Base, SocketAndBuffers
<1>1. /\ ~RuntimeException /\ pc[t] \in {"append", "trim"}
      /\ Elsewhere /\ Answers(t) /\ NobodyNoRequests /\ Own(t) /\ Locals(t) /\ Without(t)
      /\ Clean => Exchange(t)
  BY QuietParts DEF AppendReply, TrimReply, Running, SocketInv, RuntimeException
<1>2. mOutput # None /\ call[t].stream = mOutput
  BY <1>1 DEF Without, Locals, Receiving
<1>3. CASE AppendReply(t)
  <2>1. /\ pc[t] = "append" /\ mReadBuffer = call[t].bytes /\ mReadBuffer \in Seq(Message)
        /\ mReadBuffer # <<>> /\ mResult = <<>>
    BY <1>3 DEF AppendReply, Running, BufferInv
  <2>2. mReadBuffer # <<Broken>>
    <3>1. mReadBuffer[1] \in Message
      BY <2>1, EmptySeq
    <3>2. QED  BY <3>1, TextsTyped
  <2>3. /\ mResult' = mResult \o Append(mReadBuffer, End) /\ pc'[t] = "trim"
        /\ call'[t] = Reading(t, call[t].stream, <<>>)
        /\ UNCHANGED <<requests, replies, peer, mInput, mOutput, timedOut, ret>>
    BY <1>3, <2>1, <2>2 DEF AppendReply, Goto, TypeOK
  <2>4. Locals(t)' /\ Without(t)'
    BY <1>2, <2>3 DEF Locals, Without, Reading
  <2>5. Elsewhere' /\ Answers(t)' /\ NobodyNoRequests' /\ Own(t)'
    BY <1>1, <2>3 DEF Elsewhere, Nothing, Answers, Late, NobodyNoRequests, Own,
                      Exchanging, Reading
  <2>6. Clean' => Exchange(t)'
    <3> SUFFICES ASSUME Clean PROVE Exchange(t)'
      BY <2>3 DEF Clean
    <3>1. PICK m \in Message : Answer(t, m) /\ call[t].bytes = <<m>>
      BY <1>1, <2>1 DEF Exchange
    <3>2. mResult' = <<m, End>>
      BY <2>1, <2>3, <3>1, Singleton
    <3>3. Answer(t, m)'
      BY <2>3, <3>1 DEF Answer, Reading
    <3>4. Nothing(mOutput)'
      BY <1>1, <2>1, <2>3 DEF Exchange, Nothing
    <3>5. QED  BY <2>3, <3>2, <3>3, <3>4 DEF Exchange
  <2>7. QED  BY <2>4, <2>5, <2>6, QuietPartsNext
<1>4. CASE TrimReply(t)
  <2>1. pc[t] = "trim" /\ mResult # <<>> /\ mResult[Len(mResult)] = End
    BY <1>4 DEF TrimReply, Running, BufferInv
  <2>2. /\ mResult' = SubSeq(mResult, 1, Len(mResult) - 1) /\ pc'[t] = "result"
        /\ UNCHANGED <<requests, replies, peer, mInput, mOutput, timedOut, ret, call>>
    BY <1>4, <2>1 DEF TrimReply, Goto, TypeOK
  <2>3. Locals(t)' /\ Without(t)'
    BY <1>2, <2>2 DEF Locals, Without
  <2>4. Elsewhere' /\ Answers(t)' /\ NobodyNoRequests' /\ Own(t)'
    BY <1>1, <2>1, <2>2 DEF Elsewhere, Nothing, Answers, Late, NobodyNoRequests, Own,
                            Exchanging
  <2>5. Clean' => Exchange(t)'
    <3> SUFFICES ASSUME Clean PROVE Exchange(t)'
      BY <2>2 DEF Clean
    <3>1. PICK m \in Message : Answer(t, m) /\ mResult = <<m, End>>
      BY <1>1, <2>1 DEF Exchange
    <3>2. mResult' = <<m>>
      BY <2>2, <3>1, Singleton
    <3>3. Answer(t, m)'
      BY <2>2, <3>1 DEF Answer
    <3>4. Nothing(mOutput)'
      BY <1>1, <2>1, <2>2 DEF Exchange, Nothing
    <3>5. QED  BY <2>2, <3>2, <3>3, <3>4 DEF Exchange
  <2>6. QED  BY <2>3, <2>4, <2>5, QuietPartsNext
<1>5. QED  BY <1>3, <1>4

\* At the end of the stream nothing is left on the connection.
LEMMA SerialEnd ==
  ASSUME Base, SerialInv, NEW t \in Threads, Threads = {t}, SocketInv', ReadEnd(t)
  PROVE  SerialInv'
<1> USE DEF coreVars, socketVars, bufferVars, historyVars, Base, SocketAndBuffers
<1>1. /\ pc[t] = "read" /\ pc'[t] = "result" /\ mResult = <<>>
      /\ UNCHANGED <<requests, replies, peer, mInput, mOutput, mResult, timedOut, ret, call>>
  BY DEF ReadEnd, Running, BufferInv, Goto, TypeOK
<1>2. /\ Elsewhere /\ Answers(t) /\ NobodyNoRequests /\ Own(t) /\ Locals(t)
  BY QuietParts
<1>3. call[t].stream = mOutput
  BY <1>1, <1>2 DEF Locals, Receiving
<1>4. Clean => Nothing(mOutput)
  <2>1. mOutput # None => mOutput \in Conns
    BY DEF TypeOK
  <2>2. QED  BY <1>2, <1>3, <2>1 DEF ReadEnd, NobodyNoRequests, Nothing, Clean
<1>5. Clean' => Exchange(t)'
  BY <1>1, <1>4 DEF Clean, Exchange, Nothing
<1>6. Locals(t)' /\ Without(t)'
  BY <1>1, <1>3 DEF Locals, Without
<1>7. Elsewhere' /\ Answers(t)' /\ NobodyNoRequests' /\ Own(t)'
  BY <1>1, <1>2 DEF Elsewhere, Nothing, Answers, Late, NobodyNoRequests, Own, Exchanging
<1>8. QED  BY <1>5, <1>6, <1>7, QuietPartsNext

\* A read that fails has found nothing; one that times out leaves its request
\* behind, and the connection is no longer clean.
LEMMA SerialFail ==
  ASSUME Base, SerialInv, NEW t \in Threads, Threads = {t}, SocketInv',
         ReadFails(t) \/ ReadTimeout(t)
  PROVE  SerialInv'
<1> USE DEF coreVars, socketVars, bufferVars, historyVars, Base, SocketAndBuffers
<1>1. /\ pc[t] = "read" /\ call[t].stream = mOutput /\ IOException(t)
      /\ UNCHANGED <<peer, mOutput>> /\ mOutput # None
  BY QuietParts DEF ReadFails, ReadTimeout, Readable, Running, Locals, Receiving
<1>2. CASE ReadFails(t)
  <2>1. mOutput \in Conns /\ NobodyNoRequests /\ UNCHANGED timedOut
    BY <1>1, <1>2, QuietParts DEF ReadFails, TypeOK
  <2>2. Nothing(mOutput)
    <3>1. CASE local[mOutput] = "closed"
      BY <2>1, <3>1, DeadNothing
    <3>2. CASE replies[mOutput] = <<>> /\ ~peer[mOutput]
      BY <2>1, <3>2 DEF NobodyNoRequests, Nothing
    <3>3. QED  BY <1>1, <1>2, <3>1, <3>2 DEF ReadFails
  <2>3. Clean' => Clean /\ Nothing(mOutput)
    BY <1>1, <2>1, <2>2 DEF Clean
  <2>4. QED  BY <1>1, <2>3, SerialIOException
<1>3. CASE ReadTimeout(t)
  <2>1. ~Clean'
    BY <1>1, <1>3 DEF ReadTimeout, Clean, TypeOK
  <2>2. QED  BY <1>1, <2>1, SerialIOException
<1>4. QED  BY <1>2, <1>3

\* What a method makes of the text it has received: of its own reply, or of
\* nothing, as long as the connection is clean.
LEMMA ResultText ==
  ASSUME Base, SerialInv, NEW t \in Threads, Threads = {t}, pc[t] = "result", ~Late
  PROVE  \/ mResult = <<>>
         \/ \E m \in Message : mResult = <<m>> /\ Answer(t, m)
<1>1. mInput = mOutput /\ Without(t) /\ (Clean => Exchange(t))
  BY QuietParts
<1>2. CASE mOutput = None
  BY <1>1, <1>2 DEF Without, Receiving
<1>3. CASE mOutput # None
  <2>1. Clean
    BY <1>1, <1>3 DEF Clean, Late
  <2>2. QED  BY <1>1, <2>1 DEF Exchange
<1>4. QED  BY <1>2, <1>3

\* How a method ends, or authorize goes on.
LEMMA ParseOutcome ==
  ASSUME TypeOK, NEW t \in Threads, Parse(t, mResult)
  PROVE  \/ /\ call[t].req = "auth1" /\ WellFormed(mResult)
            /\ pc'[t] = "build" /\ ret'[t] = ret[t]
            /\ call'[t].op = "authorize" /\ call'[t].req = "auth2" /\ call'[t].bytes = <<>>
         \/ /\ pc'[t] = "idle" /\ ret'[t] = NoReturn /\ call'[t] = NoCall
         \/ /\ pc'[t] = "idle" /\ call'[t] = NoCall
            /\ call[t].req # "auth1" /\ Accepts(t, mResult)
            /\ ret'[t] = [op |-> call[t].op, req |-> call[t].req, ok |-> TRUE,
                          from |-> mResult]
<1>1. CASE call[t].req = "auth1" /\ WellFormed(mResult)
  BY <1>1 DEF Parse, Goto, TypeOK
<1>2. CASE ~(call[t].req = "auth1" /\ WellFormed(mResult))
  <2> DEFINE ok == call[t].req # "auth1" /\ Accepts(t, mResult)
  <2>1. Return(t, call[t].op, call[t].req, ok, mResult)
    BY <1>2 DEF Parse
  <2> HIDE DEF ok
  <2>2. pc'[t] = "idle" /\ call'[t] = NoCall
    BY <2>1 DEF Return, Goto, TypeOK
  <2>3. CASE ok
    <3>1. ret'[t] = [op |-> call[t].op, req |-> call[t].req, ok |-> TRUE, from |-> mResult]
      BY <2>1, <2>3 DEF Return, TypeOK
    <3>2. QED  BY <2>2, <2>3, <3>1 DEF ok
  <2>4. CASE ~ok
    <3>1. ret'[t] = NoReturn
      BY <2>1, <2>4 DEF Return, TypeOK
    <3>2. QED  BY <2>2, <3>1
  <2>5. QED  BY <2>3, <2>4
<1>3. QED  BY <1>1, <1>2

LEMMA SerialReturn ==
  ASSUME Base, SerialInv, NEW t \in Threads, Threads = {t}, SocketInv', ReturnReply(t)
  PROVE  SerialInv'
<1> USE DEF coreVars, socketVars, bufferVars, historyVars, Base, SocketAndBuffers
<1>1. /\ pc[t] = "result" /\ Parse(t, mResult)
      /\ requests' = Abandoned(t, requests) /\ replies' = Abandoned(t, replies)
      /\ UNCHANGED <<peer, mInput, mOutput, timedOut>>
  BY DEF ReturnReply, Running
<1>2. Answers(t) /\ Own(t) /\ (Clean => Nothing(mOutput))
  BY <1>1, QuietParts DEF Exchange
<1>3. Clean' => Clean /\ Nothing(mOutput)
  BY <1>1, <1>2 DEF Clean
<1>4. ASSUME pc'[t] \in {"idle", "build"}, Answers(t)', Own(t)' PROVE SerialInv'
  BY <1>1, <1>3, <1>4, SerialAbandoned DEF Receiving
<1>5. CASE /\ pc'[t] = "build" /\ ret'[t] = ret[t]
           /\ call'[t].op = "authorize" /\ call'[t].req = "auth2"
  <2>1. ret[t] = NoReturn
    BY <1>1, AuthParts
  <2>2. QED  BY <1>4, <1>5, <2>1 DEF Answers, NoReturn, Own, AuthRequests
<1>6. CASE pc'[t] = "idle" /\ ret'[t] = NoReturn
  BY <1>4, <1>6 DEF Answers, NoReturn, Own, Exchanging
<1>7. CASE /\ pc'[t] = "idle" /\ Accepts(t, mResult)
           /\ ret'[t] = [op |-> call[t].op, req |-> call[t].req, ok |-> TRUE,
                         from |-> mResult]
  <2>1. Answers(t)'
    <3> SUFFICES ASSUME call[t].op \notin Unread, ~Late
                 PROVE  /\ Len(mResult) = 1 /\ mResult[1].by = t
                        /\ mResult[1].req = call[t].req
      BY <1>1, <1>7 DEF Answers, Late
    <3>1. mResult # <<>>
      BY <1>7 DEF Accepts, WellFormed
    <3>2. PICK m \in Message : mResult = <<m>> /\ Answer(t, m)
      BY <1>1, <3>1, ResultText
    <3>3. QED  BY <3>2, Singleton DEF Answer
  <2>2. QED  BY <1>4, <1>7, <2>1 DEF Own, Exchanging
<1>8. QED  BY <1>1, <1>5, <1>6, <1>7, ParseOutcome

\* The core client answers what there is.
LEMMA SerialCore ==
  ASSUME Base, SerialInv, NEW t \in Threads, Threads = {t}, SocketInv',
         CoreExits \/ CoreStarts \/ \E c \in Conns : CoreAnswers(c)
  PROVE  SerialInv'
<1> USE DEF coreVars, socketVars, bufferVars, historyVars, Base, SocketAndBuffers
<1>1. UNCHANGED <<mInput, mOutput, mRequest, mResult, timedOut, pc, call, ret>>
  BY DEF CoreExits, CoreStarts, CoreAnswers
<1>2. /\ Elsewhere /\ NobodyNoRequests /\ (Clean => Exchange(t))
      /\ Answers(t)' /\ Own(t)' /\ Locals(t)' /\ Without(t)'
  BY <1>1, QuietParts DEF Answers, Late, Own, Locals, Without
<1>3. CASE CoreExits
  <2>1. UNCHANGED replies /\ \A c \in Conns : requests'[c] = <<>> /\ ~peer'[c]
    BY <1>3 DEF CoreExits
  <2>2. mOutput # None => mOutput \in Conns
    BY DEF TypeOK
  <2>3. Elsewhere' /\ NobodyNoRequests'
    BY <1>1, <1>2, <2>1 DEF Elsewhere, NobodyNoRequests, Nothing
  <2>4. Clean => Answering(t, mOutput)' \/ pc[t] \notin {"receive", "read"}
    BY <1>1, <1>2, <2>1, <2>2 DEF Clean, Exchange, Answering, Nothing
  <2>5. Clean' => Exchange(t)'
    BY <1>1, <1>2, <2>1, <2>2, <2>4 DEF Clean, Exchange, Nothing, Answer
  <2>6. QED  BY <1>2, <2>3, <2>5, QuietPartsNext
<1>4. CASE CoreStarts
  <2>1. UNCHANGED <<requests, replies, peer>>
    BY <1>4 DEF CoreStarts
  <2>2. Elsewhere' /\ NobodyNoRequests' /\ (Clean' => Exchange(t)')
    BY <1>1, <1>2, <2>1
       DEF Elsewhere, NobodyNoRequests, Nothing, Clean, Exchange, Answering, Answer
  <2>3. QED  BY <1>2, <2>2, QuietPartsNext
<1>5. ASSUME NEW c \in Conns, CoreAnswers(c) PROVE SerialInv'
  <2>1. requests[c] # <<>> /\ UNCHANGED peer /\ c # None
    BY <1>5, ConstantsAssumption DEF CoreAnswers
  <2>2. c = mOutput
    BY <1>2, <2>1 DEF Elsewhere, Nothing
  <2>3. PICK r : /\ replies' = [replies EXCEPT ![c] = Append(@, r)]
                 /\ requests' = [requests EXCEPT ![c] = Tail(@)]
                 /\ \E ok \in BOOLEAN : r = [req |-> Head(requests[c]).req,
                                             by |-> Head(requests[c]).by, ok |-> ok]
    BY <1>5 DEF CoreAnswers
  <2>4. \A d \in Conns : d # c => requests'[d] = requests[d] /\ replies'[d] = replies[d]
    BY <2>3 DEF TypeOK
  <2>5. Elsewhere'
    BY <1>1, <1>2, <2>2, <2>4 DEF Elsewhere, Nothing
  <2>6. NobodyNoRequests'
    <3>1. peer[c]
      BY <1>5 DEF CoreAnswers
    <3>2. QED  BY <1>2, <2>1, <2>4, <3>1 DEF NobodyNoRequests
  <2>7. Clean' => Exchange(t)'
    <3> SUFFICES ASSUME Clean PROVE Exchange(t)'
      BY <1>1 DEF Clean
    <3>1. pc[t] \in {"receive", "read"}
      BY <1>2, <2>1, <2>2 DEF Exchange, Nothing
    <3>2. PICK m \in Message : /\ m.by = t /\ m.req = call[t].req
                               /\ requests[c] = <<m>> /\ replies[c] = <<>>
      BY <1>2, <2>1, <2>2, <3>1 DEF Exchange, Answering, Nothing
    <3>3. Head(requests[c]) = m /\ Tail(requests[c]) = <<>>
      BY <3>2, Singleton
    <3>4. r \in Message /\ r.by = t /\ r.req = call[t].req
      BY <2>3, <3>2, <3>3 DEF Message
    <3>5. requests'[c] = <<>> /\ replies'[c] = <<r>>
      <4>1. replies'[c] = Append(<<>>, r)
        BY <2>3, <3>2 DEF TypeOK
      <4>2. Append(<<>>, r) = <<r>>
        BY <3>4, Singleton
      <4>3. requests'[c] = <<>>
        BY <2>3, <3>3 DEF TypeOK
      <4>4. QED  BY <4>1, <4>2, <4>3
    <3>6. Answering(t, c)'
      BY <1>1, <3>4, <3>5 DEF Answering
    <3>7. QED  BY <1>1, <2>2, <3>1, <3>6 DEF Exchange
  <2>8. QED  BY <1>2, <2>5, <2>6, <2>7, QuietPartsNext
<1>6. QED  BY <1>3, <1>4, <1>5

LEMMA SerialStep ==
  ASSUME Base, SerialInv, OneThread, [Next]_vars, SocketInv'
  PROVE  SerialInv'
<1>1. CASE UNCHANGED vars
  BY <1>1 DEF vars, SerialInv, QuietInv, ReplyAnswersCall, Nothing, Answering, Answer,
              Late, NobodyNoRequests, NoStream, Without, OwnRequest, Own
<1>2. ASSUME NEW t \in Threads,
             \/ StartOpen(t) \/ StartAuthorize(t) \/ StartConnectionAlive(t)
             \/ StartCall(t) \/ MethodStep(t)
      PROVE  SerialInv'
  <2>1. Threads = {t}
    BY DEF OneThread
  <2>2. QED  BY <1>2, <2>1, SerialOpen, SerialCall, SerialCompose, SerialSend,
                SerialStartReceive, SerialRead, SerialCollect, SerialEnd, SerialFail,
                SerialReturn DEF MethodStep
<1>3. CASE CoreExits \/ CoreStarts \/ \E c \in Conns : CoreAnswers(c)
  <2>1. PICK t \in Threads : Threads = {t}
    BY ConstantsAssumption DEF OneThread
  <2>2. QED  BY <1>3, <2>1, SerialCore
<1>4. QED  BY <1>1, <1>2, <1>3 DEF Next

LEMMA TheThread == ASSUME OneThread PROVE \E t \in Threads : Threads = {t}
<1>1. PICK t : t \in Threads
  BY ConstantsAssumption
<1>2. Threads = {t}
  BY <1>1 DEF OneThread
<1>3. QED  BY <1>1, <1>2

LEMMA SerialInit == ASSUME Init, OneThread PROVE SerialInv
<1>1. PICK t \in Threads : Threads = {t}
  BY TheThread
<1>2. /\ pc[t] = "idle" /\ ret[t] = NoReturn /\ mOutput = None /\ mInput = None
      /\ \A c \in Conns : requests[c] = <<>> /\ replies[c] = <<>>
  BY DEF Init, Unused
<1>3. QED  BY <1>1, <1>2, QuietParts
           DEF Elsewhere, Nothing, Locals, Clean, Answers, NobodyNoRequests, Without, Own,
               NoReturn, Exchanging, Receiving

LEMMA BaseKept ==
  ASSUME OneThread
  PROVE  /\ Init => Base /\ SerialInv
         /\ Base /\ SerialInv /\ [Next]_vars => Base' /\ SerialInv'
<1>1. Init => Base /\ SerialInv
  BY SocketAndBuffersKept, AuthInit, SerialInit DEF Base
<1>2. ASSUME Base, SerialInv, [Next]_vars PROVE Base' /\ SerialInv'
  <2>1. SocketAndBuffers'
    BY <1>2, SocketAndBuffersKept DEF Base
  <2>2. SocketInv' /\ ~crashed'
    BY <2>1 DEF SocketAndBuffers, SocketInv
  <2>3. AuthInv'
    BY <1>2, <2>2, AuthStep DEF Base
  <2>4. SerialInv'
    BY <1>2, <2>2, SerialStep
  <2>5. QED  BY <2>1, <2>3, <2>4 DEF Base
<1>3. QED  BY <1>1, <1>2

LEMMA SerialInvariant ==
  ASSUME OneThread
  PROVE  Spec => [](Base /\ SerialInv)
BY BaseKept, PTL DEF Spec

\* As long as no read has timed out on the connection in use, a task gets for
\* each call the core client's reply to this very call, or null or false: no
\* order of its calls, of lost connections and of restarts of the core client
\* makes a method return what another call was answered.
THEOREM ReplyAnswers ==
  ASSUME OneThread
  PROVE  Spec => []ReplyAnswersCall
<1>1. SerialInv => ReplyAnswersCall
  BY DEF SerialInv, QuietInv
<1>2. QED  BY <1>1, SerialInvariant, PTL

\* The step that ends a method which has received its reply.
LEMMA ResultReturns ==
  ASSUME Base, SerialInv, NEW t \in Threads, Threads = {t}, [Next]_vars, SocketInv',
         pc[t] = "result", pc'[t] = "idle"
  PROVE  ReturnReply(t)
<1>1. CASE UNCHANGED pc
  BY <1>1
<1>2. CASE ~UNCHANGED pc
  BY <1>2
     DEF Next, vars, MethodStep, StartOpen, CloseStreams, CloseSocket, NewSocket, Connect,
         Streams, StartAuthorize, StartConnectionAlive, StartIfConnected, StartCall, Build,
         Compose, SendRequest, StartReceive, ReadReply, AppendReply, TrimReply, ReadEnd,
         ReadFails, ReadTimeout, Running, CoreAnswers, CoreExits, CoreStarts
<1>3. QED  BY <1>1, <1>2

\* On every connection without a timeout, connectionAlive() used by one task at
\* a time never takes the other side for alive when it has gone, except on its
\* answer to this very call.
THEOREM AliveNoticesClosed ==
  ASSUME OneThread
  PROVE  Spec => AliveUnlessLate
<1> DEFINE Inv == Base /\ SerialInv
           Notices == \A t \in Threads :
                        SaysAlive(t) /\ ~timedOut[call[t].stream] => Responds(t)
<1>1. Inv /\ Inv' /\ [Next]_vars => Notices
  <2> SUFFICES ASSUME Inv, Inv', [Next]_vars, NEW t \in Threads,
                      SaysAlive(t), ~timedOut[call[t].stream]
               PROVE  \E i \in DOMAIN ret'[t].from : ret'[t].from[i].by = t
    BY DEF Responds
  <2>1. Threads = {t} /\ SocketInv' /\ TypeOK /\ TypeOK'
    BY DEF OneThread, Base, SocketAndBuffers
  <2>2. /\ pc[t] = "result" /\ call[t].op = "connectionAlive"
        /\ pc'[t] = "idle" /\ ret'[t].ok
    BY DEF SaysAlive
  <2>3. ReturnReply(t)
    BY <2>1, <2>2, ResultReturns
  <2>4. /\ Parse(t, mResult) /\ UNCHANGED <<mInput, timedOut>>
    BY <2>3 DEF ReturnReply, socketVars, historyVars
  <2>5. ret'[t].op = "connectionAlive"
    BY <2>1, <2>2, <2>4, ParseOutcome DEF NoReturn
  <2>6. ret'[t].op \notin Unread \cup {"open"}
    BY <2>5, ConstantsAssumption
  <2>7. ~Late'
    <3>1. call[t].stream = mInput
      BY <2>1, <2>2, QuietParts DEF Locals, Receiving
    <3>2. QED  BY <2>4, <3>1 DEF Late
  <2>8. Len(ret'[t].from) = 1 /\ ret'[t].from[1].by = t
    BY <2>2, <2>6, <2>7 DEF SerialInv, QuietInv, ReplyAnswersCall
  <2>9. 1 \in DOMAIN ret'[t].from
    BY <2>1, <2>8 DEF TypeOK, ReturnRecord, Text
  <2>10. QED  BY <2>8, <2>9
<1>2. Inv /\ Inv' /\ [Next]_vars => [Notices]_vars
  BY <1>1
<1>3. Spec => []Inv
  BY SerialInvariant
<1>4. QED  BY <1>2, <1>3, PTL DEF Spec, AliveUnlessLate

(***************************************************************************)
(* The service: whose answers are on their way                             *)
(***************************************************************************)
Awaiting == {"receive"} \cup Receiving

Mine(text, t) == \E i \in DOMAIN text : text[i].by = t

Asked(t) == \E c \in Conns : Mine(requests[c], t)

\* The request of a call is on a connection, or answered, or neither, and only
\* once and during the call; the bytes of a read are kept until the append.
MineOf(t) ==
  /\ Asked(t) \/ Answered(t) => pc[t] \in Awaiting
  /\ Asked(t) => ~Answered(t)
  /\ \A c \in Conns : \A i, j \in DOMAIN requests[c] :
       requests[c][i].by = t /\ requests[c][j].by = t => i = j
  /\ pc[t] # "append" => call[t].bytes = <<>>

\* The connection that has seen a timeout is the open one.
LateOpen == \A c \in Conns : timedOut[c] => c = mInput /\ local[c] = "open"

MineInv == LateOpen /\ \A t \in Threads : MineOf(t)

LEMMA AnsweredIs ==
  ASSUME NEW t \in Threads
  PROVE  Answered(t) <=> \/ \E c \in Conns : Mine(replies[c], t)
                         \/ Mine(call[t].bytes, t)
                         \/ pc[t] \in Receiving /\ Mine(mResult, t)
BY DEF Answered, Mine

LEMMA AnsweredIsNext ==
  ASSUME NEW t \in Threads
  PROVE  Answered(t)' <=> \/ \E c \in Conns : Mine(replies'[c], t)
                          \/ Mine(call'[t].bytes, t)
                          \/ pc'[t] \in Receiving /\ Mine(mResult', t)
BY DEF Answered, Mine

LEMMA MineNothing == \A t \in Threads : ~Mine(<<>>, t)
BY DEF Mine

LEMMA MineAppended ==
  ASSUME NEW S, NEW s \in Seq(S), NEW m, NEW t, m \in S
  PROVE  Mine(Append(s, m), t) <=> (Mine(s, t) \/ m.by = t)
<1>1. /\ DOMAIN Append(s, m) = 1 .. Len(s) + 1 /\ DOMAIN s = 1 .. Len(s)
      /\ Append(s, m)[Len(s) + 1] = m
      /\ \A i \in 1 .. Len(s) : Append(s, m)[i] = s[i]
      /\ Len(s) \in Nat
  OBVIOUS
<1>2. ASSUME Mine(Append(s, m), t) PROVE Mine(s, t) \/ m.by = t
  BY <1>1, <1>2 DEF Mine
<1>3. ASSUME Mine(s, t) PROVE Mine(Append(s, m), t)
  BY <1>1, <1>3 DEF Mine
<1>4. ASSUME m.by = t PROVE Mine(Append(s, m), t)
  BY <1>1, <1>4 DEF Mine
<1>5. QED  BY <1>2, <1>3, <1>4

LEMMA MineAbandoned ==
  ASSUME NEW t \in Threads, NEW q \in [Conns -> Seq(Message)], NEW c \in Conns
  PROVE  ~Mine(Abandoned(t, q)[c], t)
<1>1. /\ DOMAIN Abandoned(t, q)[c] = DOMAIN q[c]
      /\ \A i \in DOMAIN q[c] : Abandoned(t, q)[c][i] =
           IF q[c][i].by = t
             THEN [req |-> q[c][i].req, by |-> None, ok |-> q[c][i].ok]
             ELSE q[c][i]
  BY DEF Abandoned
<1>2. t # None
  BY ConstantsAssumption
<1>3. ASSUME NEW i \in DOMAIN q[c] PROVE Abandoned(t, q)[c][i].by # t
  <2>1. CASE q[c][i].by = t
    <3>1. Abandoned(t, q)[c][i] = [req |-> q[c][i].req, by |-> None, ok |-> q[c][i].ok]
      BY <1>1, <2>1
    <3>2. QED  BY <1>2, <3>1
  <2>2. CASE q[c][i].by # t
    <3>1. Abandoned(t, q)[c][i] = q[c][i]
      BY <1>1, <2>2
    <3>2. QED  BY <2>2, <3>1
  <2>3. QED  BY <2>1, <2>2
<1>4. QED  BY <1>1, <1>3 DEF Mine

LEMMA MineSplit ==
  ASSUME NEW S, NEW s \in Seq(S), NEW n \in 1 .. Len(s), NEW t
  PROVE  Mine(s, t) <=> (Mine(SubSeq(s, 1, n), t) \/ Mine(SubSeq(s, n + 1, Len(s)), t))
<1> DEFINE a == SubSeq(s, 1, n)
           b == SubSeq(s, n + 1, Len(s))
<1>1. Len(s) \in Nat /\ n \in Nat /\ DOMAIN s = 1 .. Len(s) /\ n <= Len(s)
  OBVIOUS
<1>2. /\ DOMAIN a = 1 .. n
      /\ \A i \in 1 .. n : a[i] = s[i]
  BY <1>1, SubSeqProperties
<1> DEFINE k == n + 1
           l == Len(s)
<1>3. /\ k \in Int /\ l \in Int
      /\ \A i \in k .. l : s[i] \in S
  <2>1. \A i \in k .. l : i \in 1 .. l
    BY <1>1
  <2>2. \A i \in 1 .. l : s[i] \in S
    BY <1>1
  <2>3. QED  BY <1>1, <2>1, <2>2
<1>4. /\ DOMAIN b = 1 .. Len(s) - n
      /\ \A i \in 1 .. Len(s) - n : b[i] = s[n + i]
  <2>1. b \in Seq(S) /\ Len(b) = Len(s) - n
    <3>2. /\ b \in Seq(S)
          /\ Len(b) = IF n + 1 <= Len(s) THEN Len(s) - (n + 1) + 1 ELSE 0
      BY <1>3, SubSeqProperties
    <3>3. (IF k <= l THEN l - k + 1 ELSE 0) = l - n
      <4>1. n \in Int /\ l \in Int /\ n <= l
        BY <1>1
      <4> HIDE DEF l
      <4>2. QED  BY <4>1
    <3>4. QED  BY <3>2, <3>3
  <2>2. \A i \in 1 .. Len(s) - (n + 1) + 1 : b[i] = s[n + 1 + i - 1]
    BY <1>3, SubSeqProperties
  <2>3. Len(s) - (n + 1) + 1 = Len(s) - n /\ \A i \in 1 .. Len(s) - n : n + 1 + i - 1 = n + i
    BY <1>1
  <2> HIDE DEF b
  <2>4. \A i \in 1 .. Len(s) - n : b[i] = s[n + i]
    BY <2>2, <2>3
  <2>5. DOMAIN b = 1 .. Len(s) - n
    BY <2>1
  <2>6. QED  BY <2>4, <2>5
<1> HIDE DEF a, b
<1>5. Mine(a, t) \/ Mine(b, t) => Mine(s, t)
  <2>1. Mine(a, t) => Mine(s, t)
    <3>1. \A i \in 1 .. n : i \in 1 .. Len(s)
      BY <1>1
    <3>2. QED  BY <1>1, <1>2, <3>1 DEF Mine
  <2>2. Mine(b, t) => Mine(s, t)
    <3>1. \A i \in 1 .. Len(s) - n : n + i \in 1 .. Len(s)
      BY <1>1
    <3>2. QED  BY <1>1, <1>4, <3>1 DEF Mine
  <2>3. QED  BY <2>1, <2>2
<1>6. ASSUME Mine(s, t), ~Mine(a, t) PROVE Mine(b, t)
  <2>1. PICK i \in 1 .. Len(s) : s[i].by = t
    BY <1>1, <1>6 DEF Mine
  <2>2. i \notin 1 .. n
    BY <1>2, <1>6, <2>1 DEF Mine
  <2>3. i - n \in 1 .. Len(s) - n /\ n + (i - n) = i
    BY <1>1, <2>1, <2>2
  <2>4. b[i - n] = s[i]
    BY <1>4, <2>3
  <2>5. QED  BY <1>4, <2>1, <2>3, <2>4 DEF Mine
<1>7. QED  BY <1>5, <1>6 DEF a, b

LEMMA MineHeadTail ==
  ASSUME NEW s \in Seq(Message), s # <<>>, NEW t
  PROVE  /\ Mine(s, t) <=> (Head(s).by = t \/ Mine(Tail(s), t))
         /\ DOMAIN Tail(s) = 1 .. Len(s) - 1 /\ Len(s) \in Nat \ {0}
         /\ DOMAIN s = 1 .. Len(s) /\ Head(s) = s[1]
         /\ \A i \in 1 .. Len(s) - 1 : Tail(s)[i] = s[i + 1]
<1>1. /\ DOMAIN Tail(s) = 1 .. Len(s) - 1 /\ Len(s) \in Nat \ {0}
      /\ DOMAIN s = 1 .. Len(s) /\ Head(s) = s[1]
      /\ \A i \in 1 .. Len(s) - 1 : Tail(s)[i] = s[i + 1]
  OBVIOUS
<1>2. ASSUME Mine(s, t), Head(s).by # t PROVE Mine(Tail(s), t)
  <2>1. PICK i \in 1 .. Len(s) : s[i].by = t
    BY <1>1, <1>2 DEF Mine
  <2>2. i - 1 \in 1 .. Len(s) - 1 /\ i - 1 + 1 = i
    BY <1>1, <1>2, <2>1
  <2>3. QED  BY <1>1, <2>1, <2>2 DEF Mine
<1>3. Head(s).by = t \/ Mine(Tail(s), t) => Mine(s, t)
  BY <1>1 DEF Mine
<1>4. QED  BY <1>1, <1>2, <1>3

LEMMA MineFront ==
  ASSUME NEW S, NEW s \in Seq(S), s # <<>>, NEW t
  PROVE  Mine(s, t) <=> (Mine(SubSeq(s, 1, Len(s) - 1), t) \/ s[Len(s)].by = t)
<1> DEFINE l == Len(s)
           front == SubSeq(s, 1, l - 1)
<1>1. l \in Nat \ {0} /\ DOMAIN s = 1 .. l
  OBVIOUS
<1>2. /\ DOMAIN front = 1 .. l - 1
      /\ \A i \in 1 .. l - 1 : front[i] = s[i]
  OBVIOUS
<1> HIDE DEF l, front
<1>3. \A i \in 1 .. l : i \in 1 .. l - 1 \/ i = l
  BY <1>1
<1>4. /\ \A i \in 1 .. l - 1 : i \in 1 .. l
      /\ l \in 1 .. l
  BY <1>1
<1>5. Mine(s, t) => Mine(front, t) \/ s[l].by = t
  BY <1>1, <1>2, <1>3 DEF Mine
<1>6. Mine(front, t) => Mine(s, t)
  BY <1>1, <1>2, <1>4 DEF Mine
<1>7. s[l].by = t => Mine(s, t)
  BY <1>1, <1>4 DEF Mine
<1>8. QED  BY <1>5, <1>6, <1>7 DEF l, front

\* Between two exchanges, nothing of t is anywhere.
LEMMA MineQuiet ==
  ASSUME NEW t \in Threads, pc'[t] \notin Awaiting, call'[t].bytes = <<>>,
         \A c \in Conns : ~Mine(requests'[c], t) /\ ~Mine(replies'[c], t)
  PROVE  MineOf(t)' /\ ~Answered(t)'
<1>1. ~Mine(call'[t].bytes, t) /\ pc'[t] \notin Receiving
  BY MineNothing DEF Awaiting
<1>2. ~Answered(t)'
  BY <1>1, AnsweredIsNext
<1>3. ~Asked(t)'
  BY DEF Asked, Mine
<1>4. (\A c \in Conns : \A i, j \in DOMAIN requests[c] :
         requests[c][i].by = t /\ requests[c][j].by = t => i = j)'
  BY DEF Mine
<1>5. QED  BY <1>2, <1>3, <1>4 DEF MineOf

\* A step of an exchange which neither asks nor answers.
LEMMA MineKept ==
  ASSUME NEW t \in Threads, MineOf(t), UNCHANGED requests, Answered(t)' <=> Answered(t),
         pc'[t] \in Awaiting, pc'[t] # "append" => call'[t].bytes = <<>>
  PROVE  MineOf(t)'
<1>1. Asked(t)' <=> Asked(t)
  BY DEF Asked, Mine
<1>2. QED  BY <1>1 DEF MineOf

\* Whoever is in no exchange has asked nothing and has no answer.
LEMMA MineBefore ==
  ASSUME NEW t \in Threads, MineOf(t), pc[t] \notin Awaiting
  PROVE  /\ ~Asked(t) /\ ~Answered(t) /\ call[t].bytes = <<>>
         /\ \A c \in Conns : ~Mine(requests[c], t) /\ ~Mine(replies[c], t)
<1>1. ~Asked(t) /\ ~Answered(t) /\ call[t].bytes = <<>>
  BY DEF MineOf, Awaiting, Receiving
<1>2. QED  BY <1>1, AnsweredIs DEF Asked

(***************************************************************************)
(* The service: its actions in terms of RpcClient                          *)
(***************************************************************************)
Pending(t) == IF InProgress(t) THEN call[t].req ELSE None

Result(t) == [req |-> ret[t].req, ok |-> ret[t].ok]

NoResult == [req |-> "none", ok |-> FALSE]

LEMMA ServiceInvoke ==
  ASSUME NEW t \in Threads, Threads = {t},
         Pending(t) = None, Pending(t)' \in Requests, Result(t)' = NoResult,
         Answered(t)' <=> Answered(t), Late' <=> Late
  PROVE  Service!Invoke(t)
<1>1. Answered(t)' = Answered(t) /\ Late' = Late
  BY Zenon DEF Answered, Late
<1>2. QED  BY <1>1 DEF Service!Invoke, Service!NoResult, Pending, Result, NoResult

LEMMA ServiceAnswer ==
  ASSUME NEW t \in Threads, Threads = {t},
         Pending(t) # None, Pending(t)' = Pending(t), Result(t)' = Result(t),
         ~Answered(t), Answered(t)', Late' <=> Late
  PROVE  Service!Answer(t)
<1>1. Answered(t)' = TRUE /\ Late' = Late
  BY Zenon DEF Answered, Late
<1>2. QED  BY <1>1 DEF Service!Answer, Pending, Result

LEMMA ServiceProceed ==
  ASSUME NEW t \in Threads, Threads = {t},
         Pending(t) = "auth1", Answered(t) \/ Late, Pending(t)' = None, ~Answered(t)',
         Result(t)' = Result(t), Late' <=> Late
  PROVE  Service!Proceed(t)
<1>1. Answered(t)' = FALSE /\ Late' = Late
  BY Zenon DEF Answered, Late
<1>2. QED  BY <1>1 DEF Service!Proceed, Pending, Result

LEMMA ServiceReturn ==
  ASSUME NEW t \in Threads, Threads = {t}, NEW ok \in BOOLEAN,
         Pending(t) # None, ok => Answered(t) \/ Pending(t) \in Unread \/ Late,
         Pending(t)' = None, ~Answered(t)', Late' <=> Late,
         Result(t)' = IF ok THEN [req |-> Pending(t), ok |-> TRUE] ELSE NoResult
  PROVE  Service!Return(t)
<1>1. Answered(t)' = FALSE /\ Late' = Late
  BY Zenon DEF Answered, Late
<1>2. QED  BY <1>1 DEF Service!Return, Service!NoResult, Pending, Result, NoResult

LEMMA ServiceTimeOut ==
  ASSUME NEW t \in Threads, Threads = {t},
         Pending(t) # None, ~Answered(t), Result(t)' = NoResult,
         Pending(t)' = None, ~Answered(t)', Late'
  PROVE  Service!TimeOut(t)
<1>1. Answered(t)' = Answered(t) /\ Late' = TRUE
  BY Zenon DEF Answered, Late
<1>2. QED  BY <1>1 DEF Service!TimeOut, Service!NoResult, Pending, Result, NoResult

LEMMA ServiceReturnAtOnce ==
  ASSUME NEW t \in Threads, Threads = {t}, NEW ok \in BOOLEAN,
         Pending(t) = None, Pending(t)' = None, Answered(t)' <=> Answered(t),
         Late' <=> Late, Result(t)' = [req |-> "none", ok |-> ok]
  PROVE  Service!ReturnAtOnce(t)
<1>1. Answered(t)' = Answered(t) /\ Late' = Late
  BY Zenon DEF Answered, Late
<1>2. QED  BY <1>1 DEF Service!ReturnAtOnce, Pending, Result

LEMMA ServiceDisconnect ==
  ASSUME NEW t \in Threads, Threads = {t},
         Pending(t) = None, Pending(t)' = None, Answered(t)' <=> Answered(t),
         ~Late', Result(t)' = Result(t)
  PROVE  Service!Disconnect(t)
<1>1. Answered(t)' = Answered(t) /\ Late' = FALSE
  BY Zenon DEF Answered, Late
<1>2. QED  BY <1>1 DEF Service!Disconnect, Pending, Result

LEMMA ServiceStutters ==
  ASSUME NEW t \in Threads, Threads = {t},
         Pending(t)' = Pending(t), Answered(t)' <=> Answered(t), Result(t)' = Result(t),
         Late' <=> Late
  PROVE  UNCHANGED Service!vars
<1>1. Answered(t)' = Answered(t) /\ Late' = Late
  BY Zenon DEF Answered, Late
<1>2. QED  BY <1>1 DEF Service!vars, Pending, Result

ServiceStepped ==
  \/ \E t \in Threads :
       \/ Service!Invoke(t) \/ Service!Answer(t) \/ Service!Proceed(t)
       \/ Service!Return(t) \/ Service!TimeOut(t) \/ Service!ReturnAtOnce(t)
       \/ Service!Disconnect(t)
  \/ UNCHANGED Service!vars

\* In an exchange, but not between the two phases of authorize, a request is
\* in progress.
LEMMA PendingRequest ==
  ASSUME TypeOK, NEW t \in Threads, InProgress(t)
  PROVE  Pending(t) = call[t].req /\ Pending(t) \in Requests /\ Pending(t) # None
BY ConstantsAssumption DEF InProgress, Pending, TypeOK

(***************************************************************************)
(* The service: one step after the other                                   *)
(***************************************************************************)
ServiceInv == Base /\ SerialInv /\ MineInv

Served == MineInv' /\ ServiceStepped

\* Late, of the connections.
LEMMA LateIs ==
  ASSUME TypeOK, LateOpen
  PROVE  Late <=> \E c \in Conns : timedOut[c]
BY ConstantsAssumption DEF TypeOK, LateOpen, Late

LEMMA LateIsNext ==
  ASSUME TypeOK', LateOpen'
  PROVE  Late' <=> \E c \in Conns : timedOut'[c]
BY ConstantsAssumption DEF TypeOK, LateOpen, Late

\* A step that leaves the sockets alone.
LEMMA LateKept ==
  ASSUME LateOpen, UNCHANGED <<timedOut, mInput, local>>
  PROVE  LateOpen' /\ (Late' <=> Late)
BY DEF LateOpen, Late

\* What open() does to the queues and to its thread.
LEMMA OpenClears ==
  ASSUME TypeOK, NEW t \in Threads, SocketInv', call[t].bytes = <<>>,
         \/ StartOpen(t) \/ CloseStreams(t) \/ CloseSocket(t) \/ NewSocket(t)
         \/ Connect(t) \/ Streams(t)
  PROVE  /\ \A c \in Conns : /\ requests'[c] = requests[c] \/ requests'[c] = <<>>
                             /\ replies'[c] = replies[c] \/ replies'[c] = <<>>
                             /\ timedOut'[c] => timedOut[c]
         /\ call'[t].bytes = <<>>
<1>1. ~RuntimeException
  BY DEF SocketInv, RuntimeException
<1>2. CASE StartOpen(t)
  BY <1>2 DEF StartOpen, NewCall, historyVars, TypeOK
<1>3. CASE CloseStreams(t) \/ CloseSocket(t)
  <2>1. PICK sockets : Closing(sockets)
    BY <1>1, <1>3 DEF CloseStreams, CloseSocket
  <2>2. UNCHANGED call
    BY <1>1, <1>3 DEF CloseStreams, CloseSocket
  <2>3. \A c \in Conns : timedOut'[c] => timedOut[c]
    BY <2>1, Zenon DEF Closing
  <2>4. QED  BY <2>1, <2>2, <2>3 DEF Closing
<1>4. CASE NewSocket(t)
  <2>1. PICK c \in Conns : /\ requests' = [requests EXCEPT ![c] = <<>>]
                           /\ replies' = [replies EXCEPT ![c] = <<>>]
                           /\ timedOut' = [timedOut EXCEPT ![c] = FALSE]
    <3> DEFINE c == CHOOSE x \in Unreferenced : TRUE
    <3>1. c \in Conns
      BY <1>4 DEF NewSocket, Unreferenced
    <3>2. QED  BY <1>4, <3>1 DEF NewSocket
  <2>2. UNCHANGED call
    BY <1>4 DEF NewSocket
  <2>3. QED  BY <2>1, <2>2 DEF TypeOK
<1>5. CASE DropSocket(t)
  BY <1>5 DEF DropSocket, Return, NoCall, NewCall, historyVars, TypeOK
<1>6. CASE Connect(t) /\ ~DropSocket(t)
  BY <1>1, <1>6 DEF Connect, historyVars
<1>7. CASE Streams(t) /\ ~DropSocket(t)
  BY <1>1, <1>7 DEF Streams, Return, NoCall, NewCall, historyVars, TypeOK
<1>8. QED  BY <1>2, <1>3, <1>4, <1>5, <1>6, <1>7

\* The connection that has seen a timeout stays the open one, or is closed.
LEMMA OpenLate ==
  ASSUME TypeOK, SocketInv, NEW t \in Threads, SocketInv', LateOpen,
         \/ StartOpen(t) \/ CloseStreams(t) \/ CloseSocket(t) \/ NewSocket(t)
         \/ Connect(t) \/ Streams(t)
  PROVE  LateOpen'
<1>1. ~RuntimeException
  BY DEF SocketInv, RuntimeException
<1>2. CASE StartOpen(t) \/ DropSocket(t)
  BY <1>2 DEF StartOpen, DropSocket, historyVars, socketVars, LateOpen
<1>3. CASE CloseStreams(t) \/ CloseSocket(t)
  <2>1. PICK sockets : Closing(sockets)
    BY <1>1, <1>3 DEF CloseStreams, CloseSocket
  <2>2. UNCHANGED mInput
    BY <1>1, <1>3 DEF CloseStreams, CloseSocket
  <2>3. \A c \in Conns : timedOut'[c] => c \notin sockets /\ timedOut[c]
    BY <2>1, Zenon DEF Closing
  <2>4. \A c \in Conns : c \notin sockets => local'[c] = local[c]
    BY <2>1 DEF Closing
  <2>5. QED  BY <2>2, <2>3, <2>4 DEF LateOpen
<1>4. CASE NewSocket(t)
  <2>1. PICK c \in Conns : /\ timedOut' = [timedOut EXCEPT ![c] = FALSE]
                           /\ local' = [local EXCEPT ![c] = "new"]
    <3> DEFINE c == CHOOSE x \in Unreferenced : TRUE
    <3>1. c \in Conns
      BY <1>4 DEF NewSocket, Unreferenced
    <3>2. QED  BY <1>4, <3>1 DEF NewSocket
  <2>2. UNCHANGED mInput
    BY <1>4 DEF NewSocket
  <2>3. QED  BY <2>1, <2>2 DEF TypeOK, LateOpen
<1>5. CASE Connect(t) /\ ~DropSocket(t)
  <2>1. UNCHANGED <<mInput, timedOut>> /\ local' = [local EXCEPT ![mSocket] = "open"]
    BY <1>1, <1>5 DEF Connect, historyVars
  <2>2. QED  BY <2>1 DEF LateOpen, TypeOK
<1>6. CASE Streams(t) /\ ~DropSocket(t)
  <2>1. UNCHANGED <<local, timedOut>> /\ mInput' = mSocket
    BY <1>1, <1>6 DEF Streams, historyVars
  <2>2. QED  BY <2>1 DEF LateOpen, SocketInv
<1>7. QED  BY <1>2, <1>3, <1>4, <1>5, <1>6

\* open() exchanges nothing; closing the old connection, it is rid of what was
\* given up on it.
LEMMA ServiceOpen ==
  ASSUME ServiceInv, NEW t \in Threads, Threads = {t}, SocketInv', TypeOK',
         \/ StartOpen(t) \/ CloseStreams(t) \/ CloseSocket(t) \/ NewSocket(t)
         \/ Connect(t) \/ Streams(t)
  PROVE  Served
<1> USE DEF ServiceInv, Base, SocketAndBuffers
<1>1. /\ pc[t] \notin Exchanging /\ pc'[t] \notin Exchanging
      /\ pc[t] \notin Receiving /\ pc'[t] \notin Receiving
  BY OpenExchangesNothing
<1>2. pc[t] \notin Awaiting /\ pc'[t] \notin Awaiting
  BY <1>1 DEF Awaiting, Exchanging
<1>3. /\ ~Answered(t) /\ call[t].bytes = <<>>
      /\ \A c \in Conns : ~Mine(requests[c], t) /\ ~Mine(replies[c], t)
  BY <1>2, MineBefore DEF MineInv
<1>4. /\ \A c \in Conns : /\ requests'[c] = requests[c] \/ requests'[c] = <<>>
                          /\ replies'[c] = replies[c] \/ replies'[c] = <<>>
                          /\ timedOut'[c] => timedOut[c]
      /\ call'[t].bytes = <<>>
  BY <1>3, OpenClears
<1>5. MineOf(t)' /\ ~Answered(t)'
  <2>1. \A c \in Conns : ~Mine(requests'[c], t) /\ ~Mine(replies'[c], t)
    BY <1>3, <1>4, MineNothing
  <2>2. QED  BY <1>2, <1>4, <2>1, MineQuiet
<1>6. LateOpen'
  BY OpenLate DEF MineInv
<1>7. MineInv'
  BY <1>5, <1>6 DEF MineInv
<1>8. Pending(t) = None /\ Pending(t)' = None
  BY <1>1 DEF Pending, InProgress
<1>9. Late' => Late
  BY <1>4, <1>6, LateIs, LateIsNext DEF MineInv
<1>10. CASE ret'[t] = ret[t]
  <2>1. Result(t)' = Result(t)
    BY <1>10 DEF Result
  <2>2. CASE Late' <=> Late
    BY <1>3, <1>5, <1>7, <1>8, <2>1, <2>2, ServiceStutters DEF Served, ServiceStepped
  <2>3. CASE ~Late'
    BY <1>3, <1>5, <1>7, <1>8, <2>1, <2>3, ServiceDisconnect DEF Served, ServiceStepped
  <2>4. QED  BY <1>9, <2>2, <2>3
<1>11. CASE StartOpen(t) \/ DropSocket(t) \/ (Streams(t) /\ ~DropSocket(t))
  <2>1. Late' <=> Late
    <3>1. UNCHANGED timedOut
      BY <1>11 DEF StartOpen, DropSocket, Streams, historyVars, SocketInv, RuntimeException
    <3>2. QED  BY <1>6, <3>1, LateIs, LateIsNext DEF MineInv
  <2>2. PICK ok \in BOOLEAN : Result(t)' = [req |-> "none", ok |-> ok]
    <3>1. \/ ret'[t].req = "none" /\ ret'[t].ok = FALSE
          \/ ret'[t].req = "none" /\ ret'[t].ok = TRUE
      BY OpenReturns DEF NoReturn
    <3>2. QED  BY <3>1 DEF Result
  <2>3. QED  BY <1>3, <1>5, <1>7, <1>8, <2>1, <2>2, ServiceReturnAtOnce
             DEF Served, ServiceStepped
<1>12. CASE \/ CloseStreams(t) \/ CloseSocket(t) \/ NewSocket(t)
            \/ (Connect(t) /\ ~DropSocket(t))
  <2>1. UNCHANGED ret
    BY <1>12 DEF CloseStreams, CloseSocket, NewSocket, Connect, SocketInv, RuntimeException
  <2>2. QED  BY <1>10, <2>1
<1>13. QED  BY <1>11, <1>12

LEMMA ServiceCall ==
  ASSUME ServiceInv, NEW t \in Threads, Threads = {t},
         StartAuthorize(t) \/ StartConnectionAlive(t) \/ StartCall(t)
  PROVE  Served
<1> USE DEF ServiceInv, Base, SocketAndBuffers
<1>1. /\ pc[t] = "idle"
      /\ UNCHANGED <<requests, replies, timedOut, mInput, local>>
  BY DEF StartAuthorize, StartConnectionAlive, StartIfConnected, StartCall, Running, Begin,
         socketVars, historyVars
<1>2. /\ ~Answered(t) /\ call[t].bytes = <<>>
      /\ \A c \in Conns : ~Mine(requests[c], t) /\ ~Mine(replies[c], t)
  BY <1>1, MineBefore DEF MineInv, Awaiting, Receiving
<1>3. LateOpen' /\ (Late' <=> Late)
  BY <1>1, LateKept DEF MineInv
<1>4. Pending(t) = None
  BY <1>1 DEF Pending, InProgress, Exchanging
<1>5. ASSUME pc'[t] \notin Awaiting, call'[t].bytes = <<>>
      PROVE  MineInv' /\ ~Answered(t)'
  BY <1>1, <1>2, <1>3, <1>5, MineQuiet DEF MineInv
<1>6. ASSUME NEW op, NEW req \in Requests, Begin(t, op, req), req # "auth2"
      PROVE  Served
  <2>1. /\ pc'[t] = IF req \in Commands THEN "build" ELSE "send"
        /\ call'[t] = NewCall(op, req)
        /\ ret'[t] = NoReturn
    BY <1>6 DEF Begin, Goto, TypeOK
  <2>2. Pending(t)' = req
    BY <1>6, <2>1 DEF Pending, InProgress, Exchanging, NewCall
  <2>3. Result(t)' = NoResult
    BY <2>1 DEF Result, NoResult, NoReturn
  <2>4. MineInv' /\ ~Answered(t)'
    BY <1>5, <2>1 DEF NewCall, Awaiting, Receiving
  <2>5. QED  BY <1>2, <1>3, <1>4, <2>2, <2>3, <2>4, ServiceInvoke
             DEF Served, ServiceStepped
<1>7. ASSUME NEW op, NEW req, Return(t, op, req, FALSE, <<>>)
      PROVE  Served
  <2>1. pc'[t] = "idle" /\ ret'[t] = NoReturn /\ call'[t] = NoCall
    BY <1>7 DEF Return, Goto, TypeOK
  <2>2. Pending(t)' = None
    BY <2>1 DEF Pending, InProgress, Exchanging
  <2>3. MineInv' /\ ~Answered(t)'
    BY <1>5, <2>1 DEF NoCall, NewCall, Awaiting, Receiving
  <2>4. Result(t)' = [req |-> "none", ok |-> FALSE]
    BY <2>1 DEF Result, NoReturn
  <2>5. QED  BY <1>2, <1>3, <1>4, <2>2, <2>3, <2>4, ServiceReturnAtOnce
             DEF Served, ServiceStepped
<1>8. CASE StartAuthorize(t)
  BY <1>6, <1>7, <1>8, ConstantsTyped DEF StartAuthorize, StartIfConnected
<1>9. CASE StartConnectionAlive(t)
  <2>1. AliveRequest # "auth2"
    BY DEF AliveRequest
  <2>2. QED  BY <1>6, <1>7, <1>9, <2>1, ConstantsTyped
             DEF StartConnectionAlive, StartIfConnected
<1>10. CASE StartCall(t)
  <2>1. PICK req \in Calls[t] \cap (Queries \cup Commands) : Begin(t, req, req)
    BY <1>10 DEF StartCall
  <2>2. req \in Requests /\ req # "auth2"
    BY ConstantsAssumption DEF Requests
  <2>3. QED  BY <1>6, <2>1, <2>2
<1>11. QED  BY <1>8, <1>9, <1>10

\* The request of authorize's second phase begins with its own Build.
LEMMA ServiceCompose ==
  ASSUME ServiceInv, NEW t \in Threads, Threads = {t}, Build(t) \/ Compose(t)
  PROVE  Served
<1> USE DEF ServiceInv, Base, SocketAndBuffers
<1>1. /\ UNCHANGED <<requests, replies, call, ret, timedOut, mInput, local>>
      /\ pc[t] \in {"build", "compose"} /\ pc'[t] \in {"compose", "send"}
  BY DEF Build, Compose, Running, Goto, TypeOK, socketVars, historyVars
<1>2. /\ ~Answered(t) /\ call[t].bytes = <<>>
      /\ \A c \in Conns : ~Mine(requests[c], t) /\ ~Mine(replies[c], t)
  BY <1>1, MineBefore DEF MineInv, Awaiting, Receiving
<1>3. LateOpen' /\ (Late' <=> Late)
  BY <1>1, LateKept DEF MineInv
<1>4. MineInv' /\ ~Answered(t)'
  BY <1>1, <1>2, <1>3, MineQuiet DEF MineInv, Awaiting, Receiving
<1>5. Result(t)' = Result(t)
  BY <1>1 DEF Result
<1>6. CASE pc[t] = "build" /\ call[t].req = "auth2"
  <2>1. ret[t] = NoReturn
    BY <1>6, AuthParts
  <2>2. Pending(t) = None /\ Pending(t)' = "auth2" /\ Result(t)' = NoResult
    BY <1>1, <1>5, <1>6, <2>1 DEF Pending, InProgress, Exchanging, Result, NoReturn, NoResult
  <2>3. QED  BY <1>2, <1>3, <1>4, <2>2, ServiceInvoke, ConstantsTyped
             DEF Served, ServiceStepped
<1>7. CASE ~(pc[t] = "build" /\ call[t].req = "auth2")
  <2>1. Pending(t)' = Pending(t)
    BY <1>1, <1>7 DEF Pending, InProgress, Exchanging
  <2>2. QED  BY <1>2, <1>3, <1>4, <1>5, <2>1, ServiceStutters DEF Served, ServiceStepped
<1>8. QED  BY <1>6, <1>7

\* A method that ends an exchange, or its first phase.
LEMMA ServiceAbandoned ==
  ASSUME ServiceInv, NEW t \in Threads, Threads = {t},
         requests' = Abandoned(t, requests), replies' = Abandoned(t, replies),
         pc'[t] \notin Awaiting, call'[t].bytes = <<>>
  PROVE  MineOf(t)' /\ ~Answered(t)'
<1>1. \A c \in Conns : ~Mine(requests'[c], t) /\ ~Mine(replies'[c], t)
  BY MineAbandoned DEF ServiceInv, Base, SocketAndBuffers, TypeOK
<1>2. QED  BY <1>1, MineQuiet

\* catch (IOException e), without a timeout.
LEMMA ServiceIOException ==
  ASSUME ServiceInv, NEW t \in Threads, Threads = {t}, InProgress(t), IOException(t),
         UNCHANGED <<timedOut, mInput, local>>
  PROVE  Served
<1> USE DEF ServiceInv, Base, SocketAndBuffers
<1>1. pc'[t] = "idle" /\ ret'[t] = NoReturn /\ call'[t] = NoCall
  BY DEF IOException, Return, Goto, TypeOK
<1>2. MineOf(t)' /\ ~Answered(t)'
  BY <1>1, ServiceAbandoned DEF IOException, Awaiting, Receiving, NoCall, NewCall
<1>3. LateOpen' /\ (Late' <=> Late)
  BY LateKept DEF MineInv
<1>4. Pending(t) # None /\ Pending(t)' = None
  BY <1>1, PendingRequest DEF Pending, InProgress, Exchanging
<1>5. Result(t)' = NoResult
  BY <1>1 DEF Result, NoResult, NoReturn
<1>6. QED  BY <1>2, <1>3, <1>4, <1>5, ServiceReturn DEF Served, ServiceStepped, MineInv

\* A step within an exchange.
LEMMA ServiceWithin ==
  ASSUME ServiceInv, NEW t \in Threads, Threads = {t},
         UNCHANGED <<timedOut, mInput, local, ret>>,
         pc[t] \in Awaiting \cup {"send"}, pc'[t] \in Awaiting, call'[t].req = call[t].req,
         Answered(t)' <=> Answered(t), MineOf(t)'
  PROVE  Served
<1>1. LateOpen' /\ (Late' <=> Late)
  BY LateKept DEF ServiceInv, MineInv
<1>2. Pending(t)' = Pending(t) /\ Result(t)' = Result(t)
  BY DEF Pending, InProgress, Exchanging, Awaiting, Receiving, Result
<1>3. QED  BY <1>1, <1>2, ServiceStutters DEF Served, ServiceStepped, MineInv

LEMMA ServiceSend ==
  ASSUME ServiceInv, NEW t \in Threads, Threads = {t}, SendRequest(t)
  PROVE  Served
<1> USE DEF ServiceInv, Base, SocketAndBuffers
<1>1. pc[t] = "send" /\ InProgress(t) /\ UNCHANGED <<timedOut, mInput, local>>
  BY DEF SendRequest, Running, InProgress, Exchanging, socketVars, historyVars
<1>2. CASE IOException(t)
  BY <1>1, <1>2, ServiceIOException
<1>3. CASE ~IOException(t)
  <2>1. pc'[t] = "receive" /\ UNCHANGED <<replies, call, ret>>
    BY <1>3 DEF SendRequest, Goto, TypeOK
  <2>2. /\ ~Answered(t) /\ ~Asked(t) /\ call[t].bytes = <<>>
        /\ \A c \in Conns : ~Mine(requests[c], t) /\ ~Mine(replies[c], t)
    BY <1>1, MineBefore DEF MineInv, Awaiting, Receiving
  <2>3. ~Answered(t)'
    BY <2>1, <2>2, AnsweredIsNext, MineNothing DEF Receiving
  <2>4. \A c \in Conns : \A i, j \in DOMAIN requests'[c] :
          requests'[c][i].by = t /\ requests'[c][j].by = t => i = j
    <3>1. CASE UNCHANGED requests
      BY <2>2, <3>1 DEF Mine
    <3>2. CASE ~UNCHANGED requests
      <4>1. PICK m : /\ requests' = [requests EXCEPT ![mOutput] = Append(@, m)]
                     /\ mOutput # None
        BY <1>3, <3>2 DEF SendRequest
      <4>2. mOutput \in Conns
        BY <4>1 DEF TypeOK
      <4>3. \A c \in Conns : c # mOutput => requests'[c] = requests[c]
        BY <4>1 DEF TypeOK
      <4> DEFINE q == requests[mOutput]
      <4>4. q \in Seq(Message) /\ requests'[mOutput] = Append(q, m)
        BY <4>1, <4>2 DEF TypeOK
      <4>5. ~Mine(q, t)
        BY <2>2, <4>2
      <4> HIDE DEF q
      <4>6. /\ DOMAIN Append(q, m) = 1 .. Len(q) + 1 /\ DOMAIN q = 1 .. Len(q)
            /\ \A i \in 1 .. Len(q) : Append(q, m)[i] = q[i]
            /\ Len(q) \in Nat
        BY <4>4
      <4>7. \A i \in DOMAIN Append(q, m) : Append(q, m)[i].by = t => i = Len(q) + 1
        BY <4>5, <4>6 DEF Mine
      <4>8. QED  BY <2>2, <4>3, <4>4, <4>7 DEF Mine
    <3>3. QED  BY <3>1, <3>2
  <2>5. MineOf(t)'
    BY <2>1, <2>2, <2>3, <2>4 DEF MineOf, Awaiting
  <2>6. QED  BY <1>1, <2>1, <2>2, <2>3, <2>5, ServiceWithin DEF Awaiting
<1>4. QED  BY <1>2, <1>3

LEMMA ServiceStartReceive ==
  ASSUME ServiceInv, NEW t \in Threads, Threads = {t}, StartReceive(t)
  PROVE  Served
<1> USE DEF ServiceInv, Base, SocketAndBuffers
<1>1. /\ pc[t] = "receive" /\ pc'[t] = "read" /\ mResult' = <<>>
      /\ UNCHANGED <<requests, replies, timedOut, mInput, local, ret>>
      /\ call'[t].req = call[t].req /\ call'[t].bytes = <<>>
  BY DEF StartReceive, Running, Goto, Reading, TypeOK, socketVars, historyVars
<1>2. MineOf(t) /\ call[t].bytes = <<>>
  BY <1>1 DEF MineInv, MineOf
<1>3. Answered(t)' <=> Answered(t)
  BY <1>1, <1>2, AnsweredIs, AnsweredIsNext, MineNothing DEF Receiving
<1>4. MineOf(t)'
  BY <1>1, <1>2, <1>3, MineKept DEF Awaiting, Receiving
<1>5. QED  BY <1>1, <1>3, <1>4, ServiceWithin DEF Awaiting, Receiving

LEMMA ServiceReadReply ==
  ASSUME ServiceInv, NEW t \in Threads, Threads = {t}, ReadReply(t)
  PROVE  Served
<1> USE DEF ServiceInv, Base, SocketAndBuffers
<1> DEFINE c == call[t].stream
           q == replies[c]
<1>1. /\ pc[t] = "read" /\ pc'[t] = "append" /\ c \in Conns
      /\ UNCHANGED <<requests, mResult, timedOut, mInput, local, ret>>
  BY DEF ReadReply, Readable, Running, Goto, TypeOK, CallRecord, socketVars, historyVars
<1>2. PICK n \in 1 .. Len(q) :
        /\ call' = [call EXCEPT ![t] = Reading(t, c, SubSeq(q, 1, n))]
        /\ replies' = [replies EXCEPT ![c] = SubSeq(q, n + 1, Len(q))]
  BY DEF ReadReply
<1>3. /\ call'[t].req = call[t].req /\ call'[t].bytes = SubSeq(q, 1, n)
      /\ replies'[c] = SubSeq(q, n + 1, Len(q)) /\ q \in Seq(Message)
      /\ \A d \in Conns : d # c => replies'[d] = replies[d]
  BY <1>1, <1>2 DEF Reading, TypeOK
<1>4. MineOf(t) /\ call[t].bytes = <<>> /\ mResult = <<>>
  BY <1>1 DEF MineInv, MineOf, BufferInv
<1>5. Mine(q, t) <=> (Mine(call'[t].bytes, t) \/ Mine(replies'[c], t))
  <2>1. Mine(q, t) <=> (Mine(SubSeq(q, 1, n), t) \/ Mine(SubSeq(q, n + 1, Len(q)), t))
    <3> HIDE DEF q
    <3>1. QED  BY <1>3, MineSplit
  <2>2. QED  BY <1>3, <2>1
<1>6. Answered(t) <=> \E d \in Conns : Mine(replies[d], t)
  BY <1>4, AnsweredIs, MineNothing
<1>7. Answered(t)' <=> (Mine(call'[t].bytes, t) \/ \E d \in Conns : Mine(replies'[d], t))
  BY <1>1, <1>4, AnsweredIsNext, MineNothing
<1>8. Answered(t)' <=> Answered(t)
  <2> HIDE DEF c, q
  <2>1. q = replies[c]
    BY DEF q
  <2>2. QED  BY <1>1, <1>3, <1>5, <1>6, <1>7, <2>1
<1>9. MineOf(t)'
  BY <1>1, <1>4, <1>8, MineKept DEF Awaiting, Receiving
<1>10. QED  BY <1>1, <1>3, <1>8, <1>9, ServiceWithin DEF Awaiting, Receiving

LEMMA ServiceCollect ==
  ASSUME ServiceInv, NEW t \in Threads, Threads = {t}, SocketInv',
         AppendReply(t) \/ TrimReply(t) \/ ReadEnd(t)
  PROVE  Served
<1> USE DEF ServiceInv, Base, SocketAndBuffers
<1>1. ~RuntimeException /\ MineOf(t) /\ End.by # t
  BY ConstantsAssumption DEF SocketInv, RuntimeException, MineInv, End
<1>2. UNCHANGED <<requests, replies, timedOut, mInput, local, ret>>
  BY <1>1 DEF AppendReply, TrimReply, ReadEnd, socketVars, historyVars
<1>3. ASSUME pc[t] \in Receiving, pc'[t] \in Receiving, pc'[t] # "append",
             call'[t].req = call[t].req, call'[t].bytes = <<>>,
             Mine(mResult', t) <=> (Mine(mResult, t) \/ Mine(call[t].bytes, t))
      PROVE  Served
  <2>1. Answered(t)' <=> Answered(t)
    BY <1>2, <1>3, AnsweredIs, AnsweredIsNext, MineNothing
  <2>2. MineOf(t)'
    BY <1>1, <1>2, <1>3, <2>1, MineKept DEF Awaiting
  <2>3. QED  BY <1>2, <1>3, <2>1, <2>2, ServiceWithin DEF Awaiting
<1>4. CASE AppendReply(t)
  <2>1. /\ pc[t] = "append" /\ mReadBuffer = call[t].bytes /\ mReadBuffer \in Seq(Message)
        /\ mReadBuffer # <<>> /\ mResult = <<>>
    BY <1>4 DEF AppendReply, Running, BufferInv
  <2>2. mReadBuffer # <<Broken>>
    <3>1. mReadBuffer[1] \in Message
      BY <2>1, EmptySeq
    <3>2. QED  BY <3>1, TextsTyped
  <2>3. /\ mResult' = mResult \o Append(mReadBuffer, End) /\ pc'[t] = "trim"
        /\ call'[t] = Reading(t, call[t].stream, <<>>)
    BY <1>4, <2>1, <2>2 DEF AppendReply, Goto, TypeOK
  <2>4. mResult' = Append(mReadBuffer, End)
    <3>1. Append(mReadBuffer, End) \in Seq(Message \cup {End})
      BY <2>1
    <3>2. <<>> \o Append(mReadBuffer, End) = Append(mReadBuffer, End)
      BY <3>1
    <3>3. QED  BY <2>1, <2>3, <3>2
  <2>5. Mine(mResult', t) <=> Mine(call[t].bytes, t)
    <3>1. mReadBuffer \in Seq(Message \cup {End})
      BY <2>1
    <3>2. Mine(Append(mReadBuffer, End), t) <=> (Mine(mReadBuffer, t) \/ End.by = t)
      BY <3>1, MineAppended
    <3>3. QED  BY <1>1, <2>1, <2>4, <3>2
  <2>6. ~Mine(mResult, t)
    BY <2>1, MineNothing
  <2>7. QED  BY <1>3, <2>1, <2>3, <2>5, <2>6 DEF Reading, Receiving
<1>5. CASE TrimReply(t)
  <2>1. pc[t] = "trim" /\ mResult # <<>> /\ mResult[Len(mResult)] = End
    BY <1>5 DEF TrimReply, Running, BufferInv
  <2>2. /\ mResult' = SubSeq(mResult, 1, Len(mResult) - 1) /\ pc'[t] = "result"
        /\ UNCHANGED call
    BY <1>1, <1>5, <2>1 DEF TrimReply, Goto, TypeOK
  <2>3. Mine(mResult, t) <=> (Mine(mResult', t) \/ End.by = t)
    <3>1. mResult \in Seq(Message \cup {End, Broken})
      BY DEF TypeOK, Text
    <3>2. QED  BY <2>1, <2>2, <3>1, MineFront
  <2>4. call[t].bytes = <<>>
    BY <1>1, <2>1 DEF MineOf
  <2>5. QED  BY <1>1, <1>3, <2>1, <2>2, <2>3, <2>4, MineNothing DEF Receiving
<1>6. CASE ReadEnd(t)
  <2>1. pc[t] = "read" /\ pc'[t] = "result" /\ UNCHANGED <<mResult, call>>
    BY <1>6 DEF ReadEnd, Running, Goto, TypeOK, bufferVars
  <2>2. call[t].bytes = <<>>
    BY <1>1, <2>1 DEF MineOf
  <2>3. QED  BY <1>3, <2>1, <2>2, MineNothing DEF Receiving
<1>7. QED  BY <1>4, <1>5, <1>6

\* A read that times out has found nothing: from now on its answer is late.
LEMMA ServiceReadEnds ==
  ASSUME ServiceInv, NEW t \in Threads, Threads = {t}, ReadFails(t) \/ ReadTimeout(t)
  PROVE  Served
<1> USE DEF ServiceInv, Base, SocketAndBuffers
<1>1. pc[t] = "read" /\ InProgress(t) /\ IOException(t) /\ UNCHANGED <<mInput, local>>
  BY DEF ReadFails, ReadTimeout, Running, InProgress, Exchanging, socketVars
<1>2. CASE ReadFails(t)
  BY <1>1, <1>2, ServiceIOException DEF ReadFails, historyVars
<1>3. CASE ReadTimeout(t)
  <2> DEFINE c == call[t].stream
  <2>1. /\ c \in Conns /\ peer[c] /\ replies[c] = <<>>
        /\ timedOut' = [timedOut EXCEPT ![c] = TRUE]
    BY <1>3 DEF ReadTimeout, Readable, TypeOK, CallRecord
  <2> HIDE DEF c
  <2>2. c = mInput /\ c = mOutput /\ Elsewhere
    BY <1>1, QuietParts DEF Locals, Receiving, c
  <2>3. /\ pc'[t] = "idle" /\ ret'[t] = NoReturn /\ call'[t] = NoCall
        /\ requests' = Abandoned(t, requests) /\ replies' = Abandoned(t, replies)
    BY <1>1 DEF IOException, Return, Goto, TypeOK
  <2>4. MineOf(t)' /\ ~Answered(t)'
    BY <2>3, ServiceAbandoned DEF Awaiting, Receiving, NoCall, NewCall
  <2>5. LateOpen' /\ Late'
    <3>1. c # None
      BY <2>1, ConstantsAssumption
    <3>2. Late'
      BY <1>1, <2>1, <2>2, <3>1 DEF Late, TypeOK
    <3>3. local[c] = "open"
      BY <2>1 DEF SocketInv
    <3>4. LateOpen'
      BY <1>1, <2>1, <2>2, <3>3 DEF LateOpen, MineInv, TypeOK
    <3>5. QED  BY <3>2, <3>4
  <2>6. ~Answered(t)
    <3>1. \A d \in Conns : replies[d] = <<>>
      BY <2>1, <2>2 DEF Elsewhere, Nothing
    <3>2. mResult = <<>> /\ call[t].bytes = <<>>
      BY <1>1 DEF BufferInv, MineInv, MineOf
    <3>3. QED  BY <3>1, <3>2, AnsweredIs, MineNothing
  <2>7. Pending(t) # None /\ Pending(t)' = None
    BY <1>1, <2>3, PendingRequest DEF Pending, InProgress, Exchanging
  <2>8. Result(t)' = NoResult
    BY <2>3 DEF Result, NoResult, NoReturn
  <2>9. QED  BY <2>4, <2>5, <2>6, <2>7, <2>8, ServiceTimeOut
             DEF Served, ServiceStepped, MineInv
<1>4. QED  BY <1>2, <1>3

\* What the method has received: its own answer, a late one, or nothing.
LEMMA ReceivedText ==
  ASSUME ServiceInv, NEW t \in Threads, Threads = {t}, pc[t] = "result", mResult # <<>>
  PROVE  Answered(t) \/ Late
<1> SUFFICES ASSUME ~Late PROVE Answered(t)
  OBVIOUS
<1>1. PICK m \in Message : mResult = <<m>> /\ Answer(t, m)
  BY ResultText DEF ServiceInv
<1>2. 1 \in DOMAIN mResult /\ mResult[1].by = t
  BY <1>1, Singleton DEF Answer
<1>3. QED  BY <1>2, AnsweredIs DEF Mine, Receiving

LEMMA ServiceReturnReply ==
  ASSUME ServiceInv, NEW t \in Threads, Threads = {t}, ReturnReply(t)
  PROVE  Served
<1> USE DEF ServiceInv, Base, SocketAndBuffers
<1>1. /\ pc[t] = "result" /\ InProgress(t) /\ Parse(t, mResult)
      /\ requests' = Abandoned(t, requests) /\ replies' = Abandoned(t, replies)
      /\ UNCHANGED <<timedOut, mInput, local>>
  BY DEF ReturnReply, Running, InProgress, Exchanging, socketVars, historyVars
<1>2. LateOpen' /\ (Late' <=> Late)
  BY <1>1, LateKept DEF MineInv
<1>3. Pending(t) = call[t].req /\ Pending(t) # None
  BY <1>1, PendingRequest
<1>4. ASSUME pc'[t] \in {"idle", "build"}, call'[t].bytes = <<>>
      PROVE  MineInv' /\ ~Answered(t)'
  BY <1>1, <1>2, <1>4, ServiceAbandoned DEF MineInv, Awaiting, Receiving
<1>5. CASE /\ call[t].req = "auth1" /\ WellFormed(mResult)
           /\ pc'[t] = "build" /\ ret'[t] = ret[t]
           /\ call'[t].op = "authorize" /\ call'[t].req = "auth2" /\ call'[t].bytes = <<>>
  <2>1. mResult # <<>>
    <3>1. Len(mResult) = 1
      BY <1>5, Zenon DEF WellFormed
    <3>2. QED  BY ONLY <3>1
  <2>2. Answered(t) \/ Late
    BY <1>1, <2>1, ReceivedText
  <2>3. Pending(t)' = None /\ Result(t)' = Result(t)
    BY <1>5 DEF Pending, InProgress, Result
  <2>4. QED  BY <1>2, <1>3, <1>4, <1>5, <2>2, <2>3, ServiceProceed DEF Served, ServiceStepped
<1>6. ASSUME pc'[t] = "idle", call'[t] = NoCall
      PROVE  MineInv' /\ ~Answered(t)' /\ Pending(t)' = None
  BY <1>4, <1>6 DEF NoCall, NewCall, Pending, InProgress, Exchanging
<1>7. CASE pc'[t] = "idle" /\ ret'[t] = NoReturn /\ call'[t] = NoCall
  <2>1. Result(t)' = NoResult
    BY <1>7 DEF Result, NoResult, NoReturn
  <2>2. QED  BY <1>2, <1>3, <1>6, <1>7, <2>1, ServiceReturn DEF Served, ServiceStepped
<1>8. CASE /\ pc'[t] = "idle" /\ call'[t] = NoCall
           /\ call[t].req # "auth1" /\ Accepts(t, mResult)
           /\ ret'[t] = [op |-> call[t].op, req |-> call[t].req, ok |-> TRUE,
                         from |-> mResult]
  <2>1. Result(t)' = [req |-> Pending(t), ok |-> TRUE]
    BY <1>3, <1>8 DEF Result
  <2>2. Answered(t) \/ call[t].req \in Unread \/ Late
    <3>1. CASE mResult # <<>>
      BY <1>1, <3>1, ReceivedText
    <3>2. CASE mResult = <<>>
      <4>1. call[t].op \in Unread
        BY <1>8, <3>2 DEF Accepts, WellFormed
      <4>2. Own(t) /\ pc[t] \in Exchanging
        BY <1>1, QuietParts DEF Exchanging
      <4>3. QED  BY <4>1, <4>2, ConstantsAssumption DEF Own
    <3>3. QED  BY <3>1, <3>2
  <2>3. QED  BY <1>2, <1>3, <1>6, <1>8, <2>1, <2>2, ServiceReturn DEF Served, ServiceStepped
<1>9. QED  BY <1>1, <1>5, <1>7, <1>8, ParseOutcome

\* The core client answers the request in progress, once.
LEMMA ServiceCore ==
  ASSUME ServiceInv, NEW t \in Threads, Threads = {t},
         CoreExits \/ CoreStarts \/ \E c \in Conns : CoreAnswers(c)
  PROVE  Served
<1> USE DEF ServiceInv, Base, SocketAndBuffers
<1>1. UNCHANGED <<timedOut, mInput, local, mResult, pc, call, ret>>
  BY DEF CoreExits, CoreStarts, CoreAnswers, socketVars, bufferVars, historyVars
<1>2. LateOpen' /\ (Late' <=> Late)
  BY <1>1, LateKept DEF MineInv
<1>3. Pending(t)' = Pending(t) /\ Result(t)' = Result(t) /\ MineOf(t)
  BY <1>1 DEF Pending, InProgress, Result, MineInv
<1>4. CASE CoreExits \/ CoreStarts
  <2>1. UNCHANGED replies
    BY <1>4 DEF CoreExits, CoreStarts
  <2>2. Answered(t)' <=> Answered(t)
    BY <1>1, <2>1, AnsweredIs, AnsweredIsNext
  <2>3. \A c \in Conns : requests'[c] = requests[c] \/ requests'[c] = <<>>
    BY <1>4 DEF CoreExits, CoreStarts
  <2>4. Asked(t)' => Asked(t)
    BY <2>3, MineNothing DEF Asked, Mine
  <2>5. MineOf(t)'
    BY <1>1, <1>3, <2>2, <2>3, <2>4 DEF MineOf
  <2>6. QED  BY <1>2, <1>3, <2>2, <2>5, ServiceStutters DEF Served, ServiceStepped, MineInv
<1>5. ASSUME NEW c \in Conns, CoreAnswers(c)
      PROVE  Served
  <2> DEFINE q == requests[c]
             m == Head(q)
  <2>1. q # <<>> /\ q \in Seq(Message) /\ replies[c] \in Seq(Message)
    BY <1>5 DEF CoreAnswers, TypeOK
  <2>2. PICK ok \in BOOLEAN :
          /\ replies' = [replies EXCEPT ![c] =
               Append(@, [req |-> m.req, by |-> m.by, ok |-> ok])]
          /\ requests' = [requests EXCEPT ![c] = Tail(@)]
    BY <1>5 DEF CoreAnswers
  <2> DEFINE r == [req |-> m.req, by |-> m.by, ok |-> ok]
  <2>3. /\ replies'[c] = Append(replies[c], r) /\ requests'[c] = Tail(q)
        /\ \A d \in Conns : d # c => requests'[d] = requests[d] /\ replies'[d] = replies[d]
    BY <2>2 DEF TypeOK
  <2>4. r \in Message /\ (r.by = t <=> m.by = t)
    <3>1. m \in Message
      BY <2>1, HeadTailProperties
    <3>2. QED  BY <3>1 DEF Message
  <2> HIDE DEF r, q
  <2>5. /\ Mine(q, t) <=> (Head(q).by = t \/ Mine(Tail(q), t))
        /\ DOMAIN Tail(q) = 1 .. Len(q) - 1 /\ Len(q) \in Nat \ {0}
        /\ DOMAIN q = 1 .. Len(q) /\ Head(q) = q[1]
        /\ \A i \in 1 .. Len(q) - 1 : Tail(q)[i] = q[i + 1]
    BY <2>1, MineHeadTail
  <2>6. Mine(replies'[c], t) <=> (Mine(replies[c], t) \/ m.by = t)
    <3>1. Mine(Append(replies[c], r), t) <=> (Mine(replies[c], t) \/ r.by = t)
      BY <2>1, <2>4, MineAppended
    <3>2. QED  BY <2>3, <2>4, <3>1
  <2>7. Answered(t)' <=> (Answered(t) \/ m.by = t)
    <3>1. (\E d \in Conns : Mine(replies'[d], t))
            <=> ((\E d \in Conns : Mine(replies[d], t)) \/ m.by = t)
      BY <2>3, <2>6
    <3>2. QED  BY <1>1, <3>1, AnsweredIs, AnsweredIsNext
  <2>8. \A d \in Conns : \A i, j \in DOMAIN requests'[d] :
          requests'[d][i].by = t /\ requests'[d][j].by = t => i = j
    <3>1. \A i, j \in DOMAIN q : q[i].by = t /\ q[j].by = t => i = j
      BY <1>3 DEF MineOf, q
    <3>2. ASSUME NEW i \in DOMAIN Tail(q), NEW j \in DOMAIN Tail(q),
                 Tail(q)[i].by = t, Tail(q)[j].by = t
          PROVE  i = j
      <4>1. i + 1 \in DOMAIN q /\ j + 1 \in DOMAIN q /\ i \in Nat /\ j \in Nat
        BY <2>5, <3>2
      <4>2. q[i + 1].by = t /\ q[j + 1].by = t
        BY <2>5, <3>2
      <4>3. i + 1 = j + 1
        BY <3>1, <4>1, <4>2
      <4>4. QED  BY <4>1, <4>3
    <3>3. QED  BY <1>3, <2>3, <3>2 DEF MineOf
  <2>9. Asked(t)' => Asked(t) /\ m.by # t
    <3>1. ASSUME NEW d \in Conns, Mine(requests'[d], t), m.by = t PROVE FALSE
      <4>1. c = mOutput /\ \A e \in Conns : e # c => requests[e] = <<>>
        <5>1. Elsewhere
          BY QuietParts
        <5>2. QED  BY <2>1, <5>1 DEF Elsewhere, Nothing, q
      <4>2. d = c
        BY <2>3, <3>1, <4>1, MineNothing
      <4>3. PICK i \in 1 .. Len(q) - 1 : q[i + 1].by = t
        <5>1. Mine(Tail(q), t)
          BY <2>3, <3>1, <4>2
        <5>2. PICK i \in DOMAIN Tail(q) : Tail(q)[i].by = t
          BY <5>1 DEF Mine
        <5>3. QED  BY <2>5, <5>2
      <4>4. i + 1 \in DOMAIN q /\ 1 \in DOMAIN q /\ i + 1 # 1
        BY <2>5
      <4>5. q[1].by = t
        BY <2>5, <3>1
      <4>6. QED  BY <1>3, <4>3, <4>4, <4>5 DEF MineOf, q
    <3>2. ASSUME NEW d \in Conns, Mine(requests'[d], t) PROVE Mine(requests[d], t)
      BY <2>3, <2>5, <3>2 DEF q
    <3>3. Asked(t)' => \E d \in Conns : Mine(requests'[d], t)
      BY DEF Asked, Mine
    <3>4. QED  BY <3>1, <3>2, <3>3 DEF Asked
  <2>10. m.by = t => Asked(t)
    BY <2>5 DEF Asked, q
  <2>11. MineOf(t)'
    BY <1>1, <1>3, <2>7, <2>8, <2>9, <2>10 DEF MineOf
  <2>12. CASE m.by # t
    BY <1>2, <1>3, <2>7, <2>11, <2>12, ServiceStutters DEF Served, ServiceStepped, MineInv
  <2>13. CASE m.by = t
    <3>1. ~Answered(t) /\ pc[t] \in Awaiting
      BY <1>3, <2>10, <2>13 DEF MineOf
    <3>2. Pending(t) # None
      BY <3>1, PendingRequest DEF InProgress, Exchanging, Awaiting, Receiving
    <3>3. QED  BY <1>2, <1>3, <2>7, <2>11, <2>13, <3>1, <3>2, ServiceAnswer
               DEF Served, ServiceStepped, MineInv
  <2>14. QED  BY <2>12, <2>13
<1>6. QED  BY <1>4, <1>5

LEMMA ServiceStep ==
  ASSUME ServiceInv, OneThread, [Next]_vars, TypeOK', SocketInv'
  PROVE  MineInv' /\ [Service!Next]_(Service!vars)
<1>1. PICK t \in Threads : Threads = {t}
  BY TheThread
<1>2. CASE UNCHANGED vars
  <2>1. /\ Pending(t)' = Pending(t) /\ Result(t)' = Result(t)
        /\ (Answered(t)' <=> Answered(t)) /\ (Late' <=> Late)
    BY <1>2 DEF vars, Pending, InProgress, Result, Answered, Late
  <2>2. MineInv'
    BY <1>2 DEF ServiceInv, MineInv, MineOf, LateOpen, Asked, Answered, Mine, vars
  <2>3. QED  BY <1>1, <2>1, <2>2, ServiceStutters
<1>3. CASE Next
  <2>1. Served
    BY <1>1, <1>3, ServiceOpen, ServiceCall, ServiceCompose, ServiceSend,
       ServiceStartReceive, ServiceReadReply, ServiceCollect, ServiceReadEnds,
       ServiceReturnReply, ServiceCore DEF Next, MethodStep
  <2>2. QED  BY <2>1 DEF Served, ServiceStepped, Service!Next
<1>4. QED  BY <1>2, <1>3

LEMMA ServiceInit ==
  ASSUME Init, OneThread
  PROVE  Service!Init /\ MineInv
<1>1. PICK t \in Threads : Threads = {t}
  BY TheThread
<1>2. /\ pc[t] = "idle" /\ ret[t] = NoReturn /\ call[t] = NoCall
      /\ \A c \in Conns : requests[c] = <<>> /\ replies[c] = <<>> /\ ~timedOut[c]
      /\ mInput = None
  BY DEF Init, Unused
<1>3. MineInv
  <2>1. ~Asked(t)
    BY <1>2, MineNothing DEF Asked
  <2>2. ~Answered(t)
    BY <1>2, MineNothing, AnsweredIs DEF NoCall, NewCall, Receiving
  <2>3. QED  BY <1>1, <1>2, <2>1, <2>2
             DEF MineInv, MineOf, LateOpen, NoCall, NewCall
<1>4. Answered(t) = FALSE /\ Late = FALSE
  <2>1. ~Answered(t) /\ ~Late
    BY <1>2, <1>3 DEF MineInv, MineOf, Awaiting, Receiving, Late
  <2>2. QED  BY <2>1, Zenon DEF Answered, Late
<1>5. Pending(t) = None /\ ret[t].req = "none" /\ ret[t].ok = FALSE
  BY <1>2 DEF Pending, InProgress, Exchanging, NoReturn
<1>6. QED  BY <1>1, <1>3, <1>4, <1>5 DEF Service!Init, Service!NoResult, Pending

\* For one task at a time, RpcClient is a service that answers the request of
\* each call at most once, while the call is in progress, and lets it succeed
\* only on that answer, or, from a timeout to the end of the connection, on one
\* that came too late: what the callers of the Manager's serial tasks may take
\* an RPC for.
THEOREM ImplementsRpcService ==
  ASSUME OneThread
  PROVE  Spec => ImplementsService
<1>1. Init => Service!Init /\ ServiceInv
  BY ServiceInit, BaseKept DEF ServiceInv
<1>2. ASSUME ServiceInv, [Next]_vars PROVE ServiceInv' /\ [Service!Next]_(Service!vars)
  <2>1. Base' /\ SerialInv'
    BY <1>2, BaseKept DEF ServiceInv
  <2>2. TypeOK' /\ SocketInv'
    BY <2>1 DEF Base, SocketAndBuffers
  <2>3. QED  BY <1>2, <2>1, <2>2, ServiceStep DEF ServiceInv
<1>3. QED  BY <1>1, <1>2, PTL DEF Spec, ImplementsService, Service!Spec
===============================================================================
