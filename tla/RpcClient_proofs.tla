--------------------------- MODULE RpcClient_proofs ---------------------------
(* Theorems about RpcClient, for every number of threads and connections. *)
EXTENDS RpcClient, SequenceTheorems, TLAPS

(***************************************************************************)
(* Type correctness                                                        *)
(***************************************************************************)

\* Relabelling what a call leaves behind keeps a family of queues of messages
\* one, and keeps the length and all but the owners.
LEMMA AbandonedTyped ==
  ASSUME NEW t \in Threads, NEW q \in [Conns -> Seq(Message)]
  PROVE  /\ Abandoned(t, q) \in [Conns -> Seq(Message)]
         /\ \A c \in Conns : /\ Len(Abandoned(t, q)[c]) = Len(q[c])
                             /\ \A i \in 1 .. Len(q[c]) :
                                  /\ Abandoned(t, q)[c][i].req = q[c][i].req
                                  /\ Abandoned(t, q)[c][i].ok = q[c][i].ok
<1>1. ASSUME NEW c \in Conns
      PROVE  /\ Abandoned(t, q)[c] \in Seq(Message)
             /\ Len(Abandoned(t, q)[c]) = Len(q[c])
             /\ \A i \in 1 .. Len(q[c]) :
                  /\ Abandoned(t, q)[c][i].req = q[c][i].req
                  /\ Abandoned(t, q)[c][i].ok = q[c][i].ok
  <2> DEFINE s == q[c]
             e(i) == IF s[i].by = t
                       THEN [req |-> s[i].req, by |-> None, ok |-> s[i].ok]
                       ELSE s[i]
  <2>1. s \in Seq(Message) /\ DOMAIN s = 1 .. Len(s) /\ Len(s) \in Nat
    OBVIOUS
  <2>2. Abandoned(t, q)[c] = [i \in 1 .. Len(s) |-> e(i)]
    BY <2>1 DEF Abandoned
  <2>3. \A i \in 1 .. Len(s) : e(i) \in Message /\ e(i).req = s[i].req
                                 /\ e(i).ok = s[i].ok
    <3> SUFFICES ASSUME NEW i \in 1 .. Len(s)
                 PROVE  e(i) \in Message /\ e(i).req = s[i].req /\ e(i).ok = s[i].ok
      OBVIOUS
    <3>1. s[i] \in Message  BY <2>1
    <3>4. QED  BY <3>1 DEF Message
  <2>4. QED  BY <2>1, <2>2, <2>3
<1>2. QED  BY <1>1 DEF Abandoned

\* Replies are a text, and the parts of a text that are none are no messages.
LEMMA TextsTyped ==
  /\ \A s \in Seq(Message) : s \in Text
  /\ <<>> \in Seq(Message) /\ <<>> \in Text /\ <<Broken>> \in Text
  /\ \A s \in Text : Append(s, End) \in Text /\ Append(s, Broken) \in Text
  /\ \A s \in Text : \A u \in Text : s \o u \in Text
  /\ End \notin Message /\ Broken \notin Message /\ End # Broken
<1>1. End \notin Message /\ Broken \notin Message /\ End # Broken
  BY ConstantsAssumption
     DEF End, Broken, Message, Requests, AuthRequests, Garbled
<1>2. \A s \in Seq(Message) : s \in Text
  <2> DEFINE Parts == Message \cup {End, Broken}
  <2>1. Message \subseteq Parts  OBVIOUS
  <2> HIDE DEF Parts
  <2>2. \A s \in Seq(Message) : s \in Seq(Parts)
    BY <2>1
  <2>3. QED  BY <2>2 DEF Text, Parts
<1>3. /\ <<>> \in Seq(Message) /\ <<>> \in Text /\ <<Broken>> \in Text
      /\ \A s \in Text : Append(s, End) \in Text /\ Append(s, Broken) \in Text
      /\ \A s \in Text : \A u \in Text : s \o u \in Text
  BY DEF Text
<1>4. QED  BY <1>1, <1>2, <1>3

RequestsTyped ==
  \A t \in Threads : pc[t] \in Exchanging => call[t].req \in Requests

LEMMA ConstantsTyped ==
  /\ AliveRequest \in Requests
  /\ Queries \cup Commands \subseteq Requests \cap Ops
  /\ "auth1" \in Requests /\ "auth2" \in Requests
  /\ \A t \in Threads : Calls[t] \subseteq Ops
BY ConstantsAssumption DEF Requests, Ops, AuthRequests

\* A step of one thread to a label keeps the requests typed if its own is.
LEMMA GotoTyped ==
  ASSUME TypeOK, NEW t \in Threads, NEW label \in PCs, Goto(t, label),
         \A u \in Threads \ {t} : call'[u] = call[u],
         label \in Exchanging => call'[t].req \in Requests
  PROVE  pc' \in [Threads -> PCs] /\ RequestsTyped'
BY DEF TypeOK, Goto, RequestsTyped

\* A return, or an exception, leaves the locals of its thread well typed.
LEMMA ReturnTyped ==
  ASSUME TypeOK, NEW t \in Threads, NEW op \in Ops \cup {"none"},
         NEW req \in Requests \cup {"none"}, NEW ok \in BOOLEAN,
         NEW text \in Text, Return(t, op, req, ok, text)
  PROVE  /\ pc' \in [Threads -> PCs]
         /\ call' \in [Threads -> CallRecord] /\ RequestsTyped'
         /\ ret' \in [Threads -> ReturnRecord]
<1>1. pc' \in [Threads -> PCs]
  BY DEF TypeOK, Return, Goto, PCs, Exchanging
<1>2. NoCall \in CallRecord /\ NoReturn \in ReturnRecord
  BY TextsTyped DEF NoCall, NewCall, CallRecord, NoReturn, ReturnRecord
<1>3. call' \in [Threads -> CallRecord]
  BY <1>2 DEF TypeOK, Return, CallRecord
<1>31. RequestsTyped'
  BY DEF TypeOK, Return, Goto, RequestsTyped, Exchanging
<1>4. [op |-> op, req |-> req, ok |-> TRUE, from |-> text] \in ReturnRecord
  BY DEF ReturnRecord
<1>5. ret' \in [Threads -> ReturnRecord]
  BY <1>2, <1>4 DEF TypeOK, Return
<1>6. QED  BY <1>1, <1>3, <1>31, <1>5

LEMMA IOExceptionTyped ==
  ASSUME TypeOK, NEW t \in Threads, IOException(t)
  PROVE  /\ pc' \in [Threads -> PCs]
         /\ call' \in [Threads -> CallRecord] /\ RequestsTyped'
         /\ ret' \in [Threads -> ReturnRecord]
         /\ requests' \in [Conns -> Seq(Message)]
         /\ replies' \in [Conns -> Seq(Message)]
<1>1. call[t] \in CallRecord /\ <<>> \in Text
  BY TextsTyped DEF TypeOK, CallRecord
<1>2. call[t].op \in Ops \cup {"none"} /\ call[t].req \in Requests \cup {"none"}
  BY <1>1 DEF CallRecord
<1>3. Return(t, call[t].op, call[t].req, FALSE, <<>>)
  BY DEF IOException
<1>4. QED  BY <1>1, <1>2, <1>3, ReturnTyped, AbandonedTyped DEF IOException, TypeOK

LEMMA ParseTyped ==
  ASSUME TypeOK, NEW t \in Threads, NEW text \in Text, Parse(t, text)
  PROVE  /\ pc' \in [Threads -> PCs]
         /\ call' \in [Threads -> CallRecord] /\ RequestsTyped'
         /\ ret' \in [Threads -> ReturnRecord]
<1>1. call[t] \in CallRecord
  BY DEF TypeOK, CallRecord
<1>2. call[t].op \in Ops \cup {"none"} /\ call[t].req \in Requests \cup {"none"}
  BY <1>1 DEF CallRecord
<1>3. CASE call[t].req = "auth1" /\ WellFormed(text)
  <2>1. [op |-> "authorize", req |-> "auth2", stream |-> None, bytes |-> <<>>,
         nonce |-> text[1].req = "auth1" /\ text[1].ok] \in CallRecord
    <3>2. (text[1].req = "auth1" /\ text[1].ok) \in BOOLEAN
      OBVIOUS
    <3>3. QED  BY <3>2, ConstantsTyped, TextsTyped DEF CallRecord, Ops
  <2>2. call' = [call EXCEPT ![t] =
              [op |-> "authorize", req |-> "auth2", stream |-> None, bytes |-> <<>>,
               nonce |-> text[1].req = "auth1" /\ text[1].ok]]
        /\ Goto(t, "build") /\ ret' = ret
    BY <1>3 DEF Parse
  <2>3. QED  BY <2>1, <2>2, ConstantsTyped
             DEF TypeOK, CallRecord, ReturnRecord, Goto, PCs, RequestsTyped
<1>4. CASE ~(call[t].req = "auth1" /\ WellFormed(text))
  <2> DEFINE ok == call[t].req # "auth1" /\ Accepts(t, text)
  <2>1. ok \in BOOLEAN  OBVIOUS
  <2>2. Return(t, call[t].op, call[t].req, ok, text)
    BY <1>4 DEF Parse
  <2>3. QED  BY <1>2, <2>1, <2>2, ReturnTyped
<1>5. QED  BY <1>3, <1>4

LEMMA StartTyped ==
  ASSUME TypeOK, NEW t \in Threads, NEW op \in Ops, NEW req \in Requests \cup {"none"},
         call' = [call EXCEPT ![t] = NewCall(op, req)],
         ret' = [ret EXCEPT ![t] = NoReturn]
  PROVE  call' \in [Threads -> CallRecord] /\ ret' \in [Threads -> ReturnRecord]
<1>1. NewCall(op, req) \in CallRecord
  BY TextsTyped DEF NewCall, CallRecord
<1>2. NoReturn \in ReturnRecord
  BY TextsTyped DEF NoReturn, ReturnRecord
<1>3. QED  BY <1>1, <1>2 DEF TypeOK, CallRecord, ReturnRecord

\* What a process that has not used the RpcClient has is well typed.
LEMMA UnusedTyped ==
  /\ Unused.local \in [Conns -> {"new", "open", "closed"}]
  /\ Unused.flags \in [Conns -> BOOLEAN]
  /\ Unused.queues \in [Conns -> Seq(Message)]
  /\ Unused.pc \in [Threads -> PCs]
  /\ Unused.call \in [Threads -> CallRecord]
  /\ Unused.ret \in [Threads -> ReturnRecord]
  /\ \A t \in Threads : Unused.pc[t] \notin Exchanging
<1>1. NoCall \in CallRecord /\ NoReturn \in ReturnRecord
  BY TextsTyped DEF NoCall, NewCall, NoReturn, CallRecord, ReturnRecord
<1>2. "idle" \in PCs \ Exchanging /\ <<>> \in Seq(Message)
  BY DEF PCs, Exchanging
<1>3. QED  BY <1>1, <1>2 DEF Unused

LEMMA TypeInit == Init => TypeOK
BY UnusedTyped, TextsTyped DEF Init, TypeOK

LEMMA TypeException == TypeOK /\ RuntimeException => TypeOK'
BY UnusedTyped, TextsTyped DEF RuntimeException, TypeOK

LEMMA TypeOpen ==
  ASSUME TypeOK, NEW t \in Threads,
         \/ StartOpen(t) \/ CloseStreams(t) \/ CloseSocket(t) \/ NewSocket(t)
         \/ Connect(t) \/ Streams(t)
  PROVE  TypeOK'
<1> USE DEF coreVars, socketVars, bufferVars, historyVars, Goto
<1>0. ASSUME RuntimeException PROVE TypeOK'
  BY <1>0, TypeException
<1>01. ASSUME DropSocket(t) PROVE TypeOK'
  <2>1. Return(t, "open", "none", FALSE, <<>>)
    BY <1>01 DEF DropSocket
  <2>2. /\ "open" \in Ops \cup {"none"} /\ "none" \in Requests \cup {"none"}
        /\ <<>> \in Text
    BY TextsTyped DEF Ops
  <2>3. /\ pc' \in [Threads -> PCs] /\ call' \in [Threads -> CallRecord]
        /\ RequestsTyped' /\ ret' \in [Threads -> ReturnRecord]
    BY <2>1, <2>2, ReturnTyped
  <2>4. QED  BY <2>3, <1>01 DEF DropSocket, TypeOK, RequestsTyped
<1>1. CASE StartOpen(t)
  <2>1. call' \in [Threads -> CallRecord] /\ ret' \in [Threads -> ReturnRecord]
    BY <1>1, StartTyped DEF StartOpen, Ops
  <2>2. QED  BY <1>1, <2>1 DEF StartOpen, TypeOK, PCs, Exchanging
<1>02. ASSUME NEW sockets, Closing(sockets)
       PROVE  /\ local' \in [Conns -> {"new", "open", "closed"}]
              /\ peer' \in [Conns -> BOOLEAN] /\ authed' \in [Conns -> BOOLEAN]
              /\ requests' \in [Conns -> Seq(Message)]
              /\ replies' \in [Conns -> Seq(Message)]
              /\ timedOut' \in [Conns -> BOOLEAN]
  <2>1. <<>> \in Seq(Message)  OBVIOUS
  <2>2. QED  BY <1>02, <2>1 DEF Closing, TypeOK
<1>2. CASE CloseStreams(t)
  <2>1. CASE RuntimeException  BY <2>1, <1>0
  <2>2. CASE ~ RuntimeException
    <3>1. Closing({mInput, mOutput})  BY <1>2, <2>2 DEF CloseStreams
    <3>2. QED  BY <1>2, <2>2, <3>1, <1>02 DEF CloseStreams, TypeOK, PCs, Exchanging
  <2>3. QED  BY <2>1, <2>2
<1>3. CASE CloseSocket(t)
  <2>1. CASE RuntimeException  BY <2>1, <1>0
  <2>2. CASE ~ RuntimeException
    <3>1. Closing({mSocket})  BY <1>3, <2>2 DEF CloseSocket
    <3>2. QED  BY <1>3, <2>2, <3>1, <1>02 DEF CloseSocket, TypeOK, PCs, Exchanging
  <2>3. QED  BY <2>1, <2>2
<1>4. CASE NewSocket(t)
  <2> DEFINE c == CHOOSE x \in Unreferenced : TRUE
  <2>1. c \in Conns /\ <<>> \in Seq(Message)
    BY <1>4 DEF NewSocket, Unreferenced
  <2>2. QED  BY <1>4, <2>1 DEF NewSocket, TypeOK, PCs, Exchanging
<1>5. CASE Connect(t)
  <2>1. CASE RuntimeException  BY <2>1, <1>0
  <2>2. CASE DropSocket(t)  BY <2>2, <1>01
  <2>3. CASE ~ RuntimeException /\ ~ DropSocket(t)
    BY <1>5, <2>3 DEF Connect, TypeOK, PCs, Exchanging
  <2>4. QED  BY <2>1, <2>2, <2>3
<1>6. CASE Streams(t)
  <2>1. CASE RuntimeException  BY <2>1, <1>0
  <2>2. CASE DropSocket(t)  BY <2>2, <1>01
  <2>3. CASE ~ RuntimeException /\ ~ DropSocket(t)
    <3>1. Return(t, "open", "none", TRUE, <<>>)
      BY <1>6, <2>3 DEF Streams
    <3>11. /\ "open" \in Ops \cup {"none"} /\ <<>> \in Text
           /\ "none" \in Requests \cup {"none"}
      BY TextsTyped DEF Ops
    <3>2. /\ pc' \in [Threads -> PCs] /\ call' \in [Threads -> CallRecord]
          /\ RequestsTyped' /\ ret' \in [Threads -> ReturnRecord]
      BY <3>1, <3>11, ReturnTyped
    <3>3. QED  BY <1>6, <2>3, <3>2 DEF Streams, TypeOK, RequestsTyped
  <2>4. QED  BY <2>1, <2>2, <2>3
<1>7. QED  BY <1>1, <1>2, <1>3, <1>4, <1>5, <1>6

LEMMA TypeCall ==
  ASSUME TypeOK, NEW t \in Threads,
         \/ StartAuthorize(t) \/ StartConnectionAlive(t)
         \/ StartCall(t)
         \/ Build(t) \/ Compose(t) \/ SendRequest(t) \/ StartReceive(t)
  PROVE  TypeOK'
<1> USE DEF coreVars, socketVars, bufferVars, historyVars
<1>1. ASSUME NEW op \in Ops, NEW req \in Requests, Begin(t, op, req)
      PROVE  TypeOK'
  <2>1. call' \in [Threads -> CallRecord] /\ ret' \in [Threads -> ReturnRecord]
    BY <1>1, StartTyped DEF Begin
  <2>2. call'[t].req \in Requests /\ \A u \in Threads \ {t} : call'[u] = call[u]
    BY <1>1 DEF Begin, NewCall, TypeOK
  <2>3. pc' \in [Threads -> PCs] /\ RequestsTyped'
    BY <1>1, <2>2, GotoTyped DEF Begin, PCs
  <2>4. QED  BY <1>1, <2>1, <2>3 DEF Begin, TypeOK, RequestsTyped
<1>2. ASSUME NEW op \in Ops, NEW req \in Requests, StartIfConnected(t, op, req)
      PROVE  TypeOK'
  <2>1. CASE isConnected  BY <1>1, <1>2, <2>1 DEF StartIfConnected
  <2>2. CASE ~ isConnected
    <3>1. Return(t, op, req, FALSE, <<>>)
      BY <1>2, <2>2 DEF StartIfConnected
    <3>11. <<>> \in Text
      BY TextsTyped
    <3>2. /\ pc' \in [Threads -> PCs] /\ call' \in [Threads -> CallRecord]
          /\ RequestsTyped' /\ ret' \in [Threads -> ReturnRecord]
      BY <3>1, <3>11, ReturnTyped
    <3>3. QED  BY <1>2, <2>2, <3>2 DEF StartIfConnected, TypeOK, RequestsTyped
  <2>3. QED  BY <2>1, <2>2
<1>3. CASE StartAuthorize(t)
  BY <1>2, <1>3, ConstantsTyped DEF StartAuthorize, Ops
<1>4. CASE StartConnectionAlive(t)
  BY <1>2, <1>4, ConstantsTyped DEF StartConnectionAlive, Ops
<1>5. CASE StartCall(t)
  BY <1>1, <1>5, ConstantsTyped DEF StartCall
<1>6. CASE Build(t)
  <2>1. pc' \in [Threads -> PCs] /\ RequestsTyped'
    BY <1>6, GotoTyped DEF Build, Running, TypeOK, PCs, Exchanging
  <2>2. QED  BY <1>6, <2>1 DEF Build, TypeOK, RequestsTyped
<1>7. CASE Compose(t)
  <2>1. mRequest' \in Requests \cup {Garbled}
    <3>1. call[t].req \in Requests
      BY <1>7 DEF Compose, Running, TypeOK, Exchanging
    <3>2. QED  BY <1>7, <3>1 DEF Compose
  <2>2. pc' \in [Threads -> PCs] /\ RequestsTyped'
    BY <1>7, GotoTyped DEF Compose, Running, TypeOK, PCs, Exchanging
  <2>3. QED  BY <1>7, <2>1, <2>2 DEF Compose, TypeOK, RequestsTyped
<1>8. CASE SendRequest(t)
  <2>1. mRequest' \in Requests \cup {Garbled}
    BY <1>8 DEF SendRequest, TypeOK
  <2>2. CASE IOException(t)
    BY <1>8, <2>1, <2>2, IOExceptionTyped DEF SendRequest, TypeOK, RequestsTyped
  <2>21. ASSUME Goto(t, "receive"), UNCHANGED call
         PROVE  pc' \in [Threads -> PCs] /\ RequestsTyped'
    BY <1>8, <2>21, GotoTyped DEF SendRequest, Running, TypeOK, PCs, Exchanging
  <2>3. CASE UNCHANGED <<requests, replies, call, ret>> /\ Goto(t, "receive")
    BY <1>8, <2>1, <2>21, <2>3 DEF SendRequest, TypeOK, RequestsTyped
  <2>4. ASSUME NEW ok \in BOOLEAN, mOutput # None, Goto(t, "receive"),
               requests' = [requests EXCEPT ![mOutput] =
                 Append(@, [req |-> RequestText(t), by |-> t, ok |-> ok])],
               UNCHANGED <<replies, call, ret>>
        PROVE  TypeOK'
    <3>1. [req |-> RequestText(t), by |-> t, ok |-> ok] \in Message
      BY <1>8 DEF SendRequest, Running, RequestText, Message, TypeOK, Exchanging
    <3>2. requests' \in [Conns -> Seq(Message)]
      BY <2>4, <3>1 DEF TypeOK
    <3>3. QED  BY <1>8, <2>1, <2>21, <2>4, <3>2 DEF SendRequest, TypeOK, RequestsTyped
  <2>5. QED  BY <1>8, <2>2, <2>3, <2>4 DEF SendRequest
<1>9. CASE StartReceive(t)
  <2>1. Reading(t, mInput, <<>>) \in CallRecord
        /\ Reading(t, mInput, <<>>).req = call[t].req
    BY TextsTyped DEF TypeOK, CallRecord, Reading
  <2>2. <<>> \in Text  BY TextsTyped
  <2>3. call' \in [Threads -> CallRecord]
    BY <1>9, <2>1 DEF StartReceive, TypeOK, CallRecord
  <2>4. /\ call'[t].req = call[t].req /\ call[t].req \in Requests
        /\ \A u \in Threads \ {t} : call'[u] = call[u]
    BY <1>9, <2>1 DEF StartReceive, Running, TypeOK, Exchanging
  <2>5. pc' \in [Threads -> PCs] /\ RequestsTyped'
    BY <1>9, <2>4, GotoTyped DEF StartReceive, PCs
  <2>6. QED  BY <1>9, <2>2, <2>3, <2>5 DEF StartReceive, TypeOK, RequestsTyped
<1>10. QED  BY <1>3, <1>4, <1>5, <1>6, <1>7, <1>8, <1>9

\* The first and the last part of a text that is not empty.
LEMMA FrontTyped ==
  ASSUME NEW S, NEW s \in Seq(S), s # <<>>
  PROVE  SubSeq(s, 1, Len(s) - 1) \in Seq(S) /\ s[Len(s)] \in S /\ Len(s) \in 1 .. Len(s)
<1>1. Len(s) \in Nat /\ Len(s) # 0
  BY EmptySeq
<1>2. 1 \in 1 .. Len(s) + 1 /\ Len(s) - 1 \in 0 .. Len(s) /\ Len(s) \in 1 .. Len(s)
  BY <1>1
<1>3. SubSeq(s, 1, Len(s) - 1) \in Seq(S)
  BY <1>2, SubSeqProperties
<1>4. QED  BY <1>2, <1>3

LEMMA TypeReceive ==
  ASSUME TypeOK, NEW t \in Threads,
         ReadReply(t) \/ AppendReply(t) \/ TrimReply(t)
  PROVE  TypeOK'
<1> USE DEF coreVars, socketVars, bufferVars, historyVars
<1>1. ASSUME NEW stream \in Conns \cup {None}, NEW bytes \in Text, NEW label \in PCs,
             pc[t] \in Exchanging, Goto(t, label),
             call' = [call EXCEPT ![t] = Reading(t, stream, bytes)]
      PROVE  /\ pc' \in [Threads -> PCs] /\ RequestsTyped'
             /\ call' \in [Threads -> CallRecord]
  <2>1. Reading(t, stream, bytes) \in CallRecord
        /\ Reading(t, stream, bytes).req = call[t].req
    BY <1>1 DEF TypeOK, CallRecord, Reading
  <2>2. call' \in [Threads -> CallRecord]
    BY <1>1, <2>1 DEF TypeOK, CallRecord
  <2>3. /\ call'[t].req = call[t].req /\ call[t].req \in Requests
        /\ \A u \in Threads \ {t} : call'[u] = call[u]
    BY <1>1, <2>1 DEF TypeOK
  <2>4. QED  BY <1>1, <2>2, <2>3, GotoTyped
<1>2. CASE ReadReply(t)
  <2> DEFINE c == call[t].stream
  <2>1. c \in Conns
    BY <1>2 DEF ReadReply, Readable, TypeOK, CallRecord
  <2>2. PICK n \in 1 .. Len(replies[c]) :
          /\ mReadBuffer' = SubSeq(replies[c], 1, n)
          /\ call' = [call EXCEPT ![t] = Reading(t, c, SubSeq(replies[c], 1, n))]
          /\ replies' = [replies EXCEPT ![c] = SubSeq(@, n + 1, Len(@))]
    BY <1>2 DEF ReadReply
  <2>3. /\ SubSeq(replies[c], 1, n) \in Seq(Message)
        /\ SubSeq(replies[c], n + 1, Len(replies[c])) \in Seq(Message)
    BY <2>1, SubSeqProperties DEF TypeOK
  <2>4. SubSeq(replies[c], 1, n) \in Text
    BY <2>3, TextsTyped
  <2>5. replies' \in [Conns -> Seq(Message)]
    BY <2>1, <2>2, <2>3 DEF TypeOK
  <2>6. pc' \in [Threads -> PCs] /\ RequestsTyped' /\ call' \in [Threads -> CallRecord]
    BY <1>1, <1>2, <2>1, <2>2, <2>4 DEF ReadReply, Running, PCs, Exchanging
  <2>7. QED  BY <1>2, <2>2, <2>4, <2>5, <2>6 DEF ReadReply, TypeOK, RequestsTyped
<1>3. CASE AppendReply(t)
  <2>1. PICK ended \in BOOLEAN, text \in {mReadBuffer, <<Broken>>} :
          /\ mResult' = mResult \o IF ended THEN Append(text, End) ELSE text
          /\ Goto(t, IF ended THEN "trim" ELSE "read")
          /\ call' = [call EXCEPT ![t] =
               Reading(t, IF ended THEN call[t].stream ELSE mInput, <<>>)]
    BY <1>3 DEF AppendReply
  <2>2. text \in Text /\ Append(text, End) \in Text /\ mResult \in Text
    BY TextsTyped DEF TypeOK
  <2>3. mResult' \in Text
    BY <2>1, <2>2, TextsTyped
  <2>4. mReadBuffer' \in Text
    BY <1>3, TextsTyped DEF AppendReply, TypeOK
  <2>5. call[t].stream \in Conns \cup {None} /\ mInput \in Conns \cup {None}
    BY DEF TypeOK, CallRecord
  <2>6. pc[t] \in Exchanging
    BY <1>3 DEF AppendReply, Running, Exchanging
  <2>7. pc' \in [Threads -> PCs] /\ RequestsTyped' /\ call' \in [Threads -> CallRecord]
    <3>1. CASE ended
      BY <1>1, <2>1, <2>5, <2>6, <3>1, TextsTyped DEF PCs
    <3>2. CASE ~ended
      BY <1>1, <2>1, <2>5, <2>6, <3>2, TextsTyped DEF PCs
    <3>3. QED  BY <3>1, <3>2
  <2>8. QED  BY <1>3, <2>3, <2>4, <2>7 DEF AppendReply, TypeOK, RequestsTyped
<1>4. CASE TrimReply(t)
  <2>1. CASE RuntimeException
    BY <2>1, TypeException
  <2>2. CASE ~RuntimeException
    <3> DEFINE front == SubSeq(mResult, 1, Len(mResult) - 1)
    <3>1. mResult # <<>> /\ mResult \in Text
      BY <1>4, <2>2 DEF TrimReply, TypeOK
    <3>2. front \in Text
      BY <3>1, FrontTyped DEF Text
    <3>3. mResult' \in {mResult, front, Append(front, Broken)}
      BY <1>4, <2>2 DEF TrimReply
    <3>4. mResult' \in Text
      BY <3>1, <3>2, <3>3, TextsTyped
    <3> HIDE DEF front
    <3>5. pc' \in [Threads -> PCs] /\ RequestsTyped'
      BY <1>4, <2>2, GotoTyped DEF TrimReply, Running, TypeOK, PCs, Exchanging
    <3>6. QED  BY <1>4, <2>2, <3>4, <3>5 DEF TrimReply, TypeOK, RequestsTyped
  <2>3. QED  BY <2>1, <2>2
<1>5. QED  BY <1>2, <1>3, <1>4

LEMMA TypeRead ==
  ASSUME TypeOK, NEW t \in Threads,
         ReadEnd(t) \/ ReadFails(t) \/ ReadTimeout(t) \/ ReturnReply(t)
  PROVE  TypeOK'
<1> USE DEF coreVars, socketVars, bufferVars, historyVars
<1>1. LeftOver(t) \in Text
  BY TextsTyped DEF LeftOver, TypeOK
<1>2. CASE ReadEnd(t)
  <2>1. pc' \in [Threads -> PCs] /\ RequestsTyped'
    BY <1>2, GotoTyped DEF ReadEnd, Running, TypeOK, PCs, Exchanging
  <2>2. QED  BY <1>2, <2>1 DEF ReadEnd, TypeOK, RequestsTyped
<1>3. CASE ReadFails(t)
  BY <1>1, <1>3, IOExceptionTyped DEF ReadFails, TypeOK, RequestsTyped
<1>4. CASE ReadTimeout(t)
  BY <1>1, <1>4, IOExceptionTyped DEF ReadTimeout, TypeOK, RequestsTyped
<1>5. CASE ReturnReply(t)
  <2>1. /\ replies' \in [Conns -> Seq(Message)]
        /\ requests' \in [Conns -> Seq(Message)]
    BY <1>5, AbandonedTyped DEF ReturnReply, TypeOK
  <2>2. /\ pc' \in [Threads -> PCs] /\ RequestsTyped'
        /\ call' \in [Threads -> CallRecord] /\ ret' \in [Threads -> ReturnRecord]
    BY <1>5, ParseTyped DEF ReturnReply, TypeOK
  <2>3. QED  BY <1>1, <1>5, <2>1, <2>2 DEF ReturnReply, ParseBuffer, TypeOK, RequestsTyped
<1>6. QED  BY <1>2, <1>3, <1>4, <1>5

LEMMA TypeCore ==
  ASSUME TypeOK, CoreExits \/ CoreStarts \/ \E c \in Conns : CoreAnswers(c)
  PROVE  TypeOK'
<1> USE DEF socketVars, bufferVars, historyVars
<1>1. CASE CoreExits
  <2>1. <<>> \in Seq(Message)  OBVIOUS
  <2>2. QED  BY <1>1, <2>1 DEF CoreExits, TypeOK
<1>2. CASE CoreStarts
  BY <1>2 DEF CoreStarts, TypeOK
<1>3. ASSUME NEW c \in Conns, CoreAnswers(c) PROVE TypeOK'
  <2> DEFINE m == Head(requests[c])
  <2>1. m \in Message /\ Tail(requests[c]) \in Seq(Message)
    BY <1>3 DEF CoreAnswers, TypeOK
  <2>2. PICK ok \in BOOLEAN :
          /\ authed' = [authed EXCEPT ![c] = @ \/ (m.req = "auth2" /\ ok)]
          /\ replies' = [replies EXCEPT ![c] =
               Append(@, [req |-> m.req, by |-> m.by, ok |-> ok])]
    BY <1>3 DEF CoreAnswers
  <2>3. [req |-> m.req, by |-> m.by, ok |-> ok] \in Message
    BY <2>1 DEF Message
  <2>4. QED  BY <1>3, <2>1, <2>2, <2>3 DEF CoreAnswers, TypeOK
<1>4. QED  BY <1>1, <1>2, <1>3

LEMMA TypeStep == TypeOK /\ [Next]_vars => TypeOK'
<1> SUFFICES ASSUME TypeOK, [Next]_vars PROVE TypeOK'
  OBVIOUS
<1>1. CASE UNCHANGED vars
  BY <1>1 DEF vars, TypeOK
<1>2. CASE Next
  BY <1>2, TypeOpen, TypeCall, TypeReceive, TypeRead, TypeCore DEF Next, MethodStep
<1>3. QED  BY <1>1, <1>2

\* The shared fields of RpcClient, the queues and the locals of its methods
\* keep their types, whatever the threads do.
THEOREM TypeCorrect == Spec => []TypeOK
BY TypeInit, TypeStep, PTL DEF Spec

(***************************************************************************)
(* One task at a time: the socket fields and the buffers                   *)
(***************************************************************************)

\* As in BOINC_Manager, all of whose calls are made by AsyncTasks on the serial
\* executor.
OneThread == \A s \in Threads : \A t \in Threads : s = t

LEMMA AbandonedEmpty ==
  ASSUME NEW t \in Threads, NEW q \in [Conns -> Seq(Message)], NEW c \in Conns,
         q[c] = <<>>
  PROVE  Abandoned(t, q)[c] = <<>>
<1>1. Len(Abandoned(t, q)[c]) = 0 /\ Abandoned(t, q)[c] \in Seq(Message)
  BY AbandonedTyped
<1>2. QED  BY <1>1, EmptySeq

\* A step outside open() keeps SocketInv if it puts nothing on a connection
\* that is not open.
LEMMA SocketKept ==
  ASSUME TypeOK, SocketInv,
         UNCHANGED <<local, mSocket, mInput, mOutput, crashed>>,
         \A u \in Threads : \/ pc'[u] = pc[u]
                            \/ pc[u] \notin Opening /\ pc'[u] \notin Opening,
         \A c \in Conns : local[c] # "open" => replies'[c] = <<>> /\ ~peer'[c]
  PROVE  SocketInv'
<1>1. \A u \in Threads : pc'[u] \in Opening => pc'[u] = pc[u]
  OBVIOUS
<1>2. Connected' <=> Connected
  BY DEF Connected
<1>3. /\ ~crashed' /\ mInput' = mOutput'
      /\ \A c \in Conns : local'[c] = "open" => c = mSocket'
      /\ \A c \in Conns : local'[c] # "open" => replies'[c] = <<>> /\ ~peer'[c]
  BY DEF SocketInv
<1>5. \A u \in Threads : SocketAt(pc[u])'
  <2> SUFFICES ASSUME NEW u \in Threads PROVE SocketAt(pc[u])'
    OBVIOUS
  <2>1. CASE pc'[u] = pc[u]
    BY <1>2, <2>1 DEF SocketInv, SocketAt
  <2>2. CASE pc'[u] \notin Opening
    BY <2>2 DEF Opening, SocketAt
  <2>3. QED  BY <2>1, <2>2
<1>6. (\A u \in Threads : pc'[u] \notin Opening) => mSocket' = None \/ Connected'
  <2>1. (\A u \in Threads : pc'[u] \notin Opening) => \A u \in Threads : pc[u] \notin Opening
    OBVIOUS
  <2>2. QED  BY <1>2, <2>1 DEF SocketInv
<1>7. QED  BY <1>3, <1>5, <1>6 DEF SocketInv

LEMMA SocketInit == TypeOK /\ Init => SocketInv
<1> SUFFICES ASSUME TypeOK, Init PROVE SocketInv
  OBVIOUS
<1>1. \A t \in Threads : pc[t] = "idle"
  BY DEF Init, Unused
<1>2. QED  BY <1>1 DEF Init, Unused, SocketInv, SocketAt, Opening, Connected

\* The steps of open(): the fields are as SocketAt says.
LEMMA SocketOpen ==
  ASSUME TypeOK, SocketInv, OneThread, NEW t \in Threads,
         \/ StartOpen(t) \/ CloseStreams(t) \/ CloseSocket(t) \/ NewSocket(t)
         \/ Connect(t) \/ Streams(t)
  PROVE  SocketInv'
<1> USE DEF coreVars, socketVars, bufferVars, historyVars
<1>1. /\ \A u \in Threads : u = t
      /\ pc[t] \notin Opening => mSocket = None \/ Connected
  BY DEF SocketInv, OneThread
<1>2. ASSUME NEW label \in PCs, Goto(t, label),
             ~crashed', mInput' = mOutput',
             SocketAt(label)',
             label \notin Opening => (mSocket = None \/ Connected)',
             \A c \in Conns : local'[c] = "open" => c = mSocket',
             \A c \in Conns : local'[c] # "open" => replies'[c] = <<>> /\ ~peer'[c]
      PROVE  SocketInv'
  <2>1. pc'[t] = label
    BY <1>2 DEF Goto, TypeOK
  <2>3. \A u \in Threads : SocketAt(pc[u])'
    BY <1>1, <1>2, <2>1 DEF SocketAt, Opening
  <2>4. (\A u \in Threads : pc'[u] \notin Opening) => (mSocket = None \/ Connected)'
    BY <1>2, <2>1
  <2>5. QED  BY <1>2, <2>3, <2>4 DEF SocketInv
<1>3. ~crashed /\ mInput = mOutput
      /\ \A c \in Conns : /\ local[c] = "open" => c = mSocket
                          /\ local[c] # "open" => replies[c] = <<>> /\ ~peer[c]
  BY DEF SocketInv
<1>4. ASSUME NEW sockets, Closing(sockets)
      PROVE  \A c \in Conns :
               /\ local'[c] = "open" => local[c] = "open" /\ c \notin sockets
               /\ local'[c] # "open" => replies'[c] = <<>> /\ ~peer'[c]
  BY <1>3, <1>4 DEF Closing, TypeOK
<1>5. ASSUME pc[t] \in Opening, DropSocket(t), local[mSocket] # "open"
      PROVE  SocketInv'
  BY <1>2, <1>3, <1>5 DEF DropSocket, Return, PCs, SocketAt, Opening
<1>11. CASE StartOpen(t)
  <2>1. CASE isConnected
    BY <1>1, <1>2, <1>3, <1>11, <2>1
       DEF StartOpen, Running, isConnected, PCs, SocketAt, Opening, Connected
  <2>2. CASE ~ isConnected
    BY <1>1, <1>2, <1>3, <1>11, <2>2
       DEF StartOpen, Running, isConnected, PCs, SocketAt, Opening, Connected
  <2>3. QED  BY <2>1, <2>2
<1>12. CASE CloseStreams(t)
  <2>1. Connected
    BY <1>12 DEF CloseStreams, Running, SocketInv, SocketAt
  <2>2. Closing({mInput, mOutput}) /\ Goto(t, "closeSocket")
        /\ UNCHANGED <<mSocket, mInput, mOutput, crashed>>
    BY <1>3, <1>12, <2>1 DEF CloseStreams, Connected
  <2>3. local'[mSocket] = "closed"
    BY <2>1, <2>2 DEF Closing, Connected, TypeOK
  <2>4. QED  BY <1>2, <1>3, <1>4, <2>1, <2>2, <2>3
             DEF PCs, SocketAt, Opening, Connected
<1>13. CASE CloseSocket(t)
  <2>1. mSocket # None /\ local[mSocket] = "closed"
    BY <1>13 DEF CloseSocket, Running, SocketInv, SocketAt
  <2>2. Closing({mSocket}) /\ Goto(t, "newSocket") /\ mSocket' = None
        /\ UNCHANGED <<mInput, mOutput, crashed>>
    BY <1>13, <2>1 DEF CloseSocket
  <2>3. QED  BY <1>2, <1>3, <1>4, <2>1, <2>2 DEF PCs, SocketAt, Opening
<1>14. CASE NewSocket(t)
  <2> DEFINE c == CHOOSE x \in Unreferenced : TRUE
  <2>1. c \in Conns /\ mSocket = None /\ c # None
    BY <1>14, ConstantsAssumption
       DEF NewSocket, Unreferenced, Running, SocketInv, SocketAt
  <2>2. /\ mSocket' = c /\ Goto(t, "connect")
        /\ local' = [local EXCEPT ![c] = "new"]
        /\ peer' = [peer EXCEPT ![c] = FALSE]
        /\ replies' = [replies EXCEPT ![c] = <<>>]
        /\ UNCHANGED <<mInput, mOutput, crashed>>
    BY <1>14 DEF NewSocket
  <2> HIDE DEF c
  <2>3. \A d \in Conns : local[d] # "open" /\ replies[d] = <<>> /\ ~peer[d]
    BY <1>3, <2>1, ConstantsAssumption
  <2>4. /\ \A d \in Conns : local'[d] # "open" /\ replies'[d] = <<>> /\ ~peer'[d]
        /\ local'[c] = "new"
    BY <2>1, <2>2, <2>3 DEF TypeOK
  <2>5. QED  BY <1>2, <1>3, <2>1, <2>2, <2>4 DEF PCs, SocketAt, Opening
<1>15. CASE Connect(t)
  <2>1. mSocket # None /\ local[mSocket] = "new" /\ pc[t] \in Opening
    BY <1>15 DEF Connect, Running, SocketInv, SocketAt, Opening
  <2>2. CASE DropSocket(t)
    BY <1>5, <2>1, <2>2
  <2>3. CASE ~ DropSocket(t)
    <3>1. /\ local' = [local EXCEPT ![mSocket] = "open"]
          /\ peer' = [peer EXCEPT ![mSocket] = TRUE]
          /\ Goto(t, "streams")
          /\ UNCHANGED <<mSocket, mInput, mOutput, replies, crashed>>
      BY <1>15, <2>1, <2>3 DEF Connect
    <3>2. QED  BY <1>2, <1>3, <2>1, <3>1 DEF PCs, SocketAt, Opening, TypeOK
  <2>4. QED  BY <2>2, <2>3
<1>16. CASE Streams(t)
  <2>1. mSocket # None /\ local[mSocket] = "open"
    BY <1>16 DEF Streams, Running, SocketInv, SocketAt
  <2>2. /\ mInput' = mSocket /\ mOutput' = mSocket /\ Goto(t, "idle")
        /\ UNCHANGED <<local, mSocket, replies, peer, crashed>>
    BY <1>16, <2>1 DEF Streams, Return
  <2>3. QED  BY <1>2, <1>3, <2>1, <2>2 DEF PCs, SocketAt, Opening, Connected
<1>20. QED  BY <1>11, <1>12, <1>13, <1>14, <1>15, <1>16

LEMMA SocketStep ==
  TypeOK /\ SocketInv /\ BufferInv /\ OneThread /\ [Next]_vars => SocketInv'
<1> SUFFICES ASSUME TypeOK, SocketInv, BufferInv, OneThread, [Next]_vars
             PROVE  SocketInv'
  OBVIOUS
<1> USE DEF coreVars, socketVars, bufferVars, historyVars
<1>1. \A c \in Conns : local[c] # "open" => replies[c] = <<>> /\ ~peer[c]
  BY DEF SocketInv
<1>2. ASSUME NEW t \in Threads, NEW label, label \notin Opening,
             pc[t] \notin Opening, Goto(t, label)
      PROVE  \A u \in Threads : \/ pc'[u] = pc[u]
                                \/ pc[u] \notin Opening /\ pc'[u] \notin Opening
  BY <1>2 DEF Goto, TypeOK
<1>3. CASE UNCHANGED vars
  BY <1>1, <1>3, SocketKept DEF vars
<1>4. ASSUME NEW t \in Threads,
             \/ StartOpen(t) \/ CloseStreams(t) \/ CloseSocket(t) \/ NewSocket(t)
             \/ Connect(t) \/ Streams(t)
      PROVE  SocketInv'
  BY <1>4, SocketOpen
<1>5. ASSUME NEW t \in Threads,
             \/ StartAuthorize(t) \/ StartConnectionAlive(t)
             \/ StartCall(t)
             \/ Build(t) \/ Compose(t) \/ StartReceive(t)
      PROVE  SocketInv'
  <2>1. pc[t] \notin Opening
    BY <1>5 DEF StartAuthorize, StartConnectionAlive, StartIfConnected, StartCall,
                Build, Compose, StartReceive, Running, Opening
  <2>2. \E label \in {"idle", "build", "send", "compose", "read"} : Goto(t, label)
    BY <1>5 DEF StartAuthorize, StartConnectionAlive, StartIfConnected, StartCall,
                Begin, Build, Compose, StartReceive, Return
  <2>3. UNCHANGED <<local, mSocket, mInput, mOutput, crashed, replies, peer>>
    BY <1>5 DEF StartAuthorize, StartConnectionAlive, StartIfConnected, StartCall,
                Begin, Build, Compose, StartReceive
  <2>4. \A u \in Threads : \/ pc'[u] = pc[u]
                           \/ pc[u] \notin Opening /\ pc'[u] \notin Opening
    BY <1>2, <2>1, <2>2 DEF Opening
  <2>5. QED  BY <1>1, <2>3, <2>4, SocketKept
<1>6. ASSUME NEW t \in Threads,
             \/ SendRequest(t) \/ ReadReply(t) \/ AppendReply(t) \/ TrimReply(t)
             \/ ReadEnd(t) \/ ReadFails(t) \/ ReadTimeout(t) \/ ReturnReply(t)
      PROVE  SocketInv'
  <2>1. pc[t] \notin Opening
    BY <1>6 DEF SendRequest, ReadReply, AppendReply, TrimReply, ReadEnd, ReadFails,
                ReadTimeout, ReturnReply, Running, Opening
  <2>11. TrimReply(t) => mResult # <<>>
    BY DEF TrimReply, Running, BufferInv
  <2>2. \E label \in {"idle", "receive", "build", "append", "trim", "read", "result"} :
          Goto(t, label)
    BY <1>6, <2>11
       DEF SendRequest, ReadReply, AppendReply, TrimReply, ReadEnd, ReadFails,
           ReadTimeout, ReturnReply, Parse, IOException, Return
  <2>3. UNCHANGED <<local, mSocket, mInput, mOutput, crashed, peer>>
    BY <1>6, <2>11
       DEF SendRequest, ReadReply, AppendReply, TrimReply, ReadEnd, ReadFails,
           ReadTimeout, ReturnReply
  <2>4. \A u \in Threads : \/ pc'[u] = pc[u]
                           \/ pc[u] \notin Opening /\ pc'[u] \notin Opening
    BY <1>2, <2>1, <2>2 DEF Opening
  <2>5. \A c \in Conns : local[c] # "open" => replies'[c] = <<>>
    <3> SUFFICES ASSUME NEW c \in Conns, local[c] # "open" PROVE replies'[c] = <<>>
      OBVIOUS
    <3>1. replies[c] = <<>> /\ replies \in [Conns -> Seq(Message)]
      BY <1>1 DEF TypeOK
    <3>2. CASE replies' = replies  BY <3>1, <3>2
    <3>3. CASE replies' = Abandoned(t, replies)
      BY <3>1, <3>3, AbandonedEmpty
    <3>4. CASE ReadReply(t)
      <4> DEFINE d == call[t].stream
      <4>1. PICK n \in 1 .. Len(replies[d]) :
              replies' = [replies EXCEPT ![d] = SubSeq(@, n + 1, Len(@))]
        BY <3>4 DEF ReadReply
      <4>2. d # c
        BY <3>1, <4>1
      <4>3. QED  BY <3>1, <4>1, <4>2
    <3>5. QED  BY <1>6, <2>11, <3>2, <3>3, <3>4
               DEF SendRequest, AppendReply, TrimReply, ReadEnd, ReadFails,
                   ReadTimeout, ReturnReply, IOException
  <2>6. QED  BY <1>1, <2>3, <2>4, <2>5, SocketKept
<1>7. ASSUME NEW c \in Conns, CoreAnswers(c) PROVE SocketInv'
  BY <1>1, <1>7, SocketKept DEF CoreAnswers, TypeOK
<1>8. CASE CoreExits
  BY <1>1, <1>8, SocketKept DEF CoreExits
<1>9. CASE CoreStarts
  BY <1>1, <1>9, SocketKept DEF CoreStarts
<1>10. QED  BY <1>3, <1>4, <1>5, <1>6, <1>7, <1>8, <1>9 DEF Next, MethodStep

\* What is left of a text once the end mark after it is removed.
LEMMA AppendEnd ==
  ASSUME NEW s \in Seq(Message)
  PROVE  LET text == <<>> \o Append(s, End) IN
         /\ text # <<>> /\ text[Len(text)] = End
         /\ Len(text) = Len(s) + 1
         /\ SubSeq(text, 1, Len(text) - 1) = s
<1> DEFINE text == <<>> \o Append(s, End)
<1>1. s \in Text
  BY TextsTyped
<1>2. /\ text \in Text /\ Len(text) = Len(s) + 1 /\ Len(s) \in Nat
      /\ text[Len(text)] = End /\ \A i \in 1 .. Len(s) : text[i] = s[i]
  BY <1>1 DEF Text
<1>3. text # <<>>
  BY <1>2
<1> HIDE DEF text
<1>4. /\ SubSeq(text, 1, Len(s)) \in Text /\ Len(SubSeq(text, 1, Len(s))) = Len(s)
      /\ \A i \in 1 .. Len(s) : SubSeq(text, 1, Len(s))[i] = text[i]
  <2>1. 1 \in 1 .. Len(text) + 1 /\ Len(s) \in 0 .. Len(text)
    BY <1>2
  <2>2. QED  BY <1>2, <2>1, SubSeqProperties DEF Text
<1>5. SubSeq(text, 1, Len(s)) = s
  BY <1>1, <1>2, <1>4, SeqEqual DEF Text
<1>6. Len(text) - 1 = Len(s)
  BY <1>2
<1>7. QED  BY <1>2, <1>3, <1>5, <1>6 DEF text

LEMMA BufferInit == TypeOK /\ Init => BufferInv
BY DEF Init, Unused, BufferInv, TypeOK

\* What a lone thread reads is still in mReadBuffer when it appends it, and
\* still in mResult when it trims it.
LEMMA BufferStep ==
  ASSUME TypeOK, SocketInv, BufferInv, OneThread, [Next]_vars, ~crashed'
  PROVE  BufferInv'
<1> USE DEF coreVars, socketVars, bufferVars, historyVars
<1>1. ~RuntimeException
  BY DEF RuntimeException
<1>2. ASSUME NEW t \in Threads, pc'[t] = pc[t], call' = call,
             UNCHANGED <<mReadBuffer, mResult>>
      PROVE  BufferInv'
  BY <1>2 DEF BufferInv, OneThread
<1>3. ASSUME NEW t \in Threads, pc'[t] \notin Receiving
      PROVE  BufferInv'
  BY <1>3 DEF BufferInv, OneThread, Receiving
<1>4. CASE UNCHANGED vars
  BY <1>4 DEF vars, BufferInv
<1>5. ASSUME NEW t \in Threads,
             \/ StartOpen(t) \/ CloseStreams(t) \/ CloseSocket(t) \/ NewSocket(t)
             \/ Connect(t) \/ Streams(t)
      PROVE  BufferInv'
  <2>1. pc'[t] \notin Receiving
    BY <1>1, <1>5
       DEF StartOpen, CloseStreams, CloseSocket, NewSocket, Connect, Streams,
           DropSocket, Return, Goto, TypeOK, Receiving
  <2>2. QED  BY <1>3, <2>1
<1>6. ASSUME NEW t \in Threads,
             \/ StartAuthorize(t) \/ StartConnectionAlive(t) \/ StartCall(t)
             \/ Build(t) \/ Compose(t) \/ SendRequest(t)
      PROVE  BufferInv'
  <2>1. pc'[t] \notin Receiving
    BY <1>6 DEF StartAuthorize, StartConnectionAlive, StartIfConnected, StartCall,
                Begin, Build, Compose, SendRequest, IOException, Return, Goto, TypeOK,
                Receiving
  <2>2. QED  BY <1>3, <2>1
<1>7. ASSUME NEW t \in Threads, StartReceive(t) PROVE BufferInv'
  <2>1. pc'[t] = "read" /\ mResult' = <<>>
    BY <1>7 DEF StartReceive, Goto, TypeOK
  <2>2. QED  BY <2>1 DEF BufferInv, OneThread
<1>8. ASSUME NEW t \in Threads, ReadReply(t) PROVE BufferInv'
  <2> DEFINE c == call[t].stream
  <2>1. PICK n \in 1 .. Len(replies[c]) :
          /\ mReadBuffer' = SubSeq(replies[c], 1, n)
          /\ call' = [call EXCEPT ![t] = Reading(t, c, SubSeq(replies[c], 1, n))]
    BY <1>8 DEF ReadReply
  <2>2. replies[c] \in Seq(Message) /\ mResult = <<>> /\ mResult' = mResult
        /\ pc'[t] = "append"
    BY <1>8 DEF ReadReply, Readable, Running, Goto, TypeOK, CallRecord, BufferInv
  <2>3. Len(SubSeq(replies[c], 1, n)) = n /\ n # 0
    BY <2>1, <2>2, SubSeqProperties
  <2>4. SubSeq(replies[c], 1, n) # <<>>
    BY <2>3
  <2>5. call'[t].bytes = mReadBuffer'
    BY <2>1 DEF TypeOK, Reading
  <2>6. QED  BY <2>1, <2>2, <2>4, <2>5 DEF BufferInv, OneThread
<1>9. ASSUME NEW t \in Threads, AppendReply(t) PROVE BufferInv'
  <2>1. mReadBuffer = call[t].bytes /\ mReadBuffer # <<>> /\ mResult = <<>>
    BY <1>9 DEF AppendReply, Running, BufferInv
  <2>2. mReadBuffer # <<Broken>>
    <3>1. mReadBuffer[1] \in Message
      BY <1>9, EmptySeq DEF AppendReply, Running, BufferInv
    <3>2. QED  BY <3>1, TextsTyped
  <2>3. /\ mResult' = mResult \o Append(mReadBuffer, End)
        /\ pc'[t] = "trim"
    BY <1>9, <2>1, <2>2 DEF AppendReply, Goto, TypeOK
  <2>4. mReadBuffer \in Seq(Message)
    BY <1>9 DEF AppendReply, Running, BufferInv
  <2>5. /\ mResult' # <<>> /\ mResult'[Len(mResult')] = End
        /\ SubSeq(mResult', 1, Len(mResult') - 1) = mReadBuffer
    BY <2>1, <2>3, <2>4, AppendEnd
  <2>6. QED  BY <2>3, <2>4, <2>5 DEF BufferInv, OneThread
<1>10. ASSUME NEW t \in Threads, TrimReply(t) PROVE BufferInv'
  <2>1. /\ mResult # <<>> /\ mResult[Len(mResult)] = End
        /\ SubSeq(mResult, 1, Len(mResult) - 1) \in Seq(Message)
    BY <1>10 DEF TrimReply, Running, BufferInv
  <2>2. mResult' \in Seq(Message) /\ pc'[t] = "result"
    BY <1>10, <2>1 DEF TrimReply, Goto, TypeOK
  <2>3. QED  BY <2>2 DEF BufferInv, OneThread
<1>11. ASSUME NEW t \in Threads, ReadEnd(t) PROVE BufferInv'
  <2>1. pc'[t] = "result" /\ mResult' = <<>>
    BY <1>11 DEF ReadEnd, Running, Goto, TypeOK, BufferInv
  <2>2. QED  BY <2>1 DEF BufferInv, OneThread
<1>12. ASSUME NEW t \in Threads, ReadFails(t) \/ ReadTimeout(t) \/ ReturnReply(t)
       PROVE  BufferInv'
  <2>1. pc'[t] \notin Receiving
    BY <1>12 DEF ReadFails, ReadTimeout, ReturnReply, Parse, IOException, Return, Goto,
                 TypeOK, Receiving
  <2>2. QED  BY <1>3, <2>1
<1>13. CASE CoreExits \/ CoreStarts \/ \E c \in Conns : CoreAnswers(c)
  BY <1>13 DEF CoreExits, CoreStarts, CoreAnswers, BufferInv
<1>20. QED  BY <1>4, <1>5, <1>6, <1>7, <1>8, <1>9, <1>10, <1>11, <1>12, <1>13
            DEF Next, MethodStep

SocketAndBuffers == TypeOK /\ SocketInv /\ BufferInv

LEMMA SocketAndBuffersKept ==
  ASSUME OneThread
  PROVE  /\ Init => SocketAndBuffers
         /\ SocketAndBuffers /\ [Next]_vars => SocketAndBuffers'
<1>1. Init => SocketAndBuffers
  BY TypeInit, SocketInit, BufferInit DEF SocketAndBuffers
<1>2. ASSUME SocketAndBuffers, [Next]_vars PROVE SocketAndBuffers'
  <2>1. TypeOK' /\ SocketInv'
    BY <1>2, TypeStep, SocketStep DEF SocketAndBuffers
  <2>2. ~crashed'
    BY <2>1 DEF SocketInv
  <2>3. QED  BY <1>2, <2>1, <2>2, BufferStep DEF SocketAndBuffers
<1>3. QED  BY <1>1, <1>2

\* One task at a time never runs into a null field or an empty mResult, whatever
\* the order of its calls, the failures and the timeouts.
THEOREM NoRuntimeException ==
  ASSUME OneThread
  PROVE  Spec => []AppSurvives
<1>1. SocketAndBuffers => AppSurvives
  BY DEF SocketAndBuffers, SocketInv, AppSurvives
<1>2. QED  BY <1>1, SocketAndBuffersKept, PTL DEF Spec

(***************************************************************************)
(* One task at a time: authorize()                                         *)
(***************************************************************************)

GrantedOnAuthorized(q) ==
  \A c \in Conns : \A i \in DOMAIN q[c] : Granted(q[c][i]) => authed[c]

LEMMA AbandonedGranted ==
  ASSUME NEW t \in Threads, NEW q \in [Conns -> Seq(Message)], GrantedOnAuthorized(q)
  PROVE  GrantedOnAuthorized(Abandoned(t, q))
<1> SUFFICES ASSUME NEW c \in Conns, NEW i \in DOMAIN Abandoned(t, q)[c],
                    Granted(Abandoned(t, q)[c][i])
             PROVE  authed[c]
  BY DEF GrantedOnAuthorized
<1>1. DOMAIN Abandoned(t, q)[c] = 1 .. Len(q[c]) /\ DOMAIN q[c] = 1 .. Len(q[c])
  BY AbandonedTyped
<1>2. Granted(q[c][i])
  BY <1>1, AbandonedTyped DEF Granted
<1>3. QED  BY <1>1, <1>2 DEF GrantedOnAuthorized

LEMMA AuthInit == Init => AuthInv
<1> SUFFICES ASSUME Init PROVE AuthInv
  OBVIOUS
<1>1. \A t \in Threads : pc[t] = "idle" /\ ret[t] = NoReturn
  BY DEF Init, Unused
<1>2. \A c \in Conns : DOMAIN replies[c] = {}
  BY DEF Init, Unused
<1>3. AuthorizeSound
  BY <1>1, ConstantsAssumption DEF AuthorizeSound, NoReturn
<1>4. QED  BY <1>1, <1>2, <1>3 DEF AuthInv, Exchanging, Receiving

\* What AuthInv says of a thread in an exchange, of the text it has read and of
\* its last result.
AuthCall(t) ==
  pc[t] \in Exchanging =>
    /\ call[t].op = "authorize" <=> call[t].req \in AuthRequests
    /\ call[t].op = "authorize" => mSocket # None

OnlyIfAuthorized(text) ==
  \A i \in DOMAIN text : Granted(text[i]) => authed[mSocket]

AuthRead(t) ==
  pc[t] \in Receiving /\ call[t].op = "authorize" =>
    /\ call[t].stream = mSocket
    /\ OnlyIfAuthorized(call[t].bytes)
    /\ OnlyIfAuthorized(mResult)

AuthResult(t) ==
  ret[t].op = "authorize" /\ ret[t].ok => mSocket # None /\ authed[mSocket]

LEMMA AuthParts ==
  AuthInv <=> /\ GrantedOnAuthorized(replies)
              /\ \A t \in Threads : /\ pc[t] # "idle" => ret[t] = NoReturn
                                    /\ AuthCall(t) /\ AuthRead(t) /\ AuthResult(t)
BY DEF AuthInv, GrantedOnAuthorized, AuthCall, AuthRead, AuthResult,
       OnlyIfAuthorized, AuthorizeSound

LEMMA AuthKept ==
  ASSUME OneThread, NEW t \in Threads,
         GrantedOnAuthorized(replies)',
         pc'[t] # "idle" => ret'[t] = NoReturn,
         AuthCall(t)', AuthRead(t)', AuthResult(t)'
  PROVE  AuthInv'
<1>1. \A u \in Threads : u = t
  BY DEF OneThread
<1>2. QED  BY <1>1 DEF AuthInv, GrantedOnAuthorized, AuthCall, AuthRead,
        AuthResult, OnlyIfAuthorized, AuthorizeSound

\* open(): the result of the last authorize is gone.
LEMMA AuthOpen ==
  ASSUME TypeOK, OneThread, AuthInv, ~crashed', NEW t \in Threads,
         \/ StartOpen(t) \/ CloseStreams(t) \/ CloseSocket(t) \/ NewSocket(t)
         \/ Connect(t) \/ Streams(t)
  PROVE  AuthInv'
<1> USE DEF coreVars, socketVars, bufferVars, historyVars
<1>1. ~RuntimeException
  BY DEF RuntimeException
<1>2. pc'[t] \notin Exchanging /\ pc'[t] \notin Receiving
  <2>1. CASE StartOpen(t)
    BY <2>1 DEF StartOpen, Goto, TypeOK, Exchanging, Receiving
  <2>2. CASE CloseStreams(t) \/ CloseSocket(t) \/ NewSocket(t)
    BY <1>1, <2>2
       DEF CloseStreams, CloseSocket, NewSocket, Goto, TypeOK, Exchanging, Receiving
  <2>3. CASE Connect(t) \/ Streams(t)
    BY <1>1, <2>3
       DEF Connect, Streams, DropSocket, Return, Goto, TypeOK, Exchanging, Receiving
  <2>4. QED  BY <2>1, <2>2, <2>3
<1>3. \/ pc'[t] = "idle" /\ ret'[t].op # "authorize"
      \/ ret'[t] = NoReturn
  <2>1. CASE StartOpen(t)
    BY <2>1 DEF StartOpen, TypeOK
  <2>2. CASE CloseStreams(t) \/ CloseSocket(t) \/ NewSocket(t)
    BY <1>1, <2>2, AuthParts DEF CloseStreams, CloseSocket, NewSocket, Running
  <2>3. CASE Connect(t) \/ Streams(t)
    <3>1. ret[t] = NoReturn
      BY <2>3, AuthParts DEF Connect, Streams, Running
    <3>2. CASE DropSocket(t)
      BY <3>1, <3>2 DEF DropSocket, Return, TypeOK
    <3>3. CASE Connect(t) /\ ~DropSocket(t)
      BY <1>1, <3>1, <3>3 DEF Connect
    <3>4. CASE Streams(t) /\ ~DropSocket(t)
      <4>1. Return(t, "open", "none", TRUE, <<>>)
        BY <1>1, <3>4 DEF Streams
      <4>2. QED  BY <4>1 DEF Return, Goto, TypeOK
    <3>5. QED  BY <2>3, <3>2, <3>3, <3>4
  <2>4. QED  BY <2>1, <2>2, <2>3
<1>4. GrantedOnAuthorized(replies)'
  <2>1. GrantedOnAuthorized(replies)
    BY AuthParts
  <2>2. \A c \in Conns : \/ replies'[c] = replies[c] /\ authed'[c] = authed[c]
                         \/ replies'[c] = <<>>
    <3>1. ASSUME NEW sockets, Closing(sockets)
          PROVE  \A c \in Conns : \/ replies'[c] = replies[c] /\ authed'[c] = authed[c]
                                  \/ replies'[c] = <<>>
      BY <3>1 DEF Closing, TypeOK
    <3>2. CASE CloseStreams(t) \/ CloseSocket(t)
      BY <1>1, <3>1, <3>2 DEF CloseStreams, CloseSocket
    <3>3. CASE NewSocket(t)
      BY <3>3 DEF NewSocket, TypeOK
    <3>4. CASE StartOpen(t) \/ Connect(t) \/ Streams(t)
      BY <1>1, <3>4 DEF StartOpen, Connect, Streams, DropSocket
    <3>5. QED  BY <3>2, <3>3, <3>4
  <2>3. QED  BY <2>1, <2>2 DEF GrantedOnAuthorized
<1>5. AuthResult(t)' /\ (pc'[t] # "idle" => ret'[t] = NoReturn)
  BY <1>3 DEF AuthResult, NoReturn
<1>6. QED  BY <1>2, <1>4, <1>5, AuthKept DEF AuthCall, AuthRead

\* The steps of a call up to its first read.
LEMMA AuthSend ==
  ASSUME TypeOK, OneThread, AuthInv, NEW t \in Threads,
         \/ StartAuthorize(t) \/ StartConnectionAlive(t)
         \/ StartCall(t)
         \/ Build(t) \/ Compose(t) \/ SendRequest(t)
  PROVE  AuthInv'
<1> USE DEF coreVars, socketVars, bufferVars, historyVars
<1>1. mSocket' = mSocket /\ authed' = authed /\ pc'[t] \notin Receiving
  <2>1. CASE StartAuthorize(t) \/ StartConnectionAlive(t) \/ StartCall(t)
    BY <2>1 DEF StartAuthorize, StartConnectionAlive, StartIfConnected, StartCall,
                Begin, Return, Goto, TypeOK, Receiving
  <2>2. CASE Build(t) \/ Compose(t)
    BY <2>2 DEF Build, Compose, Goto, TypeOK, Receiving
  <2>3. CASE SendRequest(t)
    BY <2>3 DEF SendRequest, IOException, Return, Goto, TypeOK, Receiving
  <2>4. QED  BY <2>1, <2>2, <2>3
<1>2. GrantedOnAuthorized(replies)'
  <2>1. GrantedOnAuthorized(replies) /\ replies \in [Conns -> Seq(Message)]
    BY AuthParts DEF TypeOK
  <2>2. replies' = replies \/ replies' = Abandoned(t, replies)
    BY DEF StartAuthorize, StartConnectionAlive, StartIfConnected, StartCall, Begin,
           Build, Compose, SendRequest, IOException
  <2>3. GrantedOnAuthorized(Abandoned(t, replies))
    BY <2>1, AbandonedGranted
  <2>4. QED  BY <1>1, <2>1, <2>2, <2>3 DEF GrantedOnAuthorized
<1>3. AuthRead(t)'
  BY <1>1 DEF AuthRead
<1>4. (pc'[t] # "idle" => ret'[t] = NoReturn) /\ AuthCall(t)' /\ AuthResult(t)'
  <2>1. CASE StartAuthorize(t)
    <3>1. CASE isConnected
      <4>1. "auth1" \notin Commands
        BY ConstantsAssumption
      <4>2. /\ pc'[t] = "send" /\ ret'[t] = NoReturn
            /\ call'[t] = NewCall("authorize", "auth1")
        BY <2>1, <3>1, <4>1 DEF StartAuthorize, StartIfConnected, Begin, Goto, TypeOK
      <4>3. QED  BY <1>1, <3>1, <4>2
                 DEF isConnected, NewCall, NoReturn, AuthRequests, AuthCall, AuthResult
    <3>2. CASE ~isConnected
      BY <2>1, <3>2 DEF StartAuthorize, StartIfConnected, Return, Goto, TypeOK,
                        AuthCall, AuthResult, Exchanging, NoReturn
    <3>3. QED  BY <3>1, <3>2
  <2>2. ASSUME NEW op, NEW req \in Queries \cup Commands, op # "authorize",
               Begin(t, op, req)
        PROVE  /\ pc'[t] # "idle" => ret'[t] = NoReturn
               /\ AuthCall(t)' /\ AuthResult(t)'
    <3>1. req \notin AuthRequests
      BY ConstantsAssumption DEF AuthRequests
    <3>2. ret'[t] = NoReturn /\ call'[t] = NewCall(op, req)
      BY <2>2 DEF Begin, TypeOK
    <3>3. QED  BY <2>2, <3>1, <3>2 DEF NewCall, NoReturn, AuthCall, AuthResult
  <2>3. CASE StartConnectionAlive(t)
    <3>1. CASE isConnected
      BY <2>2, <2>3, <3>1, ConstantsAssumption
         DEF StartConnectionAlive, StartIfConnected
    <3>2. CASE ~isConnected
      BY <2>3, <3>2 DEF StartConnectionAlive, StartIfConnected, Return, Goto, TypeOK,
                        AuthCall, AuthResult, Exchanging, NoReturn
    <3>3. QED  BY <3>1, <3>2
  <2>4. CASE StartCall(t)
    <3>1. PICK req \in Calls[t] \cap (Queries \cup Commands) : Begin(t, req, req)
      BY <2>4 DEF StartCall
    <3>2. req \in Queries \cup Commands /\ req # "authorize"
      BY ConstantsAssumption
    <3>3. QED  BY <2>2, <3>1, <3>2
  <2>5. CASE Build(t) \/ Compose(t)
    <3>1. /\ ret'[t] = NoReturn /\ call'[t] = call[t] /\ AuthCall(t)
          /\ pc[t] \in Exchanging
      BY <2>5, AuthParts DEF Build, Compose, Running, Exchanging
    <3>2. QED  BY <1>1, <3>1 DEF AuthCall, AuthResult, NoReturn
  <2>6. CASE SendRequest(t)
    <3>1. ret[t] = NoReturn /\ AuthCall(t) /\ pc[t] \in Exchanging
      BY <2>6, AuthParts DEF SendRequest, Running, Exchanging
    <3>2. CASE IOException(t)
      BY <3>2 DEF IOException, Return, Goto, TypeOK, AuthCall, AuthResult, Exchanging,
                  NoReturn
    <3>3. CASE ~IOException(t)
      <4>1. ret'[t] = NoReturn /\ call'[t] = call[t]
        BY <2>6, <3>1, <3>3 DEF SendRequest
      <4>2. QED  BY <1>1, <3>1, <4>1 DEF AuthCall, AuthResult, NoReturn
    <3>4. QED  BY <3>2, <3>3
  <2>7. QED  BY <2>1, <2>3, <2>4, <2>5, <2>6
<1>5. QED  BY <1>2, <1>3, <1>4, AuthKept

\* authorize returns true only on a granted reply in the text it has read.
LEMMA AuthParse ==
  ASSUME TypeOK, NEW t \in Threads, pc[t] = "result", ret[t] = NoReturn,
         AuthCall(t), Parse(t, mResult),
         mSocket' = mSocket, authed' = authed,
         call[t].op = "authorize" => OnlyIfAuthorized(mResult)
  PROVE  /\ pc'[t] \notin Receiving
         /\ pc'[t] # "idle" => ret'[t] = NoReturn
         /\ AuthCall(t)' /\ AuthResult(t)'
<1> DEFINE text == mResult
<1>1. call[t].op = "authorize" <=> call[t].req \in AuthRequests
  BY DEF AuthCall, Exchanging
<1>2. CASE call[t].req = "auth1" /\ WellFormed(text)
  <2>1. /\ pc'[t] = "build" /\ ret'[t] = NoReturn
        /\ call'[t].op = "authorize" /\ call'[t].req = "auth2"
    BY <1>2 DEF Parse, Goto, TypeOK
  <2>2. QED  BY <1>1, <1>2, <2>1
             DEF AuthCall, AuthResult, AuthRequests, NoReturn, Exchanging, Receiving
<1>3. CASE ~(call[t].req = "auth1" /\ WellFormed(text))
  <2> DEFINE ok == call[t].req # "auth1" /\ Accepts(t, text)
  <2>1. pc'[t] = "idle" /\ (ret'[t] = NoReturn \/ (ok /\ ret'[t].op = call[t].op))
    <3>1. Return(t, call[t].op, call[t].req, ok, text)
      BY <1>3 DEF Parse
    <3> HIDE DEF ok
    <3>2. pc'[t] = "idle"
      BY <3>1 DEF Return, Goto, TypeOK
    <3>3. CASE ok
      BY <3>1, <3>2, <3>3 DEF Return, TypeOK
    <3>4. CASE ~ok
      BY <3>1, <3>2, <3>4 DEF Return, TypeOK
    <3>5. QED  BY <3>3, <3>4
  <2>2. AuthResult(t)'
    <3> SUFFICES ASSUME ret'[t].op = "authorize", ret'[t].ok
                 PROVE  mSocket # None /\ authed[mSocket]
      BY DEF AuthResult
    <3>1. call[t].op = "authorize" /\ call[t].req = "auth2" /\ Accepts(t, text)
      BY <1>1, <2>1 DEF AuthRequests, NoReturn
    <3>2. call[t].op \notin Lenient \cup Unread /\ call[t].req \notin Simple
      BY <3>1, ConstantsAssumption
    <3>3. Len(text) = 1 /\ Granted(text[1])
      BY <3>1, <3>2 DEF Accepts, WellFormed, Fits, Granted
    <3>4. 1 \in DOMAIN text
      BY <3>3 DEF TypeOK, Text
    <3>5. QED  BY <3>1, <3>3, <3>4 DEF AuthCall, Exchanging, OnlyIfAuthorized
  <2>3. QED  BY <2>1, <2>2 DEF AuthCall, Exchanging, Receiving
<1>4. QED  BY <1>2, <1>3

LEMMA AuthStartReceive ==
  ASSUME TypeOK, SocketInv, OneThread, AuthInv, NEW t \in Threads, StartReceive(t)
  PROVE  AuthInv'
<1> USE DEF coreVars, socketVars, bufferVars, historyVars
<1>1. /\ pc[t] = "receive" /\ pc'[t] = "read" /\ mResult' = <<>> /\ ret' = ret
      /\ UNCHANGED <<replies, authed, mSocket>>
      /\ call'[t].op = call[t].op /\ call'[t].req = call[t].req
      /\ call'[t].stream = mInput /\ call'[t].bytes = <<>>
  BY DEF StartReceive, Running, Goto, Reading, TypeOK
<1>2. ret[t] = NoReturn /\ AuthCall(t) /\ AuthResult(t) /\ GrantedOnAuthorized(replies)
  BY <1>1, AuthParts
<1>3. AuthCall(t)'
  BY <1>1, <1>2 DEF AuthCall, Exchanging
<1>4. AuthRead(t)'
  <2> SUFFICES ASSUME call[t].op = "authorize" PROVE mInput = mSocket
    BY <1>1 DEF AuthRead, OnlyIfAuthorized
  <2>1. mSocket # None
    BY <1>1, <1>2 DEF AuthCall, Exchanging
  <2>2. \A u \in Threads : pc[u] \notin Opening
    BY <1>1 DEF OneThread, Opening
  <2>3. QED  BY <2>1, <2>2 DEF SocketInv, Connected
<1>5. GrantedOnAuthorized(replies)' /\ AuthResult(t)'
  BY <1>1, <1>2 DEF GrantedOnAuthorized, AuthResult
<1>6. QED  BY <1>1, <1>2, <1>3, <1>4, <1>5, AuthKept

\* What is read comes from the connection in use, as no other has anything.
LEMMA AuthReadReply ==
  ASSUME TypeOK, SocketInv, OneThread, AuthInv, NEW t \in Threads, ReadReply(t)
  PROVE  AuthInv'
<1> USE DEF coreVars, socketVars, bufferVars, historyVars
<1> DEFINE c == call[t].stream
           first(n) == SubSeq(replies[c], 1, n)
           rest(n) == SubSeq(replies[c], n + 1, Len(replies[c]))
<1>1. PICK n \in 1 .. Len(replies[c]) :
        /\ call' = [call EXCEPT ![t] = Reading(t, c, first(n))]
        /\ replies' = [replies EXCEPT ![c] = rest(n)]
  BY DEF ReadReply
<1>2. /\ c \in Conns /\ replies[c] \in Seq(Message) /\ pc[t] = "read"
      /\ UNCHANGED <<authed, mSocket, mResult, ret>> /\ pc'[t] = "append"
  BY DEF ReadReply, Readable, Running, Goto, TypeOK, CallRecord
<1>3. /\ GrantedOnAuthorized(replies) /\ ret[t] = NoReturn
      /\ AuthCall(t) /\ AuthRead(t) /\ AuthResult(t)
  BY <1>2, AuthParts
<1>4. /\ Len(first(n)) = n /\ first(n) \in Seq(Message) /\ n \in Nat
      /\ \A i \in 1 .. n : first(n)[i] = replies[c][i]
  BY <1>1, <1>2, SubSeqProperties
<1>5. c = mSocket
  <2>1. replies[c] # <<>>
    BY <1>1
  <2>2. QED  BY <1>2, <2>1 DEF SocketInv
<1>6. call'[t] = Reading(t, c, first(n))
  BY <1>1 DEF TypeOK
<1>7. OnlyIfAuthorized(first(n))
  <2> SUFFICES ASSUME NEW i \in DOMAIN first(n), Granted(first(n)[i])
               PROVE  authed[mSocket]
    BY DEF OnlyIfAuthorized
  <2>1. i \in 1 .. n /\ i \in DOMAIN replies[c]
    BY <1>1, <1>2, <1>4
  <2>2. Granted(replies[c][i])
    BY <1>4, <2>1
  <2>3. QED  BY <1>2, <1>3, <1>5, <2>1, <2>2 DEF GrantedOnAuthorized
<1> HIDE DEF first
<1>8. AuthCall(t)' /\ AuthRead(t)' /\ AuthResult(t)'
  <2>1. AuthCall(t)'
    BY <1>2, <1>3, <1>6 DEF AuthCall, Reading, Exchanging
  <2>2. AuthRead(t)'
    BY <1>2, <1>3, <1>5, <1>6, <1>7 DEF AuthRead, OnlyIfAuthorized, Reading, Receiving
  <2>3. AuthResult(t)'
    BY <1>2, <1>3 DEF AuthResult
  <2>4. QED  BY <2>1, <2>2, <2>3
<1>9. GrantedOnAuthorized(replies)'
  <2> SUFFICES ASSUME NEW d \in Conns, NEW i \in DOMAIN replies'[d],
                      Granted(replies'[d][i])
               PROVE  authed[d]
    BY <1>2 DEF GrantedOnAuthorized
  <2>1. CASE d # c
    BY <1>1, <1>3, <2>1 DEF GrantedOnAuthorized, TypeOK
  <2>2. CASE d = c
    <3>1. replies'[d] = rest(n)
      BY <1>1, <1>2, <2>2 DEF TypeOK
    <3>2. n + 1 \in 1 .. Len(replies[c]) + 1 /\ Len(replies[c]) \in Nat
      BY <1>1, <1>2
    <3>3. /\ rest(n) \in Seq(Message) /\ Len(rest(n)) = Len(replies[c]) - n
          /\ \A j \in 1 .. Len(replies[c]) - n : rest(n)[j] = replies[c][n + 1 + j - 1]
      <4>1. Len(replies[c]) - (n + 1) + 1 = Len(replies[c]) - n
        BY <3>2
      <4>2. Len(replies[c]) \in n + 1 - 1 .. Len(replies[c])
        BY <1>4, <3>2
      <4>3. QED  BY <1>1, <1>2, <3>2, <4>1, <4>2, SubSeqProperties
    <3>4. i \in 1 .. Len(replies[c]) - n
      BY <3>1, <3>3
    <3>5. n + 1 + i - 1 \in DOMAIN replies[c]
      BY <1>2, <1>4, <3>2, <3>4
    <3>6. Granted(replies[c][n + 1 + i - 1])
      BY <3>1, <3>3, <3>4
    <3>7. QED  BY <1>2, <1>3, <2>2, <3>5, <3>6 DEF GrantedOnAuthorized
  <2>3. QED  BY <2>1, <2>2
<1>10. QED  BY <1>2, <1>3, <1>8, <1>9, AuthKept

\* The steps from there to the result: the text is what has been read.
LEMMA AuthReceive ==
  ASSUME SocketAndBuffers, OneThread, AuthInv, ~crashed', NEW t \in Threads,
         AppendReply(t) \/ TrimReply(t) \/ ReadEnd(t)
  PROVE  AuthInv'
<1> USE DEF coreVars, socketVars, bufferVars, historyVars, SocketAndBuffers
<1>1. /\ UNCHANGED <<replies, authed, mSocket, ret>>
      /\ pc[t] \in Receiving /\ pc'[t] \in Receiving
      /\ pc[t] \in Exchanging /\ pc'[t] \in Exchanging
      /\ call'[t].op = call[t].op /\ call'[t].req = call[t].req
  <2>1. ~RuntimeException
    BY DEF RuntimeException
  <2>2. QED  BY <2>1 DEF AppendReply, TrimReply, ReadEnd, Running, Goto, Reading,
                         TypeOK, Receiving, Exchanging
<1>2. /\ GrantedOnAuthorized(replies) /\ ret[t] = NoReturn
      /\ AuthCall(t) /\ AuthRead(t) /\ AuthResult(t)
  BY <1>1, AuthParts DEF Receiving
<1>3. GrantedOnAuthorized(replies)' /\ AuthCall(t)' /\ AuthResult(t)'
  BY <1>1, <1>2 DEF GrantedOnAuthorized, AuthCall, AuthResult
<1>4. AuthRead(t)'
  <2> SUFFICES ASSUME call[t].op = "authorize"
               PROVE  /\ call'[t].stream = mSocket
                      /\ OnlyIfAuthorized(call'[t].bytes)
                      /\ OnlyIfAuthorized(mResult')
    BY <1>1 DEF AuthRead, OnlyIfAuthorized
  <2>1. /\ call[t].stream = mSocket
        /\ OnlyIfAuthorized(call[t].bytes) /\ OnlyIfAuthorized(mResult)
    BY <1>1, <1>2 DEF AuthRead
  <2>2. CASE ReadEnd(t)
    BY <2>1, <2>2 DEF ReadEnd
  <2>3. CASE TrimReply(t)
    <3>1. /\ mResult # <<>> /\ mResult[Len(mResult)] = End /\ mResult \in Text
          /\ UNCHANGED call
      BY <2>3 DEF TrimReply, Running, BufferInv, RuntimeException, TypeOK
    <3>2. mResult' = SubSeq(mResult, 1, Len(mResult) - 1)
      BY <2>3, <3>1 DEF TrimReply
    <3>3. \A i \in DOMAIN mResult' : i \in DOMAIN mResult /\ mResult'[i] = mResult[i]
      <4>1. Len(mResult) \in Nat /\ Len(mResult) # 0
        BY <3>1 DEF Text
      <4>2. 1 \in 1 .. Len(mResult) + 1 /\ Len(mResult) - 1 \in 0 .. Len(mResult)
        BY <4>1
      <4>3. /\ Len(mResult') = Len(mResult) - 1 /\ mResult' \in Text
            /\ \A i \in 1 .. Len(mResult) - 1 : mResult'[i] = mResult[1 + i - 1]
        <5>1. Len(mResult) - 1 \in 1 - 1 .. Len(mResult)
          BY <4>2
        <5>2. Len(mResult) - 1 - 1 + 1 = Len(mResult) - 1
          BY <4>1
        <5>3. QED  BY <3>1, <3>2, <4>2, <5>1, <5>2, SubSeqProperties DEF Text
      <4>4. \A i \in 1 .. Len(mResult) - 1 : 1 + i - 1 = i /\ i \in 1 .. Len(mResult)
        BY <4>1
      <4>5. QED  BY <3>1, <4>1, <4>3, <4>4 DEF Text
    <3>4. QED  BY <2>1, <3>1, <3>3 DEF OnlyIfAuthorized
  <2>4. CASE AppendReply(t)
    <3>1. /\ mReadBuffer = call[t].bytes /\ mReadBuffer \in Seq(Message)
          /\ mReadBuffer # <<>> /\ mResult = <<>>
      BY <2>4 DEF AppendReply, Running, BufferInv
    <3>2. mReadBuffer # <<Broken>>
      <4>1. mReadBuffer[1] \in Message
        BY <3>1, EmptySeq
      <4>2. QED  BY <4>1, TextsTyped
    <3>3. /\ mResult' = mResult \o Append(mReadBuffer, End)
          /\ call'[t] = Reading(t, call[t].stream, <<>>)
      BY <2>4, <3>1, <3>2 DEF AppendReply, TypeOK
    <3>4. mResult' = Append(mReadBuffer, End)
      <4>1. Append(mReadBuffer, End) \in Text
        BY <3>1, TextsTyped DEF Text
      <4>2. QED  BY <3>1, <3>3, <4>1 DEF Text
    <3>5. OnlyIfAuthorized(mResult')
      <4> SUFFICES ASSUME NEW i \in DOMAIN mResult', Granted(mResult'[i])
                   PROVE  authed[mSocket]
        BY DEF OnlyIfAuthorized
      <4>1. i \in 1 .. Len(mReadBuffer) + 1 /\ Len(mReadBuffer) \in Nat
        BY <3>1, <3>4
      <4>2. i # Len(mReadBuffer) + 1
        <5>1. mResult'[Len(mReadBuffer) + 1] = End
          BY <3>1, <3>4
        <5>2. ~Granted(End)
          BY DEF Granted, End
        <5>3. QED  BY <5>1, <5>2
      <4>3. i \in DOMAIN mReadBuffer /\ mResult'[i] = mReadBuffer[i]
        BY <3>1, <3>4, <4>1, <4>2
      <4>4. QED  BY <2>1, <3>1, <4>3 DEF OnlyIfAuthorized
    <3>6. call'[t].stream = mSocket /\ call'[t].bytes = <<>>
      BY <2>1, <3>3 DEF Reading
    <3>7. QED  BY <3>5, <3>6 DEF OnlyIfAuthorized
  <2>5. QED  BY <2>2, <2>3, <2>4
<1>5. QED  BY <1>1, <1>2, <1>3, <1>4, AuthKept

LEMMA AuthReturn ==
  ASSUME TypeOK, OneThread, AuthInv, NEW t \in Threads,
         ReadFails(t) \/ ReadTimeout(t) \/ ReturnReply(t)
  PROVE  AuthInv'
<1> USE DEF coreVars, socketVars, bufferVars, historyVars
<1>1. /\ UNCHANGED <<authed, mSocket>> /\ replies' = Abandoned(t, replies)
      /\ pc[t] \in {"read", "result"}
  BY DEF ReadFails, ReadTimeout, ReturnReply, IOException, Running
<1>2. /\ GrantedOnAuthorized(replies) /\ replies \in [Conns -> Seq(Message)]
      /\ ret[t] = NoReturn /\ AuthCall(t) /\ AuthRead(t)
  BY <1>1, AuthParts DEF TypeOK
<1>3. GrantedOnAuthorized(replies)'
  <2>1. GrantedOnAuthorized(Abandoned(t, replies))
    BY <1>2, AbandonedGranted
  <2>2. QED  BY <1>1, <2>1 DEF GrantedOnAuthorized
<1>4. /\ pc'[t] \notin Receiving
      /\ pc'[t] # "idle" => ret'[t] = NoReturn
      /\ AuthCall(t)' /\ AuthResult(t)'
  <2>1. CASE ReturnReply(t)
    <3>1. pc[t] = "result" /\ Parse(t, mResult)
      BY <2>1 DEF ReturnReply, Running
    <3>2. call[t].op = "authorize" => OnlyIfAuthorized(mResult)
      BY <1>2, <3>1 DEF AuthRead, Receiving
    <3>3. QED  BY <1>1, <1>2, <3>1, <3>2, AuthParse
  <2>2. CASE ReadFails(t) \/ ReadTimeout(t)
    <3>1. pc'[t] = "idle" /\ ret'[t] = NoReturn
      BY <2>2 DEF ReadFails, ReadTimeout, IOException, Return, Goto, TypeOK
    <3>2. QED  BY <3>1 DEF AuthCall, AuthResult, Exchanging, Receiving, NoReturn
  <2>3. QED  BY <2>1, <2>2
<1>5. QED  BY <1>3, <1>4, AuthKept DEF AuthRead

LEMMA AuthCore ==
  ASSUME TypeOK, AuthInv, CoreExits \/ CoreStarts \/ \E c \in Conns : CoreAnswers(c)
  PROVE  AuthInv'
<1> USE DEF socketVars, bufferVars, historyVars
<1>1. CASE CoreExits \/ CoreStarts
  BY <1>1 DEF CoreExits, CoreStarts, AuthInv, AuthorizeSound
<1>2. ASSUME NEW c \in Conns, CoreAnswers(c) PROVE AuthInv'
  <2>1. PICK ok \in BOOLEAN :
          /\ authed' = [authed EXCEPT ![c] = @ \/ (Head(requests[c]).req = "auth2" /\ ok)]
          /\ replies' = [replies EXCEPT ![c] =
               Append(@, [req |-> Head(requests[c]).req, by |-> Head(requests[c]).by,
                          ok |-> ok])]
    BY <1>2 DEF CoreAnswers
  <2>2. /\ UNCHANGED <<mSocket, mResult, pc, call, ret>>
        /\ \A d \in Conns : authed[d] => authed'[d]
        /\ mSocket # None => mSocket \in Conns
    BY <1>2, <2>1 DEF CoreAnswers, TypeOK
  <2>3. GrantedOnAuthorized(replies)'
    <3> SUFFICES ASSUME NEW d \in Conns, NEW i \in DOMAIN replies'[d],
                        Granted(replies'[d][i])
                 PROVE  authed'[d]
      BY DEF GrantedOnAuthorized
    <3>1. replies[d] \in Seq(Message) /\ GrantedOnAuthorized(replies)
      BY AuthParts DEF TypeOK
    <3>2. CASE d # c \/ i \in DOMAIN replies[d]
      BY <2>1, <2>2, <3>1, <3>2 DEF GrantedOnAuthorized, TypeOK
    <3>3. CASE d = c /\ i \notin DOMAIN replies[d]
      <4>1. replies'[d][i] = [req |-> Head(requests[c]).req,
                              by |-> Head(requests[c]).by, ok |-> ok]
        <5>1. replies'[c] = Append(replies[c], [req |-> Head(requests[c]).req,
                              by |-> Head(requests[c]).by, ok |-> ok])
          BY <2>1 DEF TypeOK
        <5>2. i \in 1 .. Len(replies[c]) + 1 /\ i \notin 1 .. Len(replies[c])
              /\ Len(replies[c]) \in Nat
          BY <3>1, <3>3, <5>1
        <5>3. i = Len(replies[c]) + 1
          BY <5>2
        <5>4. QED  BY <3>1, <3>3, <5>1, <5>3
      <4>2. Head(requests[c]).req = "auth2" /\ ok
        BY <4>1 DEF Granted
      <4>3. QED  BY <2>1, <3>3, <4>2 DEF TypeOK
    <3>4. QED  BY <3>2, <3>3
  <2>4. \A t \in Threads : AuthCall(t)' /\ AuthRead(t)' /\ AuthResult(t)'
    <3> SUFFICES ASSUME NEW t \in Threads PROVE AuthCall(t)' /\ AuthRead(t)' /\ AuthResult(t)'
      OBVIOUS
    <3>1. AuthCall(t) /\ AuthRead(t) /\ AuthResult(t)
      BY AuthParts
    <3>2. AuthCall(t)'
      BY <2>2, <3>1 DEF AuthCall
    <3>3. AuthRead(t)'
      <4>1. call[t].op = "authorize" /\ pc[t] \in Receiving => mSocket \in Conns
        BY <2>2, <3>1 DEF AuthCall, Exchanging, Receiving
      <4>2. QED  BY <2>2, <3>1, <4>1 DEF AuthRead, OnlyIfAuthorized
    <3>4. AuthResult(t)'
      BY <2>2, <3>1 DEF AuthResult
    <3>5. QED  BY <3>2, <3>3, <3>4
  <2>5. \A t \in Threads : pc'[t] # "idle" => ret'[t] = NoReturn
    BY <2>2, AuthParts
  <2>6. QED  BY <2>3, <2>4, <2>5 DEF AuthInv, GrantedOnAuthorized, AuthCall,
                AuthRead, AuthResult, OnlyIfAuthorized, AuthorizeSound
<1>3. QED  BY <1>1, <1>2

LEMMA AuthStep ==
  ASSUME SocketAndBuffers, OneThread, AuthInv, [Next]_vars, ~crashed'
  PROVE  AuthInv'
<1>1. CASE UNCHANGED vars
  BY <1>1 DEF vars, AuthInv, AuthorizeSound
<1>2. CASE Next
  BY <1>2, AuthOpen, AuthSend, AuthStartReceive, AuthReadReply, AuthReceive,
     AuthReturn, AuthCore DEF Next, MethodStep, SocketAndBuffers
<1>3. QED  BY <1>1, <1>2

\* With one task at a time, a successful authorize() means, until the next call,
\* that the core client has authorized the connection in use, whatever late
\* replies to earlier calls arrive on it.
THEOREM AuthorizeIsSound ==
  ASSUME OneThread
  PROVE  Spec => []AuthorizeSound
<1>1. Init => SocketAndBuffers /\ AuthInv
  BY SocketAndBuffersKept, AuthInit
<1>2. SocketAndBuffers /\ AuthInv /\ [Next]_vars => (SocketAndBuffers /\ AuthInv)'
  <2> SUFFICES ASSUME SocketAndBuffers, AuthInv, [Next]_vars
               PROVE  SocketAndBuffers' /\ AuthInv'
    OBVIOUS
  <2>1. SocketAndBuffers'
    BY SocketAndBuffersKept
  <2>2. ~crashed'
    BY <2>1 DEF SocketAndBuffers, SocketInv
  <2>3. QED  BY <2>1, <2>2, AuthStep
<1>3. AuthInv => AuthorizeSound
  BY DEF AuthInv
<1>4. QED  BY <1>1, <1>2, <1>3, PTL DEF Spec
=============================================================================
