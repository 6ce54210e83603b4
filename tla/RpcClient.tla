------------------------------ MODULE RpcClient ------------------------------
(***************************************************************************)
(* The GUI RPC connection of the Android apps, rpc/RpcClient.java (the     *)
(* same file in BOINC_Client-Manager_Bundle and BOINC_Manager).            *)
(*                                                                         *)
(* One RpcClient object is a field of the monitor service and every        *)
(* AsyncTask of the service calls it; no method is synchronized.  Its      *)
(* fields mSocket, mInput, mOutput, mRequest and mResult are therefore     *)
(* shared by all Threads, and a public method is a sequence of steps that  *)
(* the steps of other threads may separate.  A request is written to the   *)
(* connection of mOutput, and the reply to it is whatever arrives next on  *)
(* the connection of mInput: nothing in the protocol ties a reply to its   *)
(* request but the order on the connection.                                *)
(*                                                                         *)
(* The BOINC core client at the other end is external: it answers the      *)
(* requests of a connection in order, may take arbitrarily long, and may   *)
(* exit and start again at any time.                                       *)
(*                                                                         *)
(* Data abstraction.  A request or reply on the wire is a record:          *)
(*   req  the request it is, or answers;                                   *)
(*   by   the thread whose call in progress sent it, None once that call   *)
(*        has returned (history: it is not on the wire);                   *)
(*   ok   for a reply, that the core client granted the request; for an    *)
(*        auth2 request, that its hash is the right one.                   *)
(* mReadBuffer and mResult hold sequences of replies, a \003 that is still *)
(* in the text being an element of its own (End).  A reply arrives whole   *)
(* and is never split between two readers, and a call of a StringBuilder   *)
(* method is one step.                                                     *)
(***************************************************************************)
EXTENDS Naturals, Sequences

CONSTANTS
  Threads,        \* tasks that run at the same time and share the RpcClient
  Calls,          \* per thread: the methods it calls, a query or command being
                  \* named like its request
  Conns,          \* sockets; one is used again once nothing refers to it
  Queries,        \* requests sent as a string of the call's own
  Commands,       \* requests composed in mRequest
  Lenient,        \* those whose parser makes an object of any reply
  Simple,         \* those whose parser looks for the element <success/>
  Unread,         \* those that read a reply and do not look at it
  TimeoutsOccur,  \* whether a reply may take longer than READ_TIMEOUT
  MaxQueue,       \* bound: a call starts below this many pending messages
  None

AliveRequest == "get_cc_status"
AuthRequests == {"auth1", "auth2"}
Requests     == Queries \cup Commands \cup AuthRequests
Ops          == {"open", "authorize", "connectionAlive"}
                  \cup Queries \cup Commands
Garbled      == "garbled"

\* What is in a text besides replies: a \003, and a part that is not XML.
End    == [req |-> "end", by |-> None, ok |-> FALSE]
Broken == [req |-> "broken", by |-> None, ok |-> FALSE]

ASSUME ConstantsAssumption ==
  /\ Threads # {} /\ Calls \in [Threads -> SUBSET Ops]
  /\ AliveRequest \in Queries
  /\ Lenient \cup Simple \cup Unread \subseteq Queries \cup Commands
  /\ Lenient \cap Simple = {} /\ Unread \cap (Lenient \cup Simple) = {}
  /\ Queries \cap Commands = {}
  /\ (Queries \cup Commands) \cap
       {"open", "authorize", "connectionAlive",
        "auth1", "auth2", "garbled", "end",
        "broken", "none"} = {}
  /\ TimeoutsOccur \in BOOLEAN
  /\ MaxQueue \in Nat \ {0}
  /\ None \notin Threads \cup Conns \cup Requests

VARIABLES
  up,         \* a core client listens on the GUI RPC port
  local,      \* our end of a socket: "new", "open" or "closed"
  peer,       \* whether the core client's end of a socket is there
  authed,     \* whether the core client has authorized a connection
  requests,   \* requests on their way to the core client, per connection
  replies,    \* replies that can be read, per connection
  mSocket, mInput, mOutput,
  mRequest,   \* the request composed in the shared StringBuilder
  mReadBuffer,\* the bytes of the last read; <<>> when no thread needs them
  mResult,    \* the replies collected in the shared StringBuilder
  pc,         \* per thread: the next step of the method it is in
  call,       \* per thread: the local variables of that method
  ret,        \* per thread: what the last method returned
  timedOut,   \* history: a read has timed out on this connection, still open
  crashed     \* an uncaught exception has killed the app process

coreVars   == <<up, peer, authed>>
socketVars == <<local, mSocket, mInput, mOutput>>
bufferVars == <<mRequest, mReadBuffer, mResult>>
historyVars == <<timedOut, crashed>>
vars == <<up, local, peer, authed, requests, replies, mSocket, mInput,
          mOutput, mRequest, mReadBuffer, mResult, pc, call, ret, timedOut,
          crashed>>

Message == [req : Requests \cup {Garbled}, by : Threads \cup {None}, ok : BOOLEAN]
Text    == Seq(Message \cup {End, Broken})

PCs == {"idle", "closeStreams", "closeSocket", "newSocket", "connect", "streams",
        "build", "compose", "send", "receive", "read", "append", "trim", "result"}

\* The steps of a method that exchanges a request and a reply, and those of
\* them that use mResult.
Exchanging == {"build", "compose", "send", "receive", "read", "append", "trim",
               "result"}
Receiving  == {"read", "append", "trim", "result"}

CallRecord   == [op : Ops \cup {"none"}, req : Requests \cup {"none"},
                 nonce : BOOLEAN, stream : Conns \cup {None}, bytes : Text]
ReturnRecord == [op : Ops \cup {"none"}, req : Requests \cup {"none"},
                 ok : BOOLEAN, from : Text]

NewCall(op, req) ==
  [op |-> op, req |-> req, nonce |-> FALSE, stream |-> None, bytes |-> <<>>]
Reading(t, stream, bytes) ==
  [op |-> call[t].op, req |-> call[t].req, nonce |-> call[t].nonce,
   stream |-> stream, bytes |-> bytes]
NoCall   == NewCall("none", "none")
NoReturn == [op |-> "none", req |-> "none", ok |-> FALSE, from |-> <<>>]

\* Type invariant: the shared fields, the two queues of every connection and
\* the locals of every call hold what RpcClient's fields and methods can hold.
TypeOK ==
  /\ up \in BOOLEAN
  /\ local \in [Conns -> {"new", "open", "closed"}]
  /\ peer \in [Conns -> BOOLEAN]
  /\ authed \in [Conns -> BOOLEAN]
  /\ requests \in [Conns -> Seq(Message)]
  /\ replies \in [Conns -> Seq(Message)]
  /\ mSocket \in Conns \cup {None}
  /\ mInput \in Conns \cup {None}
  /\ mOutput \in Conns \cup {None}
  /\ mRequest \in Requests \cup {Garbled}
  /\ mReadBuffer \in Text
  /\ mResult \in Text
  /\ pc \in [Threads -> PCs]
  /\ call \in [Threads -> CallRecord]
  /\ \A t \in Threads : pc[t] \in Exchanging => call[t].req \in Requests
  /\ ret \in [Threads -> ReturnRecord]
  /\ timedOut \in [Conns -> BOOLEAN]
  /\ crashed \in BOOLEAN

\* What a process that has not used the RpcClient has, and one that has ended.
Unused ==
  [local |-> [c \in Conns |-> "closed"], flags |-> [c \in Conns |-> FALSE],
   queues |-> [c \in Conns |-> <<>>], pc |-> [t \in Threads |-> "idle"],
   call |-> [t \in Threads |-> NoCall], ret |-> [t \in Threads |-> NoReturn]]

Init ==
  /\ up \in BOOLEAN
  /\ local = Unused.local
  /\ peer = Unused.flags
  /\ authed = Unused.flags
  /\ requests = Unused.queues
  /\ replies = Unused.queues
  /\ mSocket = None /\ mInput = None /\ mOutput = None
  /\ mRequest = Garbled
  /\ mReadBuffer = <<>>
  /\ mResult = <<>>
  /\ pc = Unused.pc
  /\ call = Unused.call
  /\ ret = Unused.ret
  /\ timedOut = Unused.flags
  /\ crashed = FALSE

-----------------------------------------------------------------------------
(* Steps shared by the methods *)

\* Socket.isConnected() stays true after either end has closed the socket.
isConnected == mSocket # None /\ local[mSocket] # "new"

Goto(t, label) == pc' = [pc EXCEPT ![t] = label]

\* What a call leaves behind on the connections no longer belongs to it.
Abandoned(t, queues) ==
  [c \in Conns |->
    [i \in DOMAIN queues[c] |->
      IF queues[c][i].by = t
        THEN [req |-> queues[c][i].req, by |-> None, ok |-> queues[c][i].ok]
        ELSE queues[c][i]]]

Return(t, op, req, ok, text) ==
  /\ Goto(t, "idle")
  /\ ret' = [ret EXCEPT ![t] =
       IF ok THEN [op |-> op, req |-> req, ok |-> TRUE, from |-> text]
             ELSE NoReturn]
  /\ call' = [call EXCEPT ![t] = NoCall]

\* catch (IOException e): the method returns null or false.
IOException(t) ==
  /\ Return(t, call[t].op, call[t].req, FALSE, <<>>)
  /\ requests' = Abandoned(t, requests)
  /\ replies' = Abandoned(t, replies)

\* A NullPointerException or a StringIndexOutOfBoundsException is caught
\* nowhere: it ends the process, its threads and its connections.
RuntimeException ==
  /\ crashed' = TRUE
  /\ local' = Unused.local
  /\ peer' = Unused.flags
  /\ authed' = Unused.flags
  /\ requests' = Unused.queues
  /\ replies' = Unused.queues
  /\ mSocket' = None /\ mInput' = None /\ mOutput' = None
  /\ mRequest' = Garbled
  /\ mReadBuffer' = <<>>
  /\ mResult' = <<>>
  /\ pc' = Unused.pc
  /\ call' = Unused.call
  /\ ret' = Unused.ret
  /\ timedOut' = Unused.flags
  /\ UNCHANGED up

Running(t, label) == ~crashed /\ pc[t] = label

-----------------------------------------------------------------------------
(* open, which closes an earlier connection first; nothing else closes one *)

\* Mutant of StartOpen: close() does not look at isConnected().
ClosesUnconnected(t) ==
  /\ Running(t, "idle") /\ "open" \in Calls[t]
  /\ Goto(t, "closeStreams")
  /\ call' = [call EXCEPT ![t] = NewCall("open", "none")]
  /\ ret' = [ret EXCEPT ![t] = NoReturn]
  /\ UNCHANGED <<coreVars, socketVars, bufferVars, requests, replies, historyVars>>

StartOpen(t) ==
  /\ Running(t, "idle") /\ "open" \in Calls[t]
  /\ Goto(t, IF isConnected THEN "closeStreams" ELSE "newSocket")
  /\ call' = [call EXCEPT ![t] = NewCall("open", "none")]
  /\ ret' = [ret EXCEPT ![t] = NoReturn]
  /\ UNCHANGED <<coreVars, socketVars, bufferVars, requests, replies, historyVars>>

\* Closing our end.  What the core client still does with the requests of a
\* connection without a reader is not observed any more.
Closing(sockets) ==
  /\ local'    = [c \in Conns |-> IF c \in sockets THEN "closed" ELSE local[c]]
  /\ peer'     = [c \in Conns |-> c \notin sockets /\ peer[c]]
  /\ authed'   = [c \in Conns |-> c \notin sockets /\ authed[c]]
  /\ requests' = [c \in Conns |-> IF c \in sockets THEN <<>> ELSE requests[c]]
  /\ replies'  = [c \in Conns |-> IF c \in sockets THEN <<>> ELSE replies[c]]
  /\ timedOut' = [c \in Conns |-> c \notin sockets /\ timedOut[c]]

\* mInput.close() and mOutput.close() close the socket they belong to.
CloseStreams(t) ==
  /\ Running(t, "closeStreams")
  /\ IF None \in {mInput, mOutput}
       THEN RuntimeException
       ELSE /\ Closing({mInput, mOutput})
            /\ Goto(t, "closeSocket")
            /\ UNCHANGED <<up, mSocket, mInput, mOutput, bufferVars, call, ret,
                           crashed>>

CloseSocket(t) ==
  /\ Running(t, "closeSocket")
  /\ IF mSocket = None
       THEN RuntimeException
       ELSE /\ Closing({mSocket})
            /\ mSocket' = None
            /\ Goto(t, "newSocket")
            /\ UNCHANGED <<up, mInput, mOutput, bufferVars, call, ret, crashed>>

\* A socket nothing refers to.
Unreferenced ==
  {c \in Conns : /\ c \notin {mSocket, mInput, mOutput}
                 /\ \A t \in Threads : pc[t] \in Receiving => call[t].stream # c}

NewSocket(t) ==
  /\ Running(t, "newSocket") /\ Unreferenced # {}
  /\ LET c == CHOOSE c \in Unreferenced : TRUE IN
       /\ mSocket' = c
       /\ local' = [local EXCEPT ![c] = "new"]
       /\ peer' = [peer EXCEPT ![c] = FALSE]
       /\ authed' = [authed EXCEPT ![c] = FALSE]
       /\ requests' = [requests EXCEPT ![c] = <<>>]
       /\ replies' = [replies EXCEPT ![c] = <<>>]
       /\ timedOut' = [timedOut EXCEPT ![c] = FALSE]
  /\ Goto(t, "connect")
  /\ UNCHANGED <<up, mInput, mOutput, bufferVars, call, ret, crashed>>

\* The catch clauses of open().
DropSocket(t) ==
  /\ mSocket' = None
  /\ Return(t, "open", "none", FALSE, <<>>)
  /\ UNCHANGED <<coreVars, local, mInput, mOutput, bufferVars, requests,
                 replies, historyVars>>

\* mSocket.connect(address, CONNECT_TIMEOUT): a second connect of the same
\* socket throws, as does a port on which nothing listens.
Connect(t) ==
  /\ Running(t, "connect")
  /\ \/ /\ mSocket = None
        /\ RuntimeException
     \/ /\ mSocket # None /\ local[mSocket] = "new" /\ up
        /\ local' = [local EXCEPT ![mSocket] = "open"]
        /\ peer' = [peer EXCEPT ![mSocket] = TRUE]
        /\ Goto(t, "streams")
        /\ UNCHANGED <<up, authed, mSocket, mInput, mOutput, bufferVars,
                       requests, replies, call, ret, historyVars>>
     \/ /\ mSocket # None
        /\ DropSocket(t)

\* setSoTimeout, getInputStream and getOutputStream of the socket.
Streams(t) ==
  /\ Running(t, "streams")
  /\ CASE mSocket = None -> RuntimeException
       [] mSocket # None /\ local[mSocket] = "open" ->
            /\ mInput' = mSocket
            /\ mOutput' = mSocket
            /\ Return(t, "open", "none", TRUE, <<>>)
            /\ UNCHANGED <<coreVars, local, mSocket, bufferVars, requests,
                           replies, historyVars>>
       [] OTHER -> DropSocket(t)

-----------------------------------------------------------------------------
(* Requests and replies *)

HasRoom ==
  mOutput # None => Len(requests[mOutput]) + Len(replies[mOutput]) < MaxQueue

Begin(t, op, req) ==
  /\ Goto(t, IF req \in Commands THEN "build" ELSE "send")
  /\ call' = [call EXCEPT ![t] = NewCall(op, req)]
  /\ ret' = [ret EXCEPT ![t] = NoReturn]
  /\ UNCHANGED <<coreVars, socketVars, bufferVars, requests, replies, historyVars>>

\* The methods of the queries and commands do not look at isConnected().
StartCall(t) ==
  /\ Running(t, "idle") /\ HasRoom
  /\ \E req \in Calls[t] \cap (Queries \cup Commands) : Begin(t, req, req)

\* authorize and connectionAlive do.
StartIfConnected(t, op, req) ==
  /\ Running(t, "idle") /\ op \in Calls[t] /\ HasRoom
  /\ IF isConnected
       THEN Begin(t, op, req)
       ELSE /\ Return(t, op, req, FALSE, <<>>)
            /\ UNCHANGED <<coreVars, socketVars, bufferVars, requests,
                           replies, historyVars>>

StartAuthorize(t) == StartIfConnected(t, "authorize", "auth1")

StartConnectionAlive(t) == StartIfConnected(t, "connectionAlive", AliveRequest)

\* mRequest.setLength(0) and the first appends.
Build(t) ==
  /\ Running(t, "build")
  /\ mRequest' = Garbled
  /\ Goto(t, "compose")
  /\ UNCHANGED <<coreVars, socketVars, requests, replies, mReadBuffer, mResult, call, ret,
                 historyVars>>

\* The last append; the text is a mixture if another thread has used the
\* StringBuilder since Build.
Compose(t) ==
  /\ Running(t, "compose")
  /\ \E text \in {call[t].req, Garbled} :
       /\ text = Garbled => Threads # {t}
       /\ mRequest' = text
  /\ Goto(t, "send")
  /\ UNCHANGED <<coreVars, socketVars, requests, replies, mReadBuffer, mResult, call, ret,
                 historyVars>>

\* The text a call writes: a constant, or what mRequest now holds.
RequestText(t) ==
  IF call[t].req \in Commands \cup {"auth2"} THEN mRequest ELSE call[t].req

\* sendRequest: silently nothing without a stream; the first write to a
\* connection the core client has left may succeed.  mRequest is kept only
\* while another thread needs it: its next user begins with setLength(0).
SendRequest(t) ==
  /\ Running(t, "send")
  /\ \/ /\ mOutput # None /\ (local[mOutput] = "closed" \/ ~peer[mOutput])
        /\ IOException(t)
     \/ /\ mOutput # None => local[mOutput] # "closed" /\ ~peer[mOutput]
        /\ Goto(t, "receive")
        /\ UNCHANGED <<requests, replies, call, ret>>
     \/ /\ mOutput # None /\ local[mOutput] # "closed" /\ peer[mOutput]
        /\ \E ok \in BOOLEAN :
             /\ call[t].req # "auth2" => ok
             /\ ok => call[t].req # "auth2" \/ call[t].nonce
             /\ requests' = [requests EXCEPT ![mOutput] =
                  Append(@, [req |-> RequestText(t), by |-> t, ok |-> ok])]
        /\ Goto(t, "receive")
        /\ UNCHANGED <<replies, call, ret>>
  /\ mRequest' = IF \E u \in Threads \ {t} : pc[u] \in {"compose", "send"}
                   THEN mRequest ELSE Garbled
  /\ UNCHANGED <<coreVars, socketVars, mReadBuffer, mResult, historyVars>>

\* receiveReply, up to its first read.
StartReceive(t) ==
  /\ Running(t, "receive")
  /\ mResult' = <<>>
  /\ call' = [call EXCEPT ![t] = Reading(t, mInput, <<>>)]
  /\ Goto(t, "read")
  /\ UNCHANGED <<coreVars, socketVars, requests, replies, mRequest, mReadBuffer,
                 ret, historyVars>>

Readable(t) == call[t].stream # None /\ local[call[t].stream] # "closed"

\* read puts one reply, or several that have arrived together, into the shared
\* array mReadBuffer.
ReadReply(t) ==
  /\ Running(t, "read") /\ Readable(t)
  /\ LET c == call[t].stream IN
       \E n \in 1 .. Len(replies[c]) :
         /\ mReadBuffer' = SubSeq(replies[c], 1, n)
         /\ call' = [call EXCEPT ![t] = Reading(t, c, SubSeq(replies[c], 1, n))]
         /\ replies' = [replies EXCEPT ![c] = SubSeq(@, n + 1, Len(@))]
  /\ Goto(t, "append")
  /\ UNCHANGED <<coreVars, socketVars, requests, mRequest, mResult, ret,
                 historyVars>>

\* mResult.append of the first bytesRead bytes of mReadBuffer, and the test of
\* the last one.  They are what this thread has read unless another has read
\* since: then they are that one's reply, or a mixture that may not end in \003.
AppendReply(t) ==
  /\ Running(t, "append")
  /\ \E ended \in BOOLEAN, text \in
       IF mReadBuffer = call[t].bytes THEN {mReadBuffer} ELSE {mReadBuffer, <<Broken>>} :
         /\ ended \/ text = <<Broken>>
         /\ mResult' = mResult \o IF ended THEN Append(text, End) ELSE text
         /\ Goto(t, IF ended THEN "trim" ELSE "read")
         /\ call' = [call EXCEPT ![t] =
              Reading(t, IF ended THEN call[t].stream ELSE mInput, <<>>)]
  /\ mReadBuffer' = IF \E u \in Threads \ {t} : pc[u] = "append"
                      THEN mReadBuffer ELSE <<>>
  /\ UNCHANGED <<coreVars, socketVars, requests, replies, mRequest, ret,
                 historyVars>>

\* mResult.setLength(mResult.length() - 1) removes the \003, or the last
\* character of a reply, a line end that matters only the second time; it
\* throws if another thread has emptied mResult since the append.
TrimReply(t) ==
  /\ Running(t, "trim")
  /\ \/ /\ mResult = <<>>
        /\ RuntimeException
     \/ /\ mResult # <<>>
        /\ LET front == SubSeq(mResult, 1, Len(mResult) - 1) IN
             IF mResult[Len(mResult)] = End
               THEN mResult' = front
               ELSE mResult' \in {mResult, Append(front, Broken)}
        /\ Goto(t, "result")
        /\ UNCHANGED <<coreVars, socketVars, requests, replies, mRequest,
                       mReadBuffer, call, ret, historyVars>>

\* No stream, or the end of the stream: receiveReply returns what it has.
ReadEnd(t) ==
  /\ Running(t, "read")
  /\ \/ call[t].stream = None
     \/ Readable(t) /\ replies[call[t].stream] = <<>> /\ ~peer[call[t].stream]
  /\ Goto(t, "result")
  /\ UNCHANGED <<coreVars, socketVars, requests, replies, bufferVars, call, ret,
                 historyVars>>

\* What is in mResult stays there, but matters only to a thread that is
\* receiving, too: the next one begins with setLength(0).
LeftOver(t) ==
  IF \E u \in Threads \ {t} : pc[u] \in Receiving THEN mResult ELSE <<>>

\* The socket was closed here, or reset by the other side.
ReadFails(t) ==
  /\ Running(t, "read") /\ call[t].stream # None
  /\ \/ local[call[t].stream] = "closed"
     \/ replies[call[t].stream] = <<>> /\ ~peer[call[t].stream]
  /\ IOException(t)
  /\ mResult' = LeftOver(t)
  /\ UNCHANGED <<coreVars, socketVars, mRequest, mReadBuffer, historyVars>>

\* Mutant of ReadTimeout: there is no READ_TIMEOUT.
NoTimeout(t) == FALSE

\* SocketTimeoutException after READ_TIMEOUT.  The request stays with the
\* core client, and its reply will be the next one on the connection, which is
\* used again.
ReadTimeout(t) ==
  /\ Running(t, "read") /\ Readable(t)
  /\ peer[call[t].stream] /\ replies[call[t].stream] = <<>>
  /\ TimeoutsOccur \/ requests[call[t].stream] = <<>>
  /\ IOException(t)
  /\ timedOut' = [timedOut EXCEPT ![call[t].stream] = TRUE]
  /\ mResult' = LeftOver(t)
  /\ UNCHANGED <<coreVars, socketVars, mRequest, mReadBuffer, crashed>>

\* The reply a parser looks for: one kind of element per request, but the
\* replies to the Simple requests are the same.
Fits(req, m) == m.ok /\ (m.req = req \/ {m.req, req} \subseteq Simple)

\* The text is one XML document.
WellFormed(text) == Len(text) = 1 /\ text[1] \notin {End, Broken}

\* Mutants of Accepts: connectionAlive does not look at the length of the reply,
\* a lenient parser makes an object of no reply, and authorize does not look for
\* the word "authorized".
AliveWithoutReply(t, text) ==
  CASE call[t].op \in Unread \cup {"connectionAlive"} -> TRUE
    [] call[t].op \in Lenient -> WellFormed(text)
    [] OTHER -> WellFormed(text) /\ Fits(call[t].req, text[1])

ObjectOfNothing(t, text) ==
  CASE call[t].op \in Unread \cup Lenient -> TRUE
    [] call[t].op = "connectionAlive" -> text # <<>>
    [] OTHER -> WellFormed(text) /\ Fits(call[t].req, text[1])

AnyReplyToAuth2(t, text) ==
  CASE call[t].op \in Unread -> TRUE
    [] call[t].op = "connectionAlive" -> text # <<>>
    [] call[t].op \in Lenient -> WellFormed(text)
    [] OTHER -> WellFormed(text) /\ text[1].req = call[t].req

\* Whether the method makes a result of the text: connectionAlive does of any
\* text, a lenient parser of any well-formed one, the others of one reply that
\* fits.
Accepts(t, text) ==
  CASE call[t].op \in Unread -> TRUE
    [] call[t].op = "connectionAlive" -> text # <<>>
    [] call[t].op \in Lenient -> WellFormed(text)
    [] OTHER -> WellFormed(text) /\ Fits(call[t].req, text[1])

\* Mutant of Parse: authorize goes on without a request for phase 2.
PhaseTwoWithoutRequest(t, text) ==
  IF call[t].req = "auth1" /\ WellFormed(text)
    THEN /\ call' = [call EXCEPT ![t] = [NoCall EXCEPT !.op = "authorize"]]
         /\ Goto(t, "build")
         /\ UNCHANGED ret
    ELSE Return(t, call[t].op, call[t].req,
                call[t].req # "auth1" /\ Accepts(t, text), text)

\* The rest of a method once receiveReply has returned text: authorize goes
\* on with auth2 if the text is well-formed, the others return.
Parse(t, text) ==
  IF call[t].req = "auth1" /\ WellFormed(text)
    THEN /\ call' = [call EXCEPT ![t] =
              [op |-> "authorize", req |-> "auth2", stream |-> None, bytes |-> <<>>,
               nonce |-> text[1].req = "auth1" /\ text[1].ok]]
         /\ Goto(t, "build")
         /\ UNCHANGED ret
    ELSE Return(t, call[t].op, call[t].req,
                call[t].req # "auth1" /\ Accepts(t, text), text)

\* authorize collects the nonce and the word "authorized" in mRequest, too.
ParseBuffer(t) ==
  mRequest' = IF call[t].op = "authorize" THEN Garbled ELSE mRequest

\* mResult.toString() and what the method does with it.
ReturnReply(t) ==
  /\ Running(t, "result")
  /\ Parse(t, mResult)
  /\ mResult' = LeftOver(t)
  /\ ParseBuffer(t)
  /\ requests' = Abandoned(t, requests)
  /\ replies' = Abandoned(t, replies)
  /\ UNCHANGED <<coreVars, socketVars, mReadBuffer, historyVars>>

-----------------------------------------------------------------------------
(* The core client (external) *)

\* It answers the oldest request of a connection; without authorization it
\* may refuse.
CoreAnswers(c) ==
  /\ peer[c] /\ requests[c] # <<>>
  /\ LET m == Head(requests[c]) IN
       \E ok \in BOOLEAN :
         /\ CASE m.req = "auth1" -> ok
              [] m.req = "auth2" -> ok = m.ok
              [] m.req = Garbled -> ~ok
              [] OTHER           -> authed[c] => ok
         /\ authed' = [authed EXCEPT ![c] = @ \/ (m.req = "auth2" /\ ok)]
         /\ replies' = [replies EXCEPT ![c] =
              Append(@, [req |-> m.req, by |-> m.by, ok |-> ok])]
  /\ requests' = [requests EXCEPT ![c] = Tail(@)]
  /\ UNCHANGED <<up, peer, socketVars, bufferVars, pc, call, ret, historyVars>>

CoreExits ==
  /\ up
  /\ up' = FALSE
  /\ peer' = [c \in Conns |-> FALSE]
  /\ requests' = [c \in Conns |-> <<>>]
  /\ UNCHANGED <<authed, socketVars, bufferVars, replies, pc, call, ret, historyVars>>

CoreStarts ==
  /\ ~up
  /\ up' = TRUE
  /\ UNCHANGED <<peer, authed, socketVars, bufferVars, requests, replies, pc,
                 call, ret, historyVars>>

-----------------------------------------------------------------------------
\* Steps of a method that is under way.
MethodStep(t) ==
  \/ CloseStreams(t) \/ CloseSocket(t) \/ NewSocket(t) \/ Connect(t) \/ Streams(t)
  \/ Build(t) \/ Compose(t) \/ SendRequest(t) \/ StartReceive(t)
  \/ ReadReply(t) \/ AppendReply(t) \/ TrimReply(t) \/ ReadEnd(t)
  \/ ReadFails(t) \/ ReadTimeout(t) \/ ReturnReply(t)

Next ==
  \/ \E t \in Threads :
       \/ StartOpen(t) \/ StartAuthorize(t) \/ StartConnectionAlive(t)
       \/ StartCall(t)
       \/ MethodStep(t)
  \/ \E c \in Conns : CoreAnswers(c)
  \/ CoreExits
  \/ CoreStarts

\* A task that is in a method keeps running (its thread is scheduled, and
\* the socket timeouts end its reads); nothing is assumed of the core client.
\* Nor is a task overtaken between its read and its append at every one of its
\* reads: the other task would have to read something in these few instructions
\* again and again.
NotOvertaken(t) == mReadBuffer = call[t].bytes /\ AppendReply(t)

Fairness == \A t \in Threads : WF_vars(MethodStep(t)) /\ SF_vars(NotOvertaken(t))

Spec == Init /\ [][Next]_vars /\ Fairness

-----------------------------------------------------------------------------
(* Properties *)

\* A read has timed out on the connection in use, so that replies to calls
\* that have ended may still arrive on it.
Late == mInput # None /\ timedOut[mInput]

\* As long as no read has timed out on the connection, a result other than null
\* or false was parsed from exactly one reply, the core client's reply to the
\* request of this very call: never an earlier call's, or several run together.
\* A new connection is enough to be rid of late replies, whatever was on its way
\* when the old one was left.
ReplyAnswersCall ==
  \A t \in Threads :
    ret[t].ok /\ ret[t].op \notin Unread \cup {"open"} /\ ~Late =>
      /\ Len(ret[t].from) = 1
      /\ ret[t].from[1].by = t
      /\ ret[t].from[1].req = ret[t].req

\* The same of the queries alone, of which the source says "@return result of
\* RPC call in case of success, null otherwise" (RpcClient.java:411).
QueryAnswersCall ==
  \A t \in Threads :
    ret[t].ok /\ ret[t].op \in Queries \ Unread =>
      /\ Len(ret[t].from) = 1
      /\ ret[t].from[1].by = t

\* Until its thread makes its next call, a successful authorize() means that
\* the core client has authorized the connection in use, whatever late replies
\* there are on it and whatever other tasks ask on it.  (It is no word about the
\* connection of a task that calls open() in the meantime.)
AuthorizeSound ==
  \A t \in Threads :
    ret[t].op = "authorize" /\ ret[t].ok => mSocket # None /\ authed[mSocket]

\* No order of calls makes a method of RpcClient run into a null field or an
\* empty mResult, which would end the app: sendRequest and receiveReply before
\* open, after a failed open, after a reply that was not read to its end.  The
\* methods say what they do instead: open "@return true for success, false for
\* failure" (RpcClient.java:161), receiveReply "@return the data read from
\* socket, @throws IOException if error occurs when reading from socket"
\* (RpcClient.java:331-332).
AppSurvives == ~crashed

\* Every method returns, even if the core client accepts a request and never
\* answers, or another thread takes the reply.
CallReturns ==
  \A t \in Threads : []<>(pc[t] = "idle" \/ crashed)

\* connectionAlive() is returning TRUE.
SaysAlive(t) ==
  /\ pc[t] = "result" /\ call[t].op = "connectionAlive"
  /\ pc'[t] = "idle" /\ ret'[t].ok

\* The other side is there, or has answered this very call before it left.
Responds(t) ==
  \/ peer[call[t].stream]
  \/ \E i \in DOMAIN ret'[t].from : ret'[t].from[i].by = t

\* connectionAlive() is true only "if other side responds"; "in case there is
\* socket still opened, but other side already closed connection, it will be
\* detected" (RpcClient.java:286-288).  That is true on a connection on which no
\* read has timed out, and on every new one.  After a timeout it is not: the
\* connection is used again, and a late reply to an earlier call is taken for
\* life of a core client that has closed it.
AliveUnlessLate ==
  [][\A t \in Threads :
       SaysAlive(t) /\ ~timedOut[call[t].stream] => Responds(t)]_vars

-----------------------------------------------------------------------------
(* Why they hold: inductive invariants *)

Opening == {"closeStreams", "closeSocket", "newSocket", "connect", "streams"}

Connected == mSocket # None /\ mInput = mSocket /\ local[mSocket] = "open"

\* What the socket fields are at each step of open().
SocketAt(label) ==
  /\ label = "closeStreams" => Connected
  /\ label = "closeSocket"  => mSocket # None /\ local[mSocket] = "closed"
  /\ label = "newSocket"    => mSocket = None
  /\ label = "connect"      => mSocket # None /\ local[mSocket] = "new"
  /\ label = "streams"      => mSocket # None /\ local[mSocket] = "open"

\* With one thread, the socket fields outside open() are those of one open
\* connection or there is none.
SocketInv ==
  /\ ~crashed
  /\ mInput = mOutput
  /\ \A t \in Threads : SocketAt(pc[t])
  /\ (\A t \in Threads : pc[t] \notin Opening) => mSocket = None \/ Connected
  /\ \A c \in Conns : local[c] = "open" => c = mSocket
  /\ \A c \in Conns : local[c] # "open" => replies[c] = <<>> /\ ~peer[c]

\* With one thread, the shared buffers hold what it has put there.
BufferInv ==
  \A t \in Threads :
    /\ pc[t] \in {"read", "append"} => mResult = <<>>
    /\ pc[t] = "append" => /\ mReadBuffer = call[t].bytes /\ mReadBuffer # <<>>
                           /\ mReadBuffer \in Seq(Message)
    /\ pc[t] = "trim" => /\ mResult # <<>> /\ mResult[Len(mResult)] = End
                         /\ SubSeq(mResult, 1, Len(mResult) - 1) \in Seq(Message)
    /\ pc[t] = "result" => mResult \in Seq(Message)

Granted(m) == m.req = "auth2" /\ m.ok

\* A granted auth2 reply, on its way or in the hands of the reader, is one of
\* the connection in use, which is then authorized.
AuthInv ==
  /\ \A c \in Conns : \A i \in DOMAIN replies[c] :
       Granted(replies[c][i]) => authed[c]
  /\ \A t \in Threads : pc[t] # "idle" => ret[t] = NoReturn
  /\ \A t \in Threads : pc[t] \in Exchanging =>
       /\ call[t].op = "authorize" <=> call[t].req \in AuthRequests
       /\ call[t].op = "authorize" => mSocket # None
  /\ \A t \in Threads : pc[t] \in Receiving /\ call[t].op = "authorize" =>
       /\ call[t].stream = mSocket
       /\ \A i \in DOMAIN call[t].bytes :
            Granted(call[t].bytes[i]) => authed[mSocket]
       /\ \A i \in DOMAIN mResult : Granted(mResult[i]) => authed[mSocket]
  /\ AuthorizeSound

\* Only the message of t's exchange is with connection c or in t's hands.
Nothing(c) == requests[c] = <<>> /\ replies[c] = <<>>

Answering(t, c) ==
  \/ Nothing(c) /\ ~peer[c]
  \/ \E m \in Message :
       /\ m.by = t /\ m.req = call[t].req
       /\ \/ requests[c] = <<m>> /\ replies[c] = <<>>
          \/ requests[c] = <<>> /\ replies[c] = <<m>>

Answer(t, m) == m \in Message /\ m.by = t /\ m.req = call[t].req

\* With one thread, nothing is on any connection between two exchanges, and only
\* this exchange's message during one, unless a read has timed out.
QuietInv ==
  /\ mInput = mOutput
  /\ \A c \in Conns : c # mOutput => Nothing(c)
  /\ \A t \in Threads :
       /\ pc[t] \in Receiving => call[t].stream = mOutput
       /\ pc[t] = "send" /\ call[t].req \in Commands \cup {"auth2"} =>
            mRequest = call[t].req
       /\ mOutput # None /\ ~timedOut[mOutput] =>
            /\ pc[t] \notin {"receive", "read"} => Nothing(mOutput)
            /\ pc[t] \in {"receive", "read"} => Answering(t, mOutput)
            /\ pc[t] = "append" =>
                 \E m \in Message : Answer(t, m) /\ call[t].bytes = <<m>>
            /\ pc[t] = "trim" =>
                 \E m \in Message : Answer(t, m) /\ mResult = <<m, End>>
            /\ pc[t] = "result" /\ mResult # <<>> =>
                 \E m \in Message : Answer(t, m) /\ mResult = <<m>>
  /\ ReplyAnswersCall

-----------------------------------------------------------------------------
(* What one thread alone may rely on: RpcService. *)

InProgress(t) ==
  pc[t] \in Exchanging /\ ~(pc[t] = "build" /\ call[t].req = "auth2")

\* The reply to the request of t's call can be read, or is in its hands.
Answered(t) ==
  \/ \E c \in Conns : \E i \in DOMAIN replies[c] : replies[c][i].by = t
  \/ \E i \in DOMAIN call[t].bytes : call[t].bytes[i].by = t
  \/ pc[t] \in Receiving /\ \E i \in DOMAIN mResult : mResult[i].by = t

Service == INSTANCE RpcService WITH
  Requests <- Requests,
  pending  <- [t \in Threads |-> IF InProgress(t) THEN call[t].req ELSE None],
  answered <- [t \in Threads |-> Answered(t)],
  late     <- Late,
  result   <- [t \in Threads |-> [req |-> ret[t].req, ok |-> ret[t].ok]]

\* Every exchange of a request and a reply looks like one step of a service
\* that answers the request it was given, fails, or, once it has given up an
\* answer, may mistake that one for another.
ImplementsService == Service!Spec
=============================================================================
