------------------------------ MODULE HttpServer ------------------------------
(***************************************************************************)
(* HttpServer over one established connection: the bytes of its peer, cut  *)
(* into messages anywhere, the HttpContext that parses them, and the       *)
(* replies.  The connection is that of TcpConnection, and the thread that  *)
(* of its loop: an iteration polls, reads, writes and runs functors.       *)
(*                                                                         *)
(* A stream is a sequence of lines; what is read is a sequence of lines    *)
(* and CRLFs, so that a message may end inside a line and between the two  *)
(* CRLFs of a blank one.  What is sent is a sequence of lines and of       *)
(* pieces of a body.                                                       *)
(***************************************************************************)
EXTENDS TcpConnection, FiniteSets

Seqs == INSTANCE SequencesExt

CONSTANTS
  Words,        \* the paths, and the fields and values of headers, peers send
  Streams,      \* what a peer may send: sequences of lines
  Pages,        \* the program's pages: the length of the body of each path
  Client        \* the connection

(* The lines the parser tells apart: a request line, whose method or       *)
(* version may be none it knows; a header; a word; the blank line.         *)
Request(method, version, path) ==
  [kind |-> "request", method |-> method, version |-> version, path |-> path]
Header(field, value) == [kind |-> "header", field |-> field, value |-> value]
Text == [kind |-> "text"]
Blank == [kind |-> "blank"]
CRLF == [kind |-> "CRLF"]

Methods == {"kInvalid", "kGet", "kPost", "kHead", "kPut", "kDelete"}
Versions == {"kUnknown", "kHttp10", "kHttp11"}

Lines ==
  [kind : {"request"}, method : Methods, version : Versions, path : Words]
    \cup [kind : {"header"}, field : Words, value : Words]
    \cup {Text, Blank}

ASSUME StreamsAssumption == \A lines \in Streams : lines \in Seq(Lines)

(* The lines of a reply fit a new Buffer: the first, two about the         *)
(* connection, one of the program's and the blank one.                     *)
ASSUME LinesFit == InitSize >= 5

ASSUME PagesAssumption ==
  DOMAIN Pages \subseteq Words /\ \A path \in DOMAIN Pages : Pages[path] \in Nat

Bytes(lines) ==
  Seqs!FlattenSeq([i \in DOMAIN lines |-> IF lines[i] = Blank
                                          THEN <<CRLF>> ELSE <<lines[i], CRLF>>])

-----------------------------------------------------------------------------
(* Responses. *)

Line(field, value) == [kind |-> field, value |-> value, length |-> 0]
StatusLine(code) == Line("HTTP/1.1", code)
ContentLength(n) == [kind |-> "Content-Length", value |-> "", length |-> n]
EndOfHeaders == Line("", "")
Body(path, n) == [i \in 1..n |-> Line("body", path)]

(* What is sent: lines, and pieces of the body of a page.                  *)
Pieces ==
  [kind : {"HTTP/1.1", "Connection", "Content-Length", "Content-Type", "", "body"},
   value : Words \cup {"0", "200", "400", "404", "close", "Keep-Alive", "text/html", ""},
   length : Nat]

HttpResponse(close) ==
  [statusCode_ |-> "0", closeConnection_ |-> close, headers_ |-> <<>>, body_ |-> <<>>]

DefaultHttpCallback(resp) ==
  [resp EXCEPT !.statusCode_ = "404", !.closeConnection_ = TRUE]

(* httpCallback_, as test/main.cpp writes it: a page, or the default.      *)
HttpCallback(path, resp) ==
  IF path \in DOMAIN Pages
  THEN [resp EXCEPT !.statusCode_ = "200", !.body_ = Body(path, Pages[path]),
                    !.headers_ = <<Line("Content-Type", "text/html")>>]
  ELSE DefaultHttpCallback(resp)

(* Seeded fault: no Content-Length.                                        *)
FaultNoLength(resp) ==
  <<StatusLine(resp.statusCode_),
    Line("Connection", IF resp.closeConnection_ THEN "close" ELSE "Keep-Alive")>>
    \o resp.headers_ \o <<EndOfHeaders>> \o resp.body_

(* Into a Buffer of the reply's own.  At most its last append, of the body,*)
(* makes that grow, and of a vector without spare capacity nothing is lost.*)
AppendToBuffer(resp) ==
  <<StatusLine(resp.statusCode_)>>
    \o (IF resp.closeConnection_
        THEN <<Line("Connection", "close")>>
        ELSE <<ContentLength(Len(resp.body_)), Line("Connection", "Keep-Alive")>>)
    \o resp.headers_ \o <<EndOfHeaders>> \o resp.body_

(* onRequest: what is answered, and whether the connection closes then.    *)
OnRequest(path, version, connection) ==
  LET close == \/ connection = "close"
               \/ version = "kHttp10" /\ connection # "Keep-Alive"
      response == HttpCallback(path, HttpResponse(close))
  IN  [bytes |-> AppendToBuffer(response), close |-> response.closeConnection_]

BadRequest == [bytes |-> <<StatusLine("400"), EndOfHeaders>>, close |-> TRUE]

-----------------------------------------------------------------------------
VARIABLES
  conn, sock, connections_, pendingFunctors_, failed,  \* see TcpConnection
  stream,      \* what the peer sends
  sent,        \* how much of it
  received,    \* how much of that was read
  inBuffer_,
  context,     \* the connection's HttpContext, with its request_
  ok,          \* what parseRequest will return
  where,       \* where the loop's thread is
  closed,      \* what the peer is told when the socket is closed
  responses,   \* history: the replies that were sent
  delivered,   \* history: the output the peer has read
  outgrown     \* history: outBuffer_ grew with bytes beyond the vector's size

state == [conn |-> conn, sock |-> sock, connections_ |-> connections_,
          pendingFunctors_ |-> pendingFunctors_, failed |-> failed]
serverVars == <<conn, sock, connections_, pendingFunctors_, failed, outgrown>>
parserVars == <<inBuffer_, context, ok>>
peerVars == <<stream, sent, received, delivered, closed>>
vars == <<serverVars, parserVars, peerVars, where, responses>>

(* Only then does Buffer::append lose bytes that wait.                     *)
Outgrows(q, r) == q.size < Used(q) /\ q.capacity < r.capacity

Becomes(w) ==
  /\ conn' = w.conn
  /\ sock' = w.sock
  /\ connections_' = w.connections_
  /\ pendingFunctors_' = w.pendingFunctors_
  /\ failed' = w.failed
  /\ outgrown' = (\/ outgrown
                  \/ Outgrows(conn[Client].outBuffer_, w.conn[Client].outBuffer_))

(* Of headers_, the value of the one field that is looked up.              *)
HttpContext ==
  [state_ |-> "kExpectRequestLine", method_ |-> "kInvalid",
   version_ |-> "kUnknown", path_ |-> "", Connection |-> ""]

Init ==
  /\ conn = [c \in {Client} |->
               [NewConnection(Base, TRUE) EXCEPT
                  !.state_ = "kConnected", !.context_ = TRUE, !.index_ = "kAdded",
                  !.events_ = {"in"}, !.added = TRUE, !.interest = {"in"}]]
  /\ sock = [c \in {Client} |-> NewSocket]
  /\ connections_ = {Client}
  /\ pendingFunctors_ = [l \in {Base} |-> <<>>]
  /\ failed = FALSE
  /\ stream \in Streams
  /\ sent = 0
  /\ received = 0
  /\ inBuffer_ = <<>>
  /\ context = HttpContext
  /\ ok = TRUE
  /\ where = "poll"
  /\ responses = <<>>
  /\ delivered = <<>>
  /\ closed = "no"
  /\ outgrown = FALSE

-----------------------------------------------------------------------------
(* The peer. *)

(* The kernel answers with a reset what it cannot hand over any more, and  *)
(* what it still had to send is dropped, all or some of it.                *)
SendReset ==
  /\ closed' = "reset"
  /\ \E n \in 0..Len(sock[Client].sending) :
       sock' = [sock EXCEPT ![Client].sending = SubSeq(@, 1, n)]

PeerSends ==
  /\ closed # "reset"
  /\ sent' \in (sent + 1)..Len(Bytes(stream))
  /\ IF closed = "no"
     THEN sock' = [sock EXCEPT ![Client].unread = TRUE] /\ UNCHANGED closed
     ELSE SendReset
  /\ UNCHANGED <<conn, connections_, pendingFunctors_, failed, outgrown, parserVars,
                 stream, received, delivered, where, responses>>

PeerReads ==
  /\ \E n \in 1..Len(sock[Client].sending) :
       /\ delivered' = delivered \o SubSeq(sock[Client].sending, 1, n)
       /\ sock' = [sock EXCEPT ![Client].sending = Rest(@, n)]
  /\ UNCHANGED <<conn, connections_, pendingFunctors_, failed, outgrown, parserVars,
                 stream, sent, received, closed, where, responses>>

-----------------------------------------------------------------------------
(* HttpContext::parseRequest, one line for each turn of its loop.  p holds *)
(* the context, the buffer, and parseRequest's ok and hasMore.             *)

HasLine(b) == b # <<>> /\ (b[1] = CRLF \/ Len(b) > 1)
FirstLine(b) == IF b[1] = CRLF THEN Blank ELSE b[1]
AfterLine(b) == IF b[1] = CRLF THEN Tail(b) ELSE SubSeq(b, 3, Len(b))

(* setMethod is called on the word before a space.                         *)
HasSpace(line) == line.kind \in {"request", "header"}
HasColon(line) == line.kind = "header"
Method(line) == IF line.kind = "request" THEN line.method ELSE "kInvalid"

WellFormed(line) == Method(line) # "kInvalid" /\ line.version # "kUnknown"

ProcessRequestLine(p) ==
  LET line == FirstLine(p.buf)
      named == [p.context EXCEPT
                  !.method_ = IF HasSpace(line) THEN Method(line) ELSE @,
                  !.path_ = IF Method(line) # "kInvalid" THEN line.path ELSE @]
  IN  IF WellFormed(line)
      THEN [p EXCEPT !.context = [named EXCEPT !.version_ = line.version,
                                               !.state_ = "kExpectHeaders"],
                     !.buf = AfterLine(@)]
      ELSE [p EXCEPT !.context = named, !.ok = FALSE, !.hasMore = FALSE]

(* Seeded fault: the line that ends the headers left in the buffer.        *)
FaultLineKept(p) ==
  LET line == FirstLine(p.buf)
  IN  IF HasColon(line)
      THEN [p EXCEPT !.buf = AfterLine(@)]
      ELSE [p EXCEPT !.context.state_ = "kGotAll", !.hasMore = FALSE]

(* addHeader; a line without a colon, blank or not, ends the headers.      *)
ProcessHeader(p) ==
  LET line == FirstLine(p.buf)
      rest == [p EXCEPT !.buf = AfterLine(@)]
  IN  IF ~HasColon(line)
      THEN [rest EXCEPT !.context.state_ = "kGotAll", !.hasMore = FALSE]
      ELSE [rest EXCEPT !.context.Connection =
                          IF line.field = "Connection" THEN line.value ELSE @]

(* setMethod asserts that method_ is kInvalid, which it is not after a     *)
(* request line that got as far as its version.                            *)
MethodAsserts ==
  /\ context.state_ = "kExpectRequestLine"
  /\ HasLine(inBuffer_) /\ HasSpace(FirstLine(inBuffer_))
  /\ context.method_ # "kInvalid"

SetMethodFails ==
  /\ where = "parseRequest"
  /\ MethodAsserts
  /\ failed' = TRUE
  /\ UNCHANGED <<conn, sock, connections_, pendingFunctors_, outgrown, parserVars,
                 peerVars, where, responses>>

(* With state_ kGotAll the loop has no exit: there is no step.             *)
ParseRequest ==
  /\ where = "parseRequest"
  /\ ~MethodAsserts
  /\ context.state_ \in {"kExpectRequestLine", "kExpectHeaders"}
  /\ LET p == [context |-> context, buf |-> inBuffer_, ok |-> TRUE, hasMore |-> TRUE]
         q == IF ~HasLine(inBuffer_) THEN [p EXCEPT !.hasMore = FALSE]
              ELSE IF context.state_ = "kExpectRequestLine"
                   THEN ProcessRequestLine(p) ELSE ProcessHeader(p)
     IN  /\ context' = q.context
         /\ inBuffer_' = q.buf
         /\ ok' = q.ok
         /\ where' = IF q.hasMore THEN "parseRequest" ELSE "reply"
  /\ UNCHANGED <<serverVars, peerVars, responses>>

(* HttpRequest::swap leaves version_.  Seeded fault: headers_ as well.     *)
FaultHeadersKept(this, that) ==
  [that EXCEPT !.version_ = this.version_, !.Connection = this.Connection]
Swap(this, that) == [that EXCEPT !.version_ = this.version_]

(* HttpContext::reset.  Seeded fault: state_ left.                         *)
FaultStateKept(ctx) == [Swap(ctx, HttpContext) EXCEPT !.state_ = ctx.state_]
Reset(ctx) == Swap(ctx, HttpContext)

-----------------------------------------------------------------------------
(* The loop's thread. *)

Ready ==
  LET k == conn[Client]
  IN  {e \in k.interest : \/ e = "in" /\ sock[Client].unread
                          \/ e = "out" /\ Room(state, Client) > 0}

Poll ==
  /\ where = "poll"
  /\ Ready # {} \/ pendingFunctors_[Base] # <<>>
  /\ conn' = [conn EXCEPT ![Client].revents_ = Ready]
  /\ where' = IF "in" \in Ready THEN "handleRead" ELSE "handleWrite"
  /\ UNCHANGED <<sock, connections_, pendingFunctors_, failed, outgrown, parserVars,
                 peerVars, responses>>

Arrived == SubSeq(Bytes(stream), received + 1, sent)

(* onMessage compares the last four bytes with two line ends.  (With fewer *)
(* than four it reads what lies before the buffer's memory, which does not *)
(* end in a line end.)  Seeded fault: only the last two.                   *)
FaultOneLineEnd(b) == b[Len(b)] = CRLF
EndsBlank(b) == Len(b) > 1 /\ b[Len(b)] = CRLF /\ b[Len(b) - 1] = CRLF

(* Seeded fault: the same bytes read again.                                *)
FaultReadAgain ==
  /\ where = "handleRead"
  /\ inBuffer_' = inBuffer_ \o Arrived
  /\ sock' = [sock EXCEPT ![Client].unread = FALSE]
  /\ where' = IF EndsBlank(inBuffer_') THEN "parseRequest" ELSE "handleWrite"
  /\ UNCHANGED <<conn, connections_, pendingFunctors_, failed, outgrown, context,
                 ok, peerVars, responses>>

(* TcpConnection::handleRead and onMessage up to parseRequest.             *)
HandleMessage ==
  /\ where = "handleRead"
  /\ inBuffer_' = inBuffer_ \o Arrived
  /\ received' = sent
  /\ sock' = [sock EXCEPT ![Client].unread = FALSE]
  /\ where' = IF EndsBlank(inBuffer_') THEN "parseRequest" ELSE "handleWrite"
  /\ UNCHANGED <<conn, connections_, pendingFunctors_, failed, outgrown, context,
                 ok, stream, sent, delivered, closed, responses>>

(* The rest of onMessage.                                                  *)
OnMessage ==
  LET gotAll == context.state_ = "kGotAll"
      r == IF ~ok THEN BadRequest
           ELSE OnRequest(context.path_, context.version_, context.Connection)
      replies == ~ok \/ gotAll
  IN  /\ where = "reply"
      /\ Becomes(IF replies THEN Reply(state, Client, r.bytes, r.close) ELSE state)
      /\ responses' = IF replies /\ conn[Client].state_ = "kConnected"
                      THEN Append(responses, r) ELSE responses
      /\ context' = IF gotAll THEN Reset(context) ELSE context
      /\ ok' = TRUE
      /\ where' = "handleWrite"
      /\ UNCHANGED <<peerVars, inBuffer_>>

WriteOutput ==
  /\ where = "handleWrite"
  /\ Becomes(IF "out" \in conn[Client].revents_ THEN HandleWrite(state, Client)
                                                ELSE state)
  /\ where' = "functors"
  /\ UNCHANGED <<parserVars, peerVars, responses>>

(* A functor queued by another one waits for the next iteration, in which  *)
(* nothing comes before it: the channel is disabled by then.               *)
RunNext ==
  /\ where = "functors"
  /\ pendingFunctors_[Base] # <<>>
  /\ LET rest == [state EXCEPT !.pendingFunctors_[Base] = Tail(@)]
     IN  Becomes(RunFunctor(rest, Head(pendingFunctors_[Base]), <<>>))
  /\ UNCHANGED <<parserVars, peerVars, where, responses>>

(* With the map and the functors the last ConnectionPtr is gone: ~Socket   *)
(* closes the descriptor, with a reset if there is input nobody read.      *)
FinishFunctors ==
  /\ where = "functors"
  /\ pendingFunctors_[Base] = <<>>
  /\ where' = "poll"
  /\ IF connections_ # {} \/ closed # "no" THEN UNCHANGED <<sock, closed>>
     ELSE IF sock[Client].unread THEN SendReset
     ELSE closed' = "end" /\ UNCHANGED sock
  /\ UNCHANGED <<conn, connections_, pendingFunctors_, failed, outgrown, parserVars,
                 stream, sent, received, delivered, responses>>

-----------------------------------------------------------------------------
LoopStep ==
  \/ Poll
  \/ HandleMessage
  \/ SetMethodFails
  \/ ParseRequest
  \/ OnMessage
  \/ WriteOutput
  \/ RunNext
  \/ FinishFunctors

Next == ~failed /\ (LoopStep \/ PeerSends \/ PeerReads)

(* The loop's thread runs, and the peer reads what it is sent.             *)
Spec == /\ Init /\ [][Next]_vars
        /\ WF_vars(~failed /\ LoopStep) /\ WF_vars(~failed /\ PeerReads)

-----------------------------------------------------------------------------
(* Properties. *)

Contexts ==
  [state_ : {"kExpectRequestLine", "kExpectHeaders", "kGotAll"}, method_ : Methods,
   version_ : Versions, path_ : Words \cup {""}, Connection : Words \cup {""}]

TypeOK ==
  /\ state \in Servers({Client}, {Base}, Pieces)
  /\ stream \in Streams
  /\ sent \in 0..Len(Bytes(stream)) /\ received \in 0..sent
  /\ inBuffer_ \in Seq(Lines \cup {CRLF}) /\ Len(inBuffer_) <= received
  /\ context \in Contexts
  /\ where \in {"poll", "handleRead", "parseRequest", "reply", "handleWrite", "functors"}
  /\ ok \in BOOLEAN
  /\ responses \in Seq([bytes : Seq(Pieces), close : BOOLEAN])
  /\ delivered \in Seq(OrNul(Pieces))
  /\ closed \in {"no", "end", "reset"}
  /\ outgrown \in BOOLEAN

(* A message that onMessage lets through has a reply: the parser finds a   *)
(* whole request in it or refuses it, whatever was left in the buffer by   *)
(* the messages before.                                                    *)
MessageGetsReply == where = "reply" => ~ok \/ context.state_ = "kGotAll"

(* Between messages the parser expects a request line and remembers        *)
(* nothing of the request before; only one it refused may have left its    *)
(* method and path, and then the connection is closing.                    *)
ContextClean ==
  where \notin {"parseRequest", "reply"} =>
    /\ context.state_ = "kExpectRequestLine"
    /\ context.Connection = ""
    /\ context.method_ # "kInvalid" =>
         \/ conn[Client].state_ # "kConnected"
         \/ pendingFunctors_[Base] # <<>>

(* The last Connection header of the lines from..to counts.                *)
LastConnection(lines, from, to) ==
  LET at == {i \in from..to : lines[i].field = "Connection"}
  IN  IF at = {} THEN ""
      ELSE lines[CHOOSE i \in at : \A j \in at : j <= i].value

(* The headers behind line i end with the first line that is none.         *)
HeadersEnds(lines, i) == {j \in (i + 1)..Len(lines) : ~HasColon(lines[j])}
HeadersEnd(lines, i) ==
  CHOOSE j \in HeadersEnds(lines, i) : \A k \in HeadersEnds(lines, i) : j <= k

(* The reply to the request of line i, whose headers end before line end.  *)
Answer(lines, i, end) ==
  OnRequest(lines[i].path, lines[i].version, LastConnection(lines, i + 1, end - 1))

(* What a stream asks for from line i on, later being what it asks for     *)
(* from each line behind: a request line, headers, a reply to each request,*)
(* nothing after the reply that closes.                                    *)
RepliesFrom(lines, i, later) ==
  IF i > Len(lines) THEN <<>>
  ELSE IF ~WellFormed(lines[i]) THEN <<BadRequest>>
  ELSE IF HeadersEnds(lines, i) = {} THEN <<>>
  ELSE LET end == HeadersEnd(lines, i)
           r == Answer(lines, i, end)
       IN  IF r.close THEN <<r>> ELSE <<r>> \o later[end + 1]

Replies(lines) ==
  LET from[i \in 1..(Len(lines) + 1)] == RepliesFrom(lines, i, from)
  IN  from[1]

(* However the stream is cut into messages and whatever the send buffer    *)
(* takes, the replies are those the stream asks for, in its order, each    *)
(* once, none of them after the one that closes (onMessage, parseRequest). *)
RepliesInOrder == Seqs!IsPrefix(responses, Replies(stream))

(* What was handed to the peer and what waits for it are the bytes of the  *)
(* replies, in order, however little of them each write takes (sendInLoop, *)
(* handleWrite).  None is lost but in two ways: a vector that grows leaves *)
(* Nul in the place of the bytes beyond its size, and a reset drops the    *)
(* end.                                                                    *)
Replied == Seqs!FlattenSeq([i \in DOMAIN responses |-> responses[i].bytes])

Output ==
  delivered \o sock[Client].sending
    \o (IF closed = "reset" THEN <<>> ELSE conn[Client].outBuffer_.bytes)

OutputIntact ==
  LET output  == Output
      replied == Replied
  IN  /\ Len(output) <= Len(replied)
      /\ closed # "reset" => Len(output) = Len(replied)
      /\ \A i \in 1..Len(output) :
           output[i] = replied[i] \/ (outgrown /\ output[i] = Nul)

(* How many replies a peer finds in what it has read: one with a           *)
(* Content-Length has a body of that length, one without goes on to the    *)
(* end of the stream.                                                      *)
Found(bytes, ended) ==
  LET n == Len(bytes)
      from[i \in 1..(n + 1)] ==
        LET ends == {j \in i..n : bytes[j] = EndOfHeaders}
            end == CHOOSE j \in ends : \A k \in ends : j <= k
            lengths == {j \in i..end : bytes[j].kind = "Content-Length"}
            next == end + 1 + bytes[CHOOSE j \in lengths : TRUE].length
        IN  IF ends = {} THEN 0
            ELSE IF lengths = {} THEN IF ended THEN 1 ELSE 0
            ELSE IF next > n + 1 THEN 0
            ELSE 1 + from[next]
  IN  from[1]

Ended == closed = "end" /\ sock[Client].sending = <<>>

(* Every reply reaches a peer that reads, which can tell where it ends,    *)
(* even if the connection is closed behind it: the close waits for the     *)
(* output (appendToBuffer, closeConnectionInLoop, handleWrite).  Excepted  *)
(* are the two ways of OutputIntact to lose some of it: too much waited,   *)
(* or the peer sent more than was read.                                    *)
RepliesReachPeer ==
  \A n \in 1..3 :
    Len(responses) = n ~>
      failed \/ outgrown \/ closed = "reset" \/ Found(delivered, Ended) >= n

(* onMessage makes progress: parseRequest's loop does not go on for ever,  *)
(* whatever the request before left in the context, and a request that is  *)
(* alone in its stream is answered once it has arrived.                    *)
RequestsAnswered ==
  /\ where = "parseRequest" ~> (where = "reply" \/ failed)
  /\ (/\ Cardinality({i \in DOMAIN stream : stream[i].kind = "request"}) = 1
      /\ sent = Len(Bytes(stream)))
       ~> responses # <<>>
=============================================================================
