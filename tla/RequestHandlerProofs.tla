------------------------ MODULE RequestHandlerProofs ------------------------
(***************************************************************************)
(* Theorems about RequestHandler, for every set of lines, every size of    *)
(* buffers and files, and any number of pipelined requests: its invariants,*)
(* what it makes of its input, and that it implements HttpConnection.      *)
(***************************************************************************)
EXTENDS RequestHandler, DataInduction, SequenceTheorems, TLAPS

USE SizesAssumption, FlagsAssumption

-----------------------------------------------------------------------------
(* Type correctness. *)

LEMMA AnnouncementType ==
    ASSUME NEW req, NEW persistent
    PROVE  announcement(req, persistent) \in Announcements
  BY DEF announcement, Announcements

\* A reply leaves every variable with a value of its type.
LEMMA StartReplyTypes ==
    ASSUME TypeOK,
           NEW req \in Request, NEW code \in StatusCodes,
           NEW persistent \in BOOLEAN, NEW next \in ReplyStates,
           NEW due \in OptionalNat, NEW announced \in Announcements,
           filefd' \in OptionalNat,
           start_reply(req, code, persistent, next, due, announced)
    PROVE  TypeOK'
<1>1. request' \in Request
  BY DEF start_reply, Request
<1>2. reply' \in Reply
  BY DEF start_reply, NewReply, Reply
<1>3. /\ poll_events' = "POLLOUT" /\ object' = "waiting" /\ state' \in States
      /\ write_buffer' \in Nat /\ use_persistent_connection' \in BOOLEAN
  BY DEF start_reply, go_to_write_mode, ReplyStates, States
<1>4. unlogged' \in Int
  BY DEF start_reply, TypeOK
<1>5. QED
  BY <1>1, <1>2, <1>3, <1>4 DEF TypeOK, start_reply, peerVars

\* So does each of the standard replies.
LEMMA ClosingReplyTypes ==
    ASSUME TypeOK, NEW req \in Request, NEW code \in StatusCodes, closing_reply(req, code)
    PROVE  TypeOK'
<1>1. filefd' \in OptionalNat
  BY DEF TypeOK, closing_reply
<1>2. start_reply(req, code, FALSE, "FLUSH_BUFFER", Unset, announcement(req, FALSE))
  BY DEF closing_reply
<1>3. "FLUSH_BUFFER" \in ReplyStates /\ Unset \in OptionalNat /\ FALSE \in BOOLEAN
  BY DEF ReplyStates, OptionalNat
<1>4. QED
  BY <1>1, <1>2, <1>3, AnnouncementType, StartReplyTypes

LEMMA ProtocolErrorTypes ==
    ASSUME TypeOK, protocol_error(request)
    PROVE  TypeOK'
  BY ClosingReplyTypes DEF protocol_error, TypeOK, StatusCodes

\* Deleting the handler, waiting for more input.
LEMMA DeleteTypes == TypeOK /\ delete_this => TypeOK'
  BY DEF TypeOK, delete_this, destroy, peerVars, logVars, OptionalNat

LEMMA NeedMoreTypes == TypeOK /\ need_more_io => TypeOK'
  BY DEF TypeOK, need_more_io, peerVars, ioVars, logVars

LEMMA LineLength == ASSUME NEW line \in Line \cup RestLine PROVE line.len \in Lengths
  BY DEF Lengths, Line, RequestLine, Header, BlankLine, JunkLine, RestLine

LEMMA FoldLength ==
    ASSUME NEW line \in Line \cup RestLine, folded(line)
    PROVE  /\ line \in Header /\ line.fold \in Nat \ {0} /\ line.fold + 3 <= line.len
           /\ rest(line) \in RestLine
<1>1. line \in Header
  BY DEF folded, Line, RequestLine, Header, BlankLine, JunkLine, RestLine
<1>2. line.fold \in Nat /\ line.len \in Nat /\ line.fold + 3 <= line.len /\ line.fold > 0
  BY <1>1 DEF folded, Header, Lengths
<1>3. QED
  BY <1>1, <1>2 DEF rest, RestLine, Lengths

LEMMA HeadLine == ASSUME TypeOK, HeadComplete
                  PROVE  /\ Head(stream) \in Line \cup RestLine
                         /\ Tail(stream) \in Seq(Line \cup RestLine)
                         /\ Head(stream).len \in Lengths
                         /\ read_buffer - Head(stream).len \in Nat
<1>1. stream \in Seq(Line \cup RestLine) /\ stream # <<>> /\ read_buffer \in Nat
  BY DEF TypeOK, HeadComplete
<1>2. Head(stream) \in Line \cup RestLine /\ Tail(stream) \in Seq(Line \cup RestLine)
  BY <1>1
<1>3. Head(stream).len \in Lengths /\ read_buffer >= Head(stream).len
  BY <1>2, LineLength DEF HeadComplete
<1>4. QED
  BY <1>1, <1>2, <1>3 DEF Lengths

LEMMA FirstPart == ASSUME TypeOK, only_first_part
                   PROVE  /\ Head(stream) \in Header /\ Head(stream).fold \in Nat \ {0}
                          /\ read_buffer - Head(stream).fold = 0
                          /\ [stream EXCEPT ![1] = rest(@)] \in Seq(Line \cup RestLine)
<1>1. stream \in Seq(Line \cup RestLine) /\ stream # <<>> /\ read_buffer = Head(stream).fold
  BY DEF TypeOK, only_first_part
<1>2. Head(stream) \in Line \cup RestLine /\ stream[1] = Head(stream)
  BY <1>1
<1>3. /\ Head(stream) \in Header /\ Head(stream).fold \in Nat \ {0}
      /\ rest(Head(stream)) \in RestLine
  BY <1>2, FoldLength DEF only_first_part
<1>4. [stream EXCEPT ![1] = rest(@)] \in Seq(Line \cup RestLine)
  <2>1. rest(stream[1]) \in Line \cup RestLine
    BY <1>2, <1>3
  <2> HIDE DEF rest
  <2>2. QED
    BY <1>1, <2>1
<1>5. QED
  BY <1>1, <1>3, <1>4

\* Parsing a line of a request: what is left is typed, and nothing but the
\* request and the state is the caller's business.
LEMMA EraseTypes ==
    ASSUME TypeOK, NEW len, NEW left \in Seq(Line \cup RestLine), read_buffer - len \in Nat,
           erase(len, left), request' \in Request, state' \in States
    PROVE  TypeOK'
  BY DEF TypeOK, erase, logVars

LEMMA ConsumeTypes ==
    ASSUME TypeOK, HeadComplete, consume_line, request' \in Request, state' \in States
    PROVE  TypeOK'
  BY HeadLine, EraseTypes DEF consume_line

LEMMA ConsumeFirstPartTypes ==
    ASSUME TypeOK, only_first_part, consume_first_part, request' \in Request, state' \in States
    PROVE  TypeOK'
  BY FirstPart, EraseTypes DEF consume_first_part

\* The fields a request line sets.
LEMMA RequestLineNoted ==
    ASSUME NEW req \in Request, NEW line \in RequestLine
    PROVE  [req EXCEPT !.method = line.method, !.major = line.major, !.minor = line.minor,
                       !.url_host = line.url_host, !.path = line.path] \in Request
  BY DEF Request, RequestLine

LEMMA RequestLineKind ==
    ASSUME NEW line \in Line \cup RestLine, line.kind = "request" PROVE line \in RequestLine
  BY DEF Line, RequestLine, Header, BlankLine, JunkLine, RestLine

LEMMA HeaderKind ==
    ASSUME NEW line \in Line \cup RestLine, line.kind = "header" PROVE line \in Header
  BY DEF Line, RequestLine, Header, BlankLine, JunkLine, RestLine

\* For a request line, the first CRLF is the end.
LEMMA RequestLineComplete ==
    ASSUME has_crlf, Head(stream).kind = "request" PROVE HeadComplete
  BY DEF has_crlf, folded

\* A first part is a header, too.
LEMMA PartHeader ==
    ASSUME NEW h \in Header PROVE [h EXCEPT !.data = h.part] \in Header
<1>1. /\ [h EXCEPT !.data = h.part].len = h.len /\ [h EXCEPT !.data = h.part].fold = h.fold
      /\ [h EXCEPT !.data = h.part] \in
            [kind : {"header"}, len : Lengths, name : Names, data : Connections,
             time : Nat, fold : Nat, part : Connections]
  BY DEF Header
<1>2. QED
  BY <1>1 DEF Header

LEMMA HeaderNoted ==
    ASSUME NEW req \in Request, NEW h \in Header
    PROVE  note_header(req, h) \in Request
<1>1. h.data \in Connections /\ h.time \in OptionalNat
  BY DEF Header, OptionalNat
<1>2. /\ [req EXCEPT !.host = TRUE] \in Request
      /\ [req EXCEPT !.connection = h.data] \in Request
      /\ [req EXCEPT !.keep_alive = (h.data # "")] \in Request
      /\ [req EXCEPT !.if_modified_since = h.time] \in Request
  BY <1>1 DEF Request
<1>3. QED
  BY <1>2 DEF note_header

LEMMA RequestLineTypes == TypeOK /\ get_request_line => TypeOK'
<1> SUFFICES ASSUME TypeOK, get_request_line PROVE TypeOK'
  OBVIOUS
<1>1. CASE need_more_io
  BY <1>1, NeedMoreTypes
<1>2. CASE protocol_error(request)
  BY <1>2, ProtocolErrorTypes
<1>3. CASE /\ has_crlf /\ Head(stream).kind = "request" /\ consume_line
           /\ request' = [request EXCEPT !.method = Head(stream).method,
                  !.major = Head(stream).major, !.minor = Head(stream).minor,
                  !.url_host = Head(stream).url_host, !.path = Head(stream).path]
           /\ state' = "READ_REQUEST_HEADER"
  <2>1. Head(stream) \in RequestLine
    BY <1>3, RequestLineComplete, HeadLine, RequestLineKind
  <2>2. request \in Request
    BY DEF TypeOK
  <2>3. request' \in Request
    BY <1>3, <2>1, <2>2, RequestLineNoted
  <2>4. QED
    BY <1>3, <2>3, RequestLineComplete, ConsumeTypes DEF States
<1>4. QED
  BY <1>1, <1>2, <1>3 DEF get_request_line

LEMMA RequestHeaderTypes == TypeOK /\ get_request_header => TypeOK'
<1> SUFFICES ASSUME TypeOK, get_request_header PROVE TypeOK'
  OBVIOUS
<1>1. CASE need_more_io
  BY <1>1, NeedMoreTypes
<1>2. CASE protocol_error(request)
  BY <1>2, ProtocolErrorTypes
<1>3. CASE end_of_header /\ consume_line /\ state' = "READ_REQUEST_BODY" /\ UNCHANGED request
  BY <1>3, ConsumeTypes DEF TypeOK, end_of_header, States
<1>4. ASSUME NEW h \in Header, request' = note_header(request, h), UNCHANGED state,
             \/ only_first_part /\ consume_first_part
             \/ HeadComplete /\ consume_line
      PROVE  TypeOK'
  <2>1. request' \in Request /\ state' \in States
    BY <1>4, HeaderNoted DEF TypeOK
  <2>2. QED
    BY <1>4, <2>1, ConsumeTypes, ConsumeFirstPartTypes
<1>5. CASE only_first_part /\ get_header([Head(stream) EXCEPT !.data = Head(stream).part])
  <2>1. [Head(stream) EXCEPT !.data = Head(stream).part] \in Header
    BY <1>5, FirstPart, PartHeader
  <2>2. QED
    BY <1>2, <1>4, <1>5, <2>1 DEF get_header
<1>6. CASE ~only_first_part /\ header_parses /\ get_header(Head(stream))
  <2>1. HeadComplete /\ Head(stream) \in Header
    BY <1>6, HeadLine, HeaderKind DEF header_parses
  <2>2. QED
    BY <1>2, <1>4, <1>6, <2>1 DEF get_header
<1>7. QED
  BY <1>1, <1>2, <1>3, <1>5, <1>6 DEF get_request_header

LEMMA PersistentType ==
    ASSUME NEW req PROVE supports_persistent_connection(req) \in BOOLEAN
  BY DEF supports_persistent_connection

LEMMA SendFileTypes ==
    ASSUME TypeOK, NEW req \in Request, NEW size \in Nat, NEW mtime, send_file(req, size, mtime)
    PROVE  TypeOK'
<1> DEFINE persistent == supports_persistent_connection(req)
<1>1. /\ persistent \in BOOLEAN /\ announcement(req, persistent) \in Announcements
      /\ size \in OptionalNat /\ 0 \in OptionalNat /\ filefd \in OptionalNat
      /\ 200 \in StatusCodes /\ 304 \in StatusCodes /\ 404 \in StatusCodes
      /\ "COPY_FILE" \in ReplyStates /\ "FLUSH_BUFFER" \in ReplyStates
      /\ "COPY_FILE" # "FLUSH_BUFFER"
  BY PersistentType, AnnouncementType DEF TypeOK, OptionalNat, StatusCodes, ReplyStates
<1> HIDE DEF persistent
<1>2. CASE not_modified(req, persistent)
  BY <1>1, <1>2, StartReplyTypes DEF not_modified
<1>3. CASE /\ start_reply(req, 200, persistent, "FLUSH_BUFFER", 0,
                          announcement(req, persistent))
           /\ UNCHANGED filefd
  BY <1>1, <1>3, StartReplyTypes
<1>4. CASE /\ start_reply(req, 200, persistent, "COPY_FILE", size,
                          announcement(req, persistent))
           /\ filefd' = size
  BY <1>1, <1>4, StartReplyTypes
<1>5. CASE file_not_found(req)
  BY <1>1, <1>5, ClosingReplyTypes DEF file_not_found
<1>6. QED
  BY <1>1, <1>2, <1>3, <1>4, <1>5 DEF send_file, persistent

LEMMA SetupReplyTypes == TypeOK /\ setup_reply => TypeOK'
<1> SUFFICES ASSUME TypeOK, setup_reply PROVE TypeOK'
  OBVIOUS
<1> DEFINE req == [request EXCEPT !.host = TRUE]
<1>1. req \in Request /\ 301 \in StatusCodes /\ 404 \in StatusCodes
  <2>1. request \in Request
    BY DEF TypeOK
  <2>2. req \in Request
    BY <2>1 DEF Request
  <2>3. 301 \in StatusCodes /\ 404 \in StatusCodes
    BY DEF StatusCodes
  <2>4. QED
    BY <2>2, <2>3
<1> HIDE DEF req
<1>2. CASE protocol_error(request)
  BY <1>2, ProtocolErrorTypes
<1>3. CASE urldecode_runs_off(req)
  BY <1>3, DeleteTypes DEF urldecode_runs_off, TypeOK, peerVars, logVars, OptionalNat
<1>4. CASE reply_for_path(req)
  <2>1. CASE file_not_found(req)
    BY <1>1, <2>1, ClosingReplyTypes DEF file_not_found
  <2>2. CASE moved_permanently(req)
    BY <1>1, <2>2, ClosingReplyTypes DEF moved_permanently
  <2>3. ASSUME NEW size \in FileSizes, NEW mtime \in MTimes, send_file(req, size, mtime)
        PROVE  TypeOK'
    BY <1>1, <2>3, SendFileTypes, FilesAssumption
  <2>4. QED
    BY <1>4, <2>1, <2>2, <2>3 DEF reply_for_path
<1>5. QED
  BY <1>2, <1>3, <1>4 DEF setup_reply, req

LEMMA CopyFileTypes == TypeOK /\ copy_file => TypeOK'
<1> SUFFICES ASSUME TypeOK, copy_file PROVE TypeOK'
  OBVIOUS
<1>1. CASE need_more_io
  BY <1>1, NeedMoreTypes
<1>2. CASE delete_this
  BY <1>2, DeleteTypes
<1> DEFINE common == /\ object' = "waiting"
                     /\ UNCHANGED <<peerVars, poll_events, read_buffer, request,
                                    use_persistent_connection, unlogged>>
<1>3. CASE end_of_file /\ common
  BY <1>3 DEF end_of_file, TypeOK, States, OptionalNat, peerVars
<1>4. ASSUME NEW n \in 1..LeastOf(filefd, ChunkSize), copy_chunk(n), common
      PROVE  TypeOK'
  <2>1. filefd \in OptionalNat /\ n \in Nat /\ n >= 1 /\ n <= filefd
    BY DEF TypeOK, OptionalNat, Unset, LeastOf
  <2>2. filefd - n \in OptionalNat
    BY <2>1 DEF OptionalNat, Unset
  <2>3. reply' \in Reply
    BY <1>4, <2>1 DEF copy_chunk, TypeOK, Reply
  <2>4. QED
    BY <1>4, <2>1, <2>2, <2>3 DEF copy_chunk, TypeOK, peerVars
<1>5. QED
  BY <1>1, <1>2, <1>3, <1>4 DEF copy_file

LEMMA NoRequestType == NoRequest \in Request
  BY DEF NoRequest, Request, Methods, Paths, Connections, OptionalNat, StatusCodes

LEMMA FlushBufferTypes == TypeOK /\ flush_buffer => TypeOK'
<1> SUFFICES ASSUME TypeOK, flush_buffer PROVE TypeOK'
  OBVIOUS
<1>1. CASE need_more_io
  BY <1>1, NeedMoreTypes
<1>2. CASE delete_this
  BY <1>2, DeleteTypes
<1>3. log_access => unlogged' \in Int
  BY DEF log_access, TypeOK
<1>4. CASE log_access /\ restart_connection
  BY <1>3, <1>4, NoRequestType
     DEF restart_connection, reset, go_to_read_mode, TypeOK, States, OptionalNat, peerVars
<1>5. CASE log_access /\ shut_down_connection
  BY <1>3, <1>5 DEF shut_down_connection, destroy, TypeOK, States, OptionalNat, peerVars
<1>6. QED
  BY <1>1, <1>2, <1>4, <1>5 DEF flush_buffer

LEMMA StateHandlerTypes == TypeOK /\ state_handler => TypeOK'
<1>1. TypeOK /\ get_request_body => TypeOK'
  BY DEF get_request_body, TypeOK, States, peerVars, ioVars, logVars
<1>2. TypeOK /\ terminate => TypeOK'
  BY DeleteTypes DEF terminate
<1>3. QED
  BY <1>1, <1>2, RequestLineTypes, RequestHeaderTypes, SetupReplyTypes, CopyFileTypes,
     FlushBufferTypes DEF state_handler

\* write() takes some of the buffer, and the reply is that much further.
LEMMA WriteSome ==
    ASSUME TypeOK, write_some
    PROVE  /\ write_buffer' \in Nat /\ reply' \in Reply /\ UNCHANGED state
           /\ reply'.written + write_buffer' = reply.written + write_buffer
           /\ reply'.body = reply.body /\ reply'.due = reply.due
           /\ reply'.announced = reply.announced
<1>1. PICK n \in 1..write_buffer : accepted(n)
  BY DEF write_some
<1>2. /\ write_buffer \in Nat /\ reply \in Reply /\ reply.written \in Nat
      /\ n \in Nat /\ n <= write_buffer
  BY DEF TypeOK, Reply
<1>3. /\ write_buffer' = write_buffer - n /\ UNCHANGED state
      /\ reply' = [reply EXCEPT !.written = reply.written + n]
  BY <1>1 DEF accepted
<1>4. /\ reply'.written = reply.written + n /\ reply'.body = reply.body
      /\ reply'.due = reply.due /\ reply'.announced = reply.announced /\ reply' \in Reply
  BY <1>2, <1>3 DEF Reply
<1>5. QED
  BY <1>2, <1>3, <1>4

LEMMA CallbackTypes == TypeOK /\ callback => TypeOK'
<1> SUFFICES ASSUME TypeOK PROVE callback => TypeOK'
  OBVIOUS
<1>1. ASSUME fd_is_readable PROVE TypeOK'
  <2>1. CASE protocol_error(request)
    BY <2>1, ProtocolErrorTypes
  <2>2. CASE delete_this
    BY <2>2, DeleteTypes
  <2>3. CASE end_of_input
    BY <2>3 DEF end_of_input, call_state_handler, TypeOK, States, peerVars, ioVars, logVars
  <2>4. ASSUME NEW n \in 1..LeastOf(unread, MaxLineLength),
               unread' = unread - n, read_buffer' = read_buffer + n, call_state_handler,
               UNCHANGED <<peer, stream, poll_events, state, write_buffer, filefd, request,
                           use_persistent_connection, logVars>>
        PROVE  TypeOK'
    <3>1. n \in Nat /\ n <= unread
      BY DEF TypeOK, LeastOf
    <3>2. unread' \in Nat /\ read_buffer' \in Nat
      BY <2>4, <3>1 DEF TypeOK
    <3>3. QED
      BY <2>4, <3>2 DEF TypeOK, call_state_handler, logVars
  <2>5. QED
    BY <1>1, <2>1, <2>2, <2>3, <2>4 DEF fd_is_readable
<1>2. ASSUME fd_is_writable PROVE TypeOK'
  <2>1. CASE delete_this
    BY <2>1, DeleteTypes
  <2>2. CASE /\ \/ write_some
                \/ state' = "TERMINATE" /\ UNCHANGED <<write_buffer, reply>>
                \/ UNCHANGED <<state, write_buffer, reply>>
             /\ call_state_handler
             /\ UNCHANGED <<peerVars, poll_events, read_buffer, filefd, request,
                            use_persistent_connection, unlogged>>
    <3>1. state' \in States /\ write_buffer' \in Nat /\ reply' \in Reply
      BY <2>2, WriteSome DEF TypeOK, States
    <3>2. QED
      BY <2>2, <3>1 DEF TypeOK, call_state_handler, peerVars
  <2>3. QED
    BY <1>2, <2>1, <2>2 DEF fd_is_writable
<1>3. ASSUME read_timeout \/ write_timeout \/ error_condition PROVE TypeOK'
  BY <1>3, DeleteTypes DEF read_timeout, write_timeout, error_condition
<1>4. ASSUME pollhup PROVE TypeOK'
  BY <1>4, DeleteTypes
     DEF pollhup, call_state_handler, TypeOK, peerVars, ioVars, logVars
<1>5. QED
  BY <1>1, <1>2, <1>3, <1>4 DEF callback

LEMMA EnvironmentTypes == TypeOK /\ environment => TypeOK'
<1> SUFFICES ASSUME TypeOK PROVE environment => TypeOK'
  OBVIOUS
<1>1. ASSUME NEW line \in Lines, PeerSend(line) PROVE TypeOK'
  <2>1. line \in Line /\ line.len \in Nat
    BY LinesAssumption, LineLength DEF Lengths
  <2>2. stream' \in Seq(Line \cup RestLine) /\ unread' \in Nat
    BY <1>1, <2>1 DEF PeerSend, TypeOK
  <2>3. QED
    BY <1>1, <2>2 DEF PeerSend, TypeOK, ioVars, logVars
<1>2. ASSUME PeerClose PROVE TypeOK'
  BY <1>2 DEF PeerClose, TypeOK, ioVars, logVars
<1>3. ASSUME PeerReset PROVE TypeOK'
  BY <1>3 DEF PeerReset, TypeOK, ioVars, logVars
<1>4. ASSUME FileChanges PROVE TypeOK'
  BY <1>4, FilesAssumption DEF FileChanges, TypeOK, OptionalNat, peerVars, logVars
<1>5. QED
  BY <1>1, <1>2, <1>3, <1>4 DEF environment

LEMMA StutterTypes == TypeOK /\ UNCHANGED vars => TypeOK'
  BY DEF TypeOK, vars, peerVars, ioVars, logVars

LEMMA InitTypes == Init => TypeOK
<1> SUFFICES ASSUME Init PROVE TypeOK
  OBVIOUS
<1>1. reply \in Reply /\ request \in Request
  BY NoRequestType DEF Init, NewReply, Reply, OptionalNat, Announcements
<1>2. stream = <<>>
  BY DEF Init
<1>3. stream \in Seq(Line)
  BY <1>2
<1>4. /\ peer = "open" /\ unread = 0 /\ object = "waiting" /\ poll_events = "POLLIN"
      /\ state = "READ_REQUEST_LINE" /\ read_buffer = 0 /\ write_buffer = 0
      /\ filefd = Unset /\ use_persistent_connection \in BOOLEAN /\ unlogged = 0
  BY DEF Init
<1>5. QED
  BY <1>1, <1>3, <1>4 DEF TypeOK, States, OptionalNat

LEMMA NextTypes == TypeOK /\ [Next]_vars => TypeOK'
  BY StateHandlerTypes, CallbackTypes, EnvironmentTypes, StutterTypes DEF Next

\* Whatever a peer sends, however it is cut into reads and whatever fails,
\* the variables of the handler keep values of their types: no buffer count and
\* no file position runs negative.
THEOREM TypeCorrect == Spec => []TypeOK
  BY InitTypes, NextTypes, PTL DEF Spec

-----------------------------------------------------------------------------
(* The inductive invariant. *)

\* Why a reply may close the connection without saying so (ClosesUnannounced).
Unannounced(req, code, announced) ==
    /\ announced = ""
    /\ code \in {301, 400, 404} \/ (req.major > 1 /\ req.minor = 0)

\* Building a reply, in a state where there is nothing to send yet.
LEMMA StartReplyInv ==
    ASSUME TypeOK, Inv, Alive, state \in BeforeReply,
           NEW req \in Request, NEW code \in StatusCodes \ {Unset},
           NEW persistent \in BOOLEAN, NEW next \in ReplyStates,
           NEW due \in OptionalNat, NEW announced \in Announcements,
           next = "COPY_FILE" <=> filefd' # Unset,
           persistent => PeerKeepsConnection(req, NewReply(due, announced)),
           PeerKeepsConnection(req, NewReply(due, announced)) =>
               persistent \/ Unannounced(req, code, announced),
           code \in {301, 400, 404} => ~persistent,
           start_reply(req, code, persistent, next, due, announced)
    PROVE  Inv'
<1>1. /\ object' = "waiting" /\ poll_events' = "POLLOUT" /\ state' = next
      /\ read_buffer' = read_buffer /\ unlogged' = 1
      /\ use_persistent_connection' = persistent /\ reply' = NewReply(due, announced)
  BY DEF start_reply, go_to_write_mode, Inv, NothingToSend
<1>2. request' = [req EXCEPT !.status_code = code]
  BY DEF start_reply
<1>3. request'.status_code = code /\ request'.major = req.major /\ request'.minor = req.minor
  BY <1>2 DEF Request
<1>4. reply'.announced = announced
  BY <1>1 DEF NewReply
<1>5. PeerKeepsConnection(req, NewReply(due, announced)) = PeerKeepsConnection(request', reply')
  BY <1>1, <1>3 DEF PeerKeepsConnection
<1>6. state' \in ReplyStates /\ state' \notin BeforeReply /\ state' # "READ_REQUEST_LINE"
      /\ state' \notin ReadStates
  BY <1>1 DEF ReplyStates, BeforeReply, ReadStates
<1>7. (ModeMatchesState /\ Registered /\ ReadBufferBounded /\ FreshRequest)'
  BY <1>1, <1>6 DEF Inv, ModeMatchesState, Registered, ReadBufferBounded, FreshRequest
<1>8. (NothingToSend /\ FileOpenOnlyWhileCopying)'
  BY <1>1, <1>6 DEF NothingToSend, FileOpenOnlyWhileCopying, Alive
<1>9. PersistenceAgreed'
  BY <1>1, <1>3, <1>4, <1>5 DEF PersistenceAgreed, ClosesUnannounced, Unannounced
<1>10. LoggedOncePerReply'
  BY <1>1, <1>3, <1>6 DEF LoggedOncePerReply
<1>11. NoReplyClobbered'
  <2>1. write_buffer' = ReplySize /\ reply'.written = 0 /\ reply'.body = 0
    BY <1>1 DEF start_reply, NewReply
  <2>2. QED
    BY <1>6, <2>1, SizesAssumption DEF NoReplyClobbered
<1>12. QED
  BY <1>7, <1>8, <1>9, <1>10, <1>11 DEF Inv

\* What closes the connection is never announced as kept.
LEMMA NotAnnouncedKept ==
    ASSUME NEW req, NEW due, PeerKeepsConnection(req, NewReply(due, announcement(req, FALSE)))
    PROVE  announcement(req, FALSE) = ""
  BY DEF announcement, PeerKeepsConnection, NewReply

LEMMA ClosingReplyInv ==
    ASSUME TypeOK, Inv, Alive, state \in BeforeReply,
           NEW req \in Request, NEW code \in {301, 400, 404}, closing_reply(req, code)
    PROVE  Inv'
<1>1. filefd' = Unset
  BY DEF closing_reply, Inv, NothingToSend
<1>2. start_reply(req, code, FALSE, "FLUSH_BUFFER", Unset, announcement(req, FALSE))
  BY DEF closing_reply
<1>3. /\ "FLUSH_BUFFER" \in ReplyStates /\ Unset \in OptionalNat /\ "FLUSH_BUFFER" # "COPY_FILE"
      /\ code \in StatusCodes \ {Unset}
  BY DEF ReplyStates, OptionalNat, StatusCodes, Unset
<1>4. PeerKeepsConnection(req, NewReply(Unset, announcement(req, FALSE)))
          => Unannounced(req, code, announcement(req, FALSE))
  BY NotAnnouncedKept DEF Unannounced
<1>5. QED
  BY <1>1, <1>2, <1>3, <1>4, StartReplyInv, AnnouncementType

LEMMA ProtocolErrorInv ==
    ASSUME TypeOK, Inv, Alive, state \in BeforeReply, protocol_error(request)
    PROVE  Inv'
  BY ClosingReplyInv DEF protocol_error, TypeOK

\* The agreement on persistence is about the request, the reply and the decision
\* alone: it survives every step that leaves them, a copied chunk included.
LEMMA AgreementStays ==
    ASSUME PersistenceAgreed, UNCHANGED <<request, use_persistent_connection>>,
           reply'.announced = reply.announced,
           Alive' /\ state' \in ReplyStates => Alive /\ state \in ReplyStates
    PROVE  PersistenceAgreed'
<1>1. PeerKeepsConnection(request, reply) = PeerKeepsConnection(request', reply')
  BY DEF PeerKeepsConnection
<1>2. QED
  BY <1>1 DEF PersistenceAgreed, ClosesUnannounced

\* The bytes of a reply are all accounted for after a step that neither starts
\* one nor loses any.
LEMMA NothingLost ==
    ASSUME NoReplyClobbered,
           reply'.written + write_buffer' = reply.written + write_buffer,
           reply'.body = reply.body,
           Alive' /\ state' \in ReplyStates => Alive /\ state \in ReplyStates,
           Alive' /\ state' \in BeforeReply => write_buffer' = 0
    PROVE  NoReplyClobbered'
  BY DEF NoReplyClobbered

LEMMA DeleteInv == ASSUME Inv, delete_this PROVE Inv'
<1>1. /\ object' = "deleted" /\ filefd' = Unset
      /\ UNCHANGED <<state, read_buffer, write_buffer, request>>
  BY DEF delete_this, destroy
<1>2. QED
  BY <1>1 DEF Inv, ModeMatchesState, Registered, ReadBufferBounded, FreshRequest, NothingToSend,
     FileOpenOnlyWhileCopying, PersistenceAgreed, LoggedOncePerReply, NoReplyClobbered, Alive

\* Returning to the scheduler from a state that has the right registration.
LEMMA NeedMoreInv ==
    ASSUME Inv, object = "running", need_more_io, state \in ReadStates \cup ReplyStates
    PROVE  Inv'
<1>1. /\ object' = "waiting"
      /\ UNCHANGED <<poll_events, state, read_buffer, write_buffer, filefd, request,
                     use_persistent_connection, reply, unlogged>>
  BY DEF need_more_io, ioVars, logVars
<1>2. ModeMatchesState'
  BY <1>1 DEF Inv, Registered, ModeMatchesState, BeforeReply, ReplyStates, ReadStates
<1>3. PersistenceAgreed'
  BY <1>1, AgreementStays DEF Inv, Alive
<1>4. NoReplyClobbered'
  BY <1>1, NothingLost DEF Inv, NothingToSend, Alive
<1>5. QED
  BY <1>1, <1>2, <1>3, <1>4 DEF Inv, Registered, ReadBufferBounded, FreshRequest, NothingToSend,
     FileOpenOnlyWhileCopying, LoggedOncePerReply, Alive

\* Parsing a line moves on to a state that reads or is about to reply.
LEMMA EraseInv ==
    ASSUME TypeOK, Inv, object = "running", state \in ReadStates, NEW len \in Nat, NEW left,
           erase(len, left), state' \in BeforeReply \ {"READ_REQUEST_LINE"}
    PROVE  Inv'
<1>1. /\ object' = "running"
      /\ UNCHANGED <<poll_events, write_buffer, filefd, unlogged>>
  BY DEF erase, logVars
<1>2. read_buffer' = read_buffer - len /\ read_buffer \in Nat
  BY DEF erase, TypeOK
<1>3. state \in BeforeReply /\ state' # "TERMINATE" /\ state' \notin ReplyStates
      /\ state' # "READ_REQUEST_LINE" /\ Alive
  BY DEF BeforeReply, ReadStates, ReplyStates, Alive
<1>4. (ModeMatchesState /\ Registered)'
  BY <1>1, <1>3 DEF Inv, Registered, ModeMatchesState, ReadStates, ReplyStates
<1>5. ReadBufferBounded'
  <2>1. MaxLineLength \in Nat /\ read_buffer <= 2 * MaxLineLength
    BY SizesAssumption DEF Inv, ReadBufferBounded
  <2>2. QED
    BY <1>2, <2>1 DEF ReadBufferBounded
<1>6. (FreshRequest /\ NothingToSend /\ FileOpenOnlyWhileCopying /\ PersistenceAgreed
       /\ LoggedOncePerReply /\ NoReplyClobbered)'
  BY <1>1, <1>3 DEF Inv, FreshRequest, NothingToSend, FileOpenOnlyWhileCopying,
     PersistenceAgreed, LoggedOncePerReply, NoReplyClobbered, Alive, BeforeReply, ReadStates
<1>7. QED
  BY <1>4, <1>5, <1>6 DEF Inv

LEMMA ConsumeInv ==
    ASSUME TypeOK, Inv, object = "running", state \in ReadStates,
           \/ HeadComplete /\ consume_line
           \/ only_first_part /\ consume_first_part,
           state' \in BeforeReply \ {"READ_REQUEST_LINE"}
    PROVE  Inv'
  BY HeadLine, FirstPart, EraseInv DEF Lengths, consume_line, consume_first_part

LEMMA RequestLineInv == TypeOK /\ Inv /\ get_request_line => Inv'
<1> SUFFICES ASSUME TypeOK, Inv, get_request_line PROVE Inv'
  OBVIOUS
<1>1. object = "running" /\ state = "READ_REQUEST_LINE"
  BY DEF get_request_line, Running
<1>2. Alive /\ state \in BeforeReply /\ state \in ReadStates
  BY <1>1 DEF Alive, BeforeReply, ReadStates
<1>3. CASE need_more_io
  BY <1>1, <1>2, <1>3, NeedMoreInv
<1>4. CASE protocol_error(request)
  BY <1>2, <1>4, ProtocolErrorInv
<1>5. CASE HeadComplete /\ consume_line /\ state' = "READ_REQUEST_HEADER"
  BY <1>1, <1>2, <1>5, ConsumeInv DEF BeforeReply, ReadStates
<1>6. QED
  BY <1>3, <1>4, <1>5, RequestLineComplete DEF get_request_line

LEMMA RequestHeaderInv == TypeOK /\ Inv /\ get_request_header => Inv'
<1> SUFFICES ASSUME TypeOK, Inv, get_request_header PROVE Inv'
  OBVIOUS
<1>1. object = "running" /\ state = "READ_REQUEST_HEADER"
  BY DEF get_request_header, Running
<1>2. Alive /\ state \in BeforeReply /\ state \in ReadStates
  BY <1>1 DEF Alive, BeforeReply, ReadStates
<1>3. CASE need_more_io
  BY <1>1, <1>2, <1>3, NeedMoreInv
<1>4. CASE protocol_error(request)
  BY <1>2, <1>4, ProtocolErrorInv
<1>5. CASE /\ \/ HeadComplete /\ consume_line
              \/ only_first_part /\ consume_first_part
           /\ state' \in {"READ_REQUEST_HEADER", "READ_REQUEST_BODY"}
  BY <1>1, <1>2, <1>5, ConsumeInv DEF BeforeReply, ReadStates
<1>6. QED
  BY <1>1, <1>3, <1>4, <1>5 DEF get_request_header, get_header, header_parses, end_of_header

LEMMA RequestBodyInv == TypeOK /\ Inv /\ get_request_body => Inv'
<1> SUFFICES ASSUME TypeOK, Inv, get_request_body PROVE Inv'
  OBVIOUS
<1>1. /\ object = "running" /\ state = "READ_REQUEST_BODY" /\ state' = "SETUP_REPLY"
      /\ UNCHANGED <<object, poll_events, read_buffer, write_buffer, filefd, unlogged>>
  BY DEF get_request_body, Running, ioVars, logVars
<1>2. QED
  BY <1>1 DEF Inv, ModeMatchesState, Registered, ReadBufferBounded, FreshRequest, NothingToSend,
     FileOpenOnlyWhileCopying, PersistenceAgreed, LoggedOncePerReply, NoReplyClobbered, Alive,
     BeforeReply, ReadStates, ReplyStates

\* What a 200 or 304 reply announces is what the peer will conclude from it,
\* unless the version is HTTP/2.0 or the like.
LEMMA AnnouncementAgrees ==
    ASSUME NEW req \in Request, NEW due
    PROVE  LET persistent == supports_persistent_connection(req)
           IN  /\ persistent => PeerKeepsConnection(req, NewReply(due, announcement(req, persistent)))
               /\ PeerKeepsConnection(req, NewReply(due, announcement(req, persistent))) =>
                      \/ persistent
                      \/ /\ announcement(req, persistent) = ""
                         /\ req.major > 1 /\ req.minor = 0
<1> DEFINE persistent == supports_persistent_connection(req)
<1>1. NewReply(due, announcement(req, persistent)).announced = announcement(req, persistent)
  BY DEF NewReply
<1>2. req.major \in Nat /\ req.minor \in Nat
  BY DEF Request
<1>3. CASE req.connection = ""
  <2>1. announcement(req, persistent) = ""
    BY <1>3 DEF announcement
  <2>2. persistent => req.major >= 1 /\ req.minor >= 1
    BY <1>3 DEF supports_persistent_connection
  <2>3. \A major \in Nat, minor \in Nat :
            major >= 1 /\ minor >= 1 => major > 1 \/ (major = 1 /\ minor >= 1)
    OBVIOUS
  <2>4. req.major >= 1 /\ req.minor >= 1
            => PeerKeepsConnection(req, NewReply(due, announcement(req, persistent)))
    BY <1>1, <1>2, <2>1, <2>3, Zenon DEF PeerKeepsConnection
  <2>5. \A major \in Nat, minor \in Nat :
            (major > 1 \/ (major = 1 /\ minor >= 1)) /\ ~ (major >= 1 /\ minor >= 1)
                => major > 1 /\ minor = 0
    OBVIOUS
  <2>6. PeerKeepsConnection(req, NewReply(due, announcement(req, persistent))) =>
            req.major > 1 \/ (req.major = 1 /\ req.minor >= 1)
    BY <1>1, <2>1 DEF PeerKeepsConnection
  <2>7. ~persistent => ~ (req.major >= 1 /\ req.minor >= 1)
    BY <1>3 DEF supports_persistent_connection
  <2>8. PeerKeepsConnection(req, NewReply(due, announcement(req, persistent))) /\ ~persistent =>
            req.major > 1 /\ req.minor = 0
    BY <1>2, <2>5, <2>6, <2>7, Zenon
  <2>9. QED
    BY <2>1, <2>2, <2>4, <2>8
<1>4. CASE req.connection # ""
  BY <1>1, <1>4 DEF announcement, PeerKeepsConnection
<1>5. QED
  BY <1>3, <1>4

LEMMA SendFileInv ==
    ASSUME TypeOK, Inv, Alive, state \in BeforeReply,
           NEW req \in Request, NEW size \in Nat, NEW mtime, send_file(req, size, mtime)
    PROVE  Inv'
<1> DEFINE persistent == supports_persistent_connection(req)
<1>1. /\ persistent \in BOOLEAN /\ announcement(req, persistent) \in Announcements
      /\ size \in OptionalNat /\ 0 \in OptionalNat /\ size # Unset /\ filefd = Unset
      /\ "COPY_FILE" \in ReplyStates /\ "FLUSH_BUFFER" \in ReplyStates
      /\ "COPY_FILE" # "FLUSH_BUFFER"
  BY PersistentType, AnnouncementType
     DEF OptionalNat, ReplyStates, Unset, Inv, NothingToSend
<1>2. /\ 200 \in StatusCodes \ {Unset} /\ 304 \in StatusCodes \ {Unset}
      /\ 404 \in StatusCodes \ {Unset} /\ 200 \notin {301, 400, 404} /\ 304 \notin {301, 400, 404}
  BY DEF StatusCodes, Unset
<1>3. \A due : persistent =>
          PeerKeepsConnection(req, NewReply(due, announcement(req, persistent)))
  BY AnnouncementAgrees
<1>4. \A due, code : PeerKeepsConnection(req, NewReply(due, announcement(req, persistent))) =>
          persistent \/ Unannounced(req, code, announcement(req, persistent))
  BY AnnouncementAgrees DEF Unannounced
<1> HIDE DEF persistent
<1>5. CASE not_modified(req, persistent)
  <2>1. start_reply(req, 304, persistent, "FLUSH_BUFFER", 0, announcement(req, persistent))
        /\ filefd' = Unset
    BY <1>1, <1>5 DEF not_modified
  <2>2. QED
    BY <1>1, <1>2, <1>3, <1>4, <2>1, StartReplyInv
<1>6. CASE /\ start_reply(req, 200, persistent, "FLUSH_BUFFER", 0,
                          announcement(req, persistent))
           /\ UNCHANGED filefd
  BY <1>1, <1>2, <1>3, <1>4, <1>6, StartReplyInv
<1>7. CASE /\ start_reply(req, 200, persistent, "COPY_FILE", size,
                          announcement(req, persistent))
           /\ filefd' = size
  BY <1>1, <1>2, <1>3, <1>4, <1>7, StartReplyInv
<1>8. CASE file_not_found(req)
  BY <1>2, <1>8, ClosingReplyInv DEF file_not_found
<1>9. QED
  BY <1>1, <1>5, <1>6, <1>7, <1>8 DEF send_file, persistent

LEMMA SetupReplyInv == TypeOK /\ Inv /\ setup_reply => Inv'
<1> SUFFICES ASSUME TypeOK, Inv, setup_reply PROVE Inv'
  OBVIOUS
<1> DEFINE req == [request EXCEPT !.host = TRUE]
<1>1. req \in Request
  BY DEF TypeOK, Request
<1>2. Alive /\ state \in BeforeReply
  BY DEF setup_reply, Running, Alive, BeforeReply
<1> HIDE DEF req
<1>3. CASE protocol_error(request)
  BY <1>2, <1>3, ProtocolErrorInv
<1>4. CASE urldecode_runs_off(req)
  <2>1. CASE /\ object' = "crashed" /\ filefd' = Unset
             /\ UNCHANGED <<state, read_buffer, write_buffer, request>>
    BY <2>1 DEF Inv, ModeMatchesState, Registered, ReadBufferBounded, FreshRequest,
       NothingToSend, FileOpenOnlyWhileCopying, PersistenceAgreed, LoggedOncePerReply,
       NoReplyClobbered, Alive
  <2>2. QED
    BY <1>4, <2>1, DeleteInv DEF urldecode_runs_off
<1>5. CASE reply_for_path(req)
  <2>1. CASE file_not_found(req)
    BY <1>1, <1>2, <2>1, ClosingReplyInv DEF file_not_found
  <2>2. CASE moved_permanently(req)
    BY <1>1, <1>2, <2>2, ClosingReplyInv DEF moved_permanently
  <2>3. ASSUME NEW size \in FileSizes, NEW mtime \in MTimes, send_file(req, size, mtime)
        PROVE  Inv'
    BY <1>1, <1>2, <2>3, SendFileInv, FilesAssumption
  <2>4. QED
    BY <1>5, <2>1, <2>2, <2>3 DEF reply_for_path
<1>6. QED
  BY <1>3, <1>4, <1>5 DEF setup_reply, req

LEMMA CopyFileInv == TypeOK /\ Inv /\ copy_file => Inv'
<1> SUFFICES ASSUME TypeOK, Inv, copy_file PROVE Inv'
  OBVIOUS
<1>1. object = "running" /\ state = "COPY_FILE" /\ state \in ReplyStates /\ Alive
  BY DEF copy_file, Running, ReplyStates, Alive
<1>2. CASE need_more_io
  BY <1>1, <1>2, NeedMoreInv
<1>3. CASE delete_this
  BY <1>3, DeleteInv
<1> DEFINE common == /\ object' = "waiting"
                     /\ UNCHANGED <<peerVars, poll_events, read_buffer, request,
                                    use_persistent_connection, unlogged>>
           copied == \/ state' = "FLUSH_BUFFER" /\ filefd' = Unset
                     \/ state' = "COPY_FILE" /\ filefd' # Unset
<1>4. ASSUME common, copied, reply'.announced = reply.announced,
             reply'.written + write_buffer' = ReplySize + reply'.body
      PROVE  Inv'
  <2>1. /\ object' = "waiting" /\ state' \in ReplyStates
        /\ UNCHANGED <<poll_events, read_buffer, request, use_persistent_connection, unlogged>>
    BY <1>4 DEF ReplyStates
  <2>2. PersistenceAgreed'
    BY <1>1, <1>4, <2>1, AgreementStays DEF Inv
  <2>3. (ModeMatchesState /\ Registered /\ ReadBufferBounded)'
    BY <1>1, <2>1 DEF Inv, ModeMatchesState, Registered, ReadBufferBounded, BeforeReply,
       ReadStates, ReplyStates
  <2>4. (FreshRequest /\ NothingToSend /\ FileOpenOnlyWhileCopying /\ LoggedOncePerReply)'
    BY <1>1, <1>4, <2>1 DEF Inv, FreshRequest, NothingToSend, FileOpenOnlyWhileCopying,
       LoggedOncePerReply, Alive, BeforeReply, ReadStates, ReplyStates
  <2>5. NoReplyClobbered'
    BY <1>4, <2>1 DEF NoReplyClobbered, BeforeReply, ReadStates, ReplyStates
  <2>6. QED
    BY <2>2, <2>3, <2>4, <2>5 DEF Inv
<1>0. /\ reply.written + write_buffer = ReplySize + reply.body
      /\ reply.written \in Nat /\ reply.body \in Nat /\ ReplySize \in Nat
  BY <1>1, SizesAssumption DEF Inv, NoReplyClobbered, TypeOK, Reply
<1>5. CASE end_of_file /\ common
  BY <1>0, <1>4, <1>5 DEF end_of_file
<1>6. ASSUME write_buffer = 0, NEW n \in 1..LeastOf(filefd, ChunkSize), copy_chunk(n), common
      PROVE  Inv'
  <2>1. filefd \in OptionalNat /\ n \in Nat /\ n >= 1 /\ n <= filefd
    BY DEF TypeOK, OptionalNat, Unset, LeastOf
  <2>2. filefd' # Unset
    BY <1>6, <2>1 DEF copy_chunk, OptionalNat, Unset
  <2>3. /\ reply'.announced = reply.announced /\ reply'.written = reply.written
        /\ reply'.body = reply.body + n /\ write_buffer' = n
    BY <1>6 DEF copy_chunk, TypeOK, Reply
  <2>4. reply'.written + write_buffer' = ReplySize + reply'.body
    BY <1>0, <1>6, <2>1, <2>3
  <2>5. QED
    BY <1>1, <1>4, <1>6, <2>2, <2>3, <2>4 DEF copy_chunk
<1>7. QED
  BY <1>2, <1>3, <1>5, <1>6 DEF copy_file

LEMMA FlushBufferInv == TypeOK /\ Inv /\ flush_buffer => Inv'
<1> SUFFICES ASSUME TypeOK, Inv, flush_buffer PROVE Inv'
  OBVIOUS
<1>1. /\ object = "running" /\ state = "FLUSH_BUFFER" /\ state \in ReplyStates /\ Alive
  BY DEF flush_buffer, Running, ReplyStates, Alive
<1>2. CASE need_more_io
  BY <1>1, <1>2, NeedMoreInv
<1>3. CASE delete_this
  BY <1>3, DeleteInv
<1>4. log_access => unlogged' = 0
  BY <1>1 DEF log_access, Inv, LoggedOncePerReply
<1>5. CASE write_buffer = 0 /\ log_access /\ restart_connection
  <2>1. /\ state' = "READ_REQUEST_LINE" /\ filefd' = Unset /\ request' = NoRequest
        /\ poll_events' = "POLLIN" /\ object' = "running" /\ write_buffer' = 0
        /\ read_buffer' = read_buffer /\ unlogged' = 0
    BY <1>4, <1>5 DEF restart_connection, reset, go_to_read_mode
  <2>2. QED
    BY <2>1 DEF Inv, ModeMatchesState, Registered, ReadBufferBounded, FreshRequest,
       NothingToSend, FileOpenOnlyWhileCopying, PersistenceAgreed, LoggedOncePerReply,
       NoReplyClobbered, BeforeReply, ReadStates, ReplyStates
<1>6. CASE shut_down_connection
  <2>1. /\ state' = "TERMINATE" /\ UNCHANGED <<read_buffer, write_buffer>>
        /\ \/ object' = "waiting" /\ UNCHANGED <<poll_events, filefd>>
           \/ object' = "deleted" /\ filefd' = Unset
    BY <1>6 DEF shut_down_connection, destroy
  <2>2. poll_events = "POLLOUT"
    BY <1>1 DEF Inv, Registered, BeforeReply, ReadStates, ReplyStates
  <2>3. filefd = Unset
    BY <1>1 DEF Inv, FileOpenOnlyWhileCopying
  <2>4. (ModeMatchesState /\ Registered /\ ReadBufferBounded /\ FreshRequest)'
    BY <2>1, <2>2 DEF Inv, ModeMatchesState, Registered, ReadBufferBounded, FreshRequest
  <2>5. (NothingToSend /\ FileOpenOnlyWhileCopying /\ PersistenceAgreed /\ LoggedOncePerReply
         /\ NoReplyClobbered)'
    BY <2>1, <2>3 DEF NothingToSend, FileOpenOnlyWhileCopying, PersistenceAgreed,
       LoggedOncePerReply, NoReplyClobbered, BeforeReply, ReadStates, ReplyStates
  <2>6. QED
    BY <2>4, <2>5 DEF Inv
<1>7. QED
  BY <1>2, <1>3, <1>5, <1>6 DEF flush_buffer

LEMMA StateHandlerInv == TypeOK /\ Inv /\ state_handler => Inv'
<1>1. Inv /\ terminate => Inv'
  BY DeleteInv DEF terminate
<1>2. QED
  BY <1>1, RequestLineInv, RequestHeaderInv, RequestBodyInv, SetupReplyInv, CopyFileInv,
     FlushBufferInv DEF state_handler

\* A callback hands over to the state handlers, in the state it was called in or
\* in TERMINATE.
LEMMA HandOverInv ==
    ASSUME Inv, object = "waiting", object' = "running", state' \in {state, "TERMINATE"},
           write_buffer' = write_buffer \/ state \notin ReadStates,
           read_buffer' <= 2 * MaxLineLength,
           reply'.written + write_buffer' = reply.written + write_buffer,
           reply'.body = reply.body, reply'.announced = reply.announced,
           UNCHANGED <<poll_events, filefd, request, use_persistent_connection, unlogged>>
    PROVE  Inv'
<1>1. /\ state \notin {"READ_REQUEST_BODY", "SETUP_REPLY"} /\ Alive
      /\ \/ poll_events = "POLLIN" /\ state \in ReadStates
         \/ poll_events = "POLLOUT" /\ state \in ReplyStates \cup {"TERMINATE"}
  BY DEF Inv, ModeMatchesState, ReadStates, ReplyStates, Alive
<1>2. (ModeMatchesState /\ Registered /\ ReadBufferBounded)'
  BY <1>1 DEF ModeMatchesState, Registered, ReadBufferBounded, BeforeReply, ReadStates, ReplyStates
<1>3. (FreshRequest /\ NothingToSend)'
  BY <1>1 DEF Inv, FreshRequest, NothingToSend, BeforeReply, ReadStates, ReplyStates
<1>4. (FileOpenOnlyWhileCopying /\ LoggedOncePerReply)'
  BY <1>1 DEF Inv, FileOpenOnlyWhileCopying, LoggedOncePerReply, Alive, ReadStates, ReplyStates
<1>5. PersistenceAgreed'
  BY <1>1, AgreementStays DEF Inv, ReplyStates
<1>6. NoReplyClobbered'
  BY <1>1, <1>3, NothingLost DEF Inv, NothingToSend, ReplyStates
<1>7. QED
  BY <1>2, <1>3, <1>4, <1>5, <1>6 DEF Inv

LEMMA CallbackInv == TypeOK /\ Inv /\ callback => Inv'
<1> SUFFICES ASSUME TypeOK, Inv PROVE callback => Inv'
  OBVIOUS
<1>1. ASSUME fd_is_readable PROVE Inv'
  <2>1. /\ object = "waiting" /\ poll_events = "POLLIN" /\ Alive
        /\ state \in ReadStates /\ state \in BeforeReply
    BY <1>1 DEF fd_is_readable, Inv, ModeMatchesState, Alive, BeforeReply
  <2>2. CASE protocol_error(request)
    BY <2>1, <2>2, ProtocolErrorInv
  <2>3. CASE delete_this
    BY <2>3, DeleteInv
  <2>4. CASE end_of_input
    BY <2>1, <2>4, HandOverInv
       DEF end_of_input, call_state_handler, ioVars, logVars, Inv, ReadBufferBounded
  <2>5. ASSUME ~flooded,
               NEW n \in 1..LeastOf(unread, MaxLineLength), read_buffer' = read_buffer + n,
               call_state_handler,
               UNCHANGED <<peer, stream, poll_events, state, write_buffer, filefd, request,
                           use_persistent_connection, logVars>>
        PROVE  Inv'
    <3>1. n \in Nat /\ n <= MaxLineLength
      BY DEF TypeOK, LeastOf
    <3>2. read_buffer' <= 2 * MaxLineLength
      BY <2>5, <3>1 DEF flooded, TypeOK
    <3>3. QED
      BY <2>1, <2>5, <3>2, HandOverInv DEF call_state_handler, logVars
  <2>6. QED
    BY <1>1, <2>2, <2>3, <2>4, <2>5 DEF fd_is_readable
<1>2. ASSUME fd_is_writable PROVE Inv'
  <2>1. object = "waiting" /\ state \notin ReadStates
    BY <1>2 DEF fd_is_writable, Inv, ModeMatchesState, ReadStates, ReplyStates
  <2>2. CASE delete_this
    BY <2>2, DeleteInv
  <2>3. CASE /\ \/ write_some
                \/ state' \in {state, "TERMINATE"} /\ UNCHANGED <<write_buffer, reply>>
             /\ call_state_handler
             /\ UNCHANGED <<peerVars, poll_events, read_buffer, filefd, request,
                            use_persistent_connection, unlogged>>
    BY <2>1, <2>3, WriteSome, HandOverInv DEF call_state_handler, Inv, ReadBufferBounded
  <2>4. QED
    BY <1>2, <2>2, <2>3 DEF fd_is_writable
<1>3. ASSUME read_timeout \/ write_timeout \/ error_condition PROVE Inv'
  BY <1>3, DeleteInv DEF read_timeout, write_timeout, error_condition
<1>4. ASSUME pollhup PROVE Inv'
  BY <1>4, DeleteInv, HandOverInv
     DEF pollhup, call_state_handler, ioVars, logVars, Inv, ReadBufferBounded
<1>5. QED
  BY <1>1, <1>2, <1>3, <1>4 DEF callback

\* The peer does not touch what the invariant is about.
LEMMA UntouchedInv ==
    ASSUME Inv, UNCHANGED <<object, poll_events, state, read_buffer, write_buffer, request,
                            use_persistent_connection, reply, unlogged>>,
           filefd' = filefd \/ (filefd # Unset /\ filefd' # Unset)
    PROVE  Inv'
<1>1. PersistenceAgreed'
  BY AgreementStays DEF Inv, Alive
<1>2. QED
  BY <1>1 DEF Inv, ModeMatchesState, Registered, ReadBufferBounded, FreshRequest, NothingToSend,
     FileOpenOnlyWhileCopying, LoggedOncePerReply, NoReplyClobbered, Alive

LEMMA EnvironmentInv == TypeOK /\ Inv /\ environment => Inv'
<1> SUFFICES ASSUME Inv PROVE environment => Inv'
  OBVIOUS
<1>1. ASSUME NEW line \in Lines, PeerSend(line) PROVE Inv'
  BY <1>1, UntouchedInv DEF PeerSend, ioVars, logVars
<1>2. ASSUME PeerClose \/ PeerReset PROVE Inv'
  BY <1>2, UntouchedInv DEF PeerClose, PeerReset, ioVars, logVars
<1>3. ASSUME FileChanges PROVE Inv'
  <2>1. Unset \notin FileSizes
    BY FilesAssumption DEF Unset
  <2>2. QED
    BY <1>3, <2>1, UntouchedInv DEF FileChanges, logVars
<1>4. QED
  BY <1>1, <1>2, <1>3 DEF environment

LEMMA InitInv == Init => Inv
<1> SUFFICES ASSUME Init PROVE Inv
  OBVIOUS
<1>1. /\ object = "waiting" /\ poll_events = "POLLIN" /\ state = "READ_REQUEST_LINE"
      /\ read_buffer = 0 /\ write_buffer = 0 /\ filefd = Unset /\ request = NoRequest
      /\ unlogged = 0
  BY DEF Init
<1>2. QED
  BY <1>1 DEF Inv, ModeMatchesState, Registered, ReadBufferBounded, FreshRequest, NothingToSend,
     FileOpenOnlyWhileCopying, PersistenceAgreed, LoggedOncePerReply, NoReplyClobbered,
     ReadStates, ReplyStates, BeforeReply

LEMMA NextInv == TypeOK /\ Inv /\ [Next]_vars => Inv'
<1>1. Inv /\ UNCHANGED vars => Inv'
  BY UntouchedInv DEF vars, ioVars, logVars
<1>2. QED
  BY <1>1, StateHandlerInv, CallbackInv, EnvironmentInv DEF Next

\* The inductive invariant holds in every reachable state, with files that
\* change under the handler or not.
THEOREM InvCorrect == Spec => []Inv
  BY TypeCorrect, InitInv, NextInv, PTL DEF Spec

\* A waiting handler is registered for what its state needs.
THEOREM ModeCorrect == Spec => []ModeMatchesState
  BY InvCorrect, PTL DEF Inv

\* However the peer cuts its input, read_buffer holds at most two reads' worth.
THEOREM BufferCorrect == Spec => []ReadBufferBounded
  BY InvCorrect, PTL DEF Inv

\* Nothing of an earlier request of the connection is left when the next one
\* is awaited.
THEOREM FreshCorrect == Spec => []FreshRequest
  BY InvCorrect, PTL DEF Inv

\* The file descriptor does not leak.
THEOREM DescriptorCorrect == Spec => []FileOpenOnlyWhileCopying
  BY InvCorrect, PTL DEF Inv

\* Both ends agree on whether the connection is kept, in both directions, but for
\* the replies that close it and do not say so (ClosesUnannounced).
THEOREM PersistenceCorrect == Spec => []PersistenceAgreed
  BY InvCorrect, PTL DEF Inv

\* Every byte that was put into write_buffer is written or still there: no reply
\* and no chunk is put over an earlier one.
THEOREM ReplyNotClobbered == Spec => []NoReplyClobbered
  BY InvCorrect, PTL DEF Inv

\* Between two requests, every reply has been logged exactly once.
THEOREM LogCorrect == Spec => []LoggedOncePerReply
  BY InvCorrect, PTL DEF Inv

-----------------------------------------------------------------------------
(* The bytes of the input. *)

LEMMA LinesLengths == \A line \in Line \cup RestLine : line.len \in Nat
  BY LineLength DEF Lengths

\* The recursive definition of bytes_of means what it says.
LEMMA BytesDefined ==
    ASSUME NEW lines \in Seq(Line \cup RestLine)
    PROVE  \E f \in [0..Len(lines) -> Nat] :
               /\ f[0] = 0 /\ \A k \in 1..Len(lines) : f[k] = f[k - 1] + lines[k].len
               /\ bytes_of(lines) = f[Len(lines)]
<1> DEFINE step == [k \in 1..Len(lines) |-> [n \in Nat |-> n + lines[k].len]]
           Sums(f) == f = [k \in 0..Len(lines) |-> IF k = 0 THEN 0 ELSE f[k - 1] + lines[k].len]
<1>1. \A k \in 1..Len(lines) : lines[k].len \in Nat
  BY LinesLengths
<1>2. step \in [1..Len(lines) -> [Nat -> Nat]] /\ Len(lines) \in Nat /\ 0 \in Nat
  BY <1>1
<1>3. PICK f \in [0..Len(lines) -> Nat] : Iterates(f, Len(lines), 0, step)
  <2> HIDE DEF step
  <2>1. QED
    BY <1>2, IterationExists
<1>4. \A k \in 1..Len(lines) : f[k] = f[k - 1] + lines[k].len
  <2> SUFFICES ASSUME NEW k \in 1..Len(lines) PROVE f[k] = f[k - 1] + lines[k].len
    OBVIOUS
  <2>1. f[k - 1] \in Nat
    OBVIOUS
  <2>2. step[k][f[k - 1]] = f[k - 1] + lines[k].len
    BY <2>1
  <2>3. QED
    BY <1>3, <2>2 DEF Iterates
<1>5. f[0] = 0
  BY <1>3 DEF Iterates
<1>6. Sums(f)
  BY <1>4, <1>5
<1>7. bytes_of(lines) = (CHOOSE total : Sums(total))[Len(lines)]
  BY DEF bytes_of
<1>8. PICK g : Sums(g) /\ bytes_of(lines) = g[Len(lines)]
  <2> HIDE DEF Sums
  <2>1. Sums(CHOOSE total : Sums(total))
    BY <1>6, Zenon
  <2>2. QED
    BY <1>7, <2>1, Zenon
<1>9. \A k \in 0..Len(lines) : g[k] = f[k]
  <2> DEFINE S == {k \in 0..Len(lines) : g[k] = f[k]}
  <2>1. g[0] = 0 /\ \A k \in 1..Len(lines) : g[k] = g[k - 1] + lines[k].len
    BY <1>8
  <2>2. 0 \in S /\ \A n \in S : n \in 0..(Len(lines) - 1) => n + 1 \in S
    BY <1>4, <1>5, <2>1
  <2>3. 0..Len(lines) \subseteq S
    <3> HIDE DEF S
    <3>1. QED
      BY <2>2, InductiveRange
  <2>4. QED
    BY <2>3
<1>10. bytes_of(lines) = f[Len(lines)]
  <2>1. Len(lines) \in 0..Len(lines)
    OBVIOUS
  <2>2. QED
    BY <1>8, <1>9, <2>1
<1>11. QED
  BY <1>4, <1>5, <1>10

LEMMA NoBytes == bytes_of(<<>>) = 0
<1>1. <<>> \in Seq(Line \cup RestLine) /\ Len(<<>>) = 0
  OBVIOUS
<1>2. QED
  BY <1>1, BytesDefined

LEMMA BytesType == ASSUME NEW lines \in Seq(Line \cup RestLine) PROVE bytes_of(lines) \in Nat
  BY BytesDefined

\* A line that arrives adds its length,
LEMMA BytesAppended ==
    ASSUME NEW lines \in Seq(Line \cup RestLine), NEW line \in Line \cup RestLine
    PROVE  bytes_of(Append(lines, line)) = bytes_of(lines) + line.len
<1> DEFINE N == Len(lines)
           longer == Append(lines, line)
<1>1. /\ longer \in Seq(Line \cup RestLine) /\ Len(longer) = N + 1 /\ N \in Nat
      /\ longer[N + 1] = line /\ \A k \in 1..N : longer[k] = lines[k]
  BY AppendProperties
<1> HIDE DEF longer
<1>2. PICK f \in [0..N -> Nat] :
          /\ f[0] = 0 /\ \A k \in 1..N : f[k] = f[k - 1] + lines[k].len
          /\ bytes_of(lines) = f[N]
  BY BytesDefined
<1>3. PICK g \in [0..(N + 1) -> Nat] :
          /\ g[0] = 0 /\ \A k \in 1..(N + 1) : g[k] = g[k - 1] + longer[k].len
          /\ bytes_of(longer) = g[N + 1]
  BY <1>1, BytesDefined
<1> DEFINE S == {k \in 0..N : f[k] = g[k]}
<1>4. 0 \in S
  BY <1>1, <1>2, <1>3
<1>5. ASSUME NEW n \in S, n \in 0..(N - 1) PROVE n + 1 \in S
  <2>1. n + 1 \in 1..N /\ n + 1 \in 1..(N + 1) /\ n + 1 - 1 = n
    BY <1>1, <1>5
  <2>2. f[n + 1] = f[n] + lines[n + 1].len /\ g[n + 1] = g[n] + lines[n + 1].len
    BY <1>1, <1>2, <1>3, <2>1
  <2>3. QED
    BY <1>5, <2>1, <2>2
<1>6. N \in S
  <2> HIDE DEF S
  <2>1. 0..N \subseteq S
    BY <1>1, <1>4, <1>5, InductiveRange
  <2>2. QED
    BY <1>1, <2>1
<1>7. g[N + 1] = g[N] + line.len
  BY <1>1, <1>3
<1>8. QED
  BY <1>2, <1>3, <1>6, <1>7 DEF longer

\* and one that is consumed takes it away.
LEMMA BytesConsumed ==
    ASSUME NEW lines \in Seq(Line \cup RestLine), lines # <<>>
    PROVE  bytes_of(lines) = Head(lines).len + bytes_of(Tail(lines))
<1> DEFINE N == Len(lines) - 1
           left == Tail(lines)
<1>1. /\ left \in Seq(Line \cup RestLine) /\ Len(left) = N /\ N \in Nat /\ Len(lines) = N + 1
      /\ Head(lines) = lines[1] /\ \A k \in 1..N : left[k] = lines[k + 1]
  BY HeadTailProperties
<1> HIDE DEF left, N
<1>2. PICK f \in [0..(N + 1) -> Nat] :
          /\ f[0] = 0 /\ \A k \in 1..(N + 1) : f[k] = f[k - 1] + lines[k].len
          /\ bytes_of(lines) = f[N + 1]
  BY <1>1, BytesDefined
<1>3. PICK g \in [0..N -> Nat] :
          /\ g[0] = 0 /\ \A k \in 1..N : g[k] = g[k - 1] + left[k].len
          /\ bytes_of(left) = g[N]
  BY <1>1, BytesDefined
<1>4. \A k \in 1..(N + 1) : lines[k].len \in Nat
  BY <1>1, LinesLengths
<1> DEFINE S == {k \in 0..N : f[k + 1] = lines[1].len + g[k]}
<1>5. 0 \in S
  BY <1>1, <1>2, <1>3, <1>4
<1>6. ASSUME NEW n \in S, n \in 0..(N - 1) PROVE n + 1 \in S
  <2>1. /\ n + 1 \in 1..N /\ n + 2 \in 1..(N + 1) /\ 1 \in 1..(N + 1) /\ n \in 0..N
        /\ n + 1 - 1 = n /\ n + 2 - 1 = n + 1 /\ n + 1 + 1 = n + 2
    BY <1>1, <1>6
  <2>2. f[n + 2] = f[n + 1] + lines[n + 2].len
    BY <1>2, <2>1
  <2>3. g[n + 1] = g[n] + lines[n + 2].len
    <3>1. left[n + 1] = lines[n + 1 + 1]
      BY <1>1, <2>1
    <3>2. g[n + 1] = g[n + 1 - 1] + left[n + 1].len
      BY <1>3, <2>1
    <3>3. QED
      BY <2>1, <3>1, <3>2
  <2>4. g[n] \in Nat /\ lines[n + 2].len \in Nat /\ lines[1].len \in Nat
    BY <1>3, <1>4, <2>1
  <2>5. f[n + 1] = lines[1].len + g[n]
    BY <1>6
  <2>6. f[n + 2] = lines[1].len + g[n + 1] /\ n + 1 \in 0..N
    BY <2>1, <2>2, <2>3, <2>4, <2>5
  <2>7. QED
    BY <2>1, <2>6
<1>7. N \in S
  <2> HIDE DEF S
  <2>1. 0..N \subseteq S
    BY <1>1, <1>5, <1>6, InductiveRange
  <2>2. QED
    BY <1>1, <2>1
<1>8. QED
  BY <1>1, <1>2, <1>3, <1>7 DEF left

\* A line that is cut loses what was cut off.
LEMMA BytesCut ==
    ASSUME NEW lines \in Seq(Line \cup RestLine), lines # <<>>, NEW line \in Line \cup RestLine
    PROVE  bytes_of([lines EXCEPT ![1] = line]) = bytes_of(lines) - Head(lines).len + line.len
<1> DEFINE cut == [lines EXCEPT ![1] = line]
<1>1. 1 \in 1..Len(lines) /\ Len(lines) \in Nat
  OBVIOUS
<1>2. /\ cut \in Seq(Line \cup RestLine) /\ Len(cut) = Len(lines)
      /\ \A k \in 1..Len(lines) : cut[k] = IF k = 1 THEN line ELSE lines[k]
  BY <1>1, ExceptSeq
<1> HIDE DEF cut
<1>3. cut # <<>> /\ Head(cut) = line
  BY <1>1, <1>2
<1>4. Tail(cut) = Tail(lines)
  <2>1. /\ Tail(cut) \in Seq(Line \cup RestLine) /\ Len(Tail(cut)) = Len(lines) - 1
        /\ \A k \in 1..(Len(lines) - 1) : Tail(cut)[k] = cut[k + 1]
    BY <1>2, <1>3, HeadTailProperties
  <2>2. /\ Tail(lines) \in Seq(Line \cup RestLine) /\ Len(Tail(lines)) = Len(lines) - 1
        /\ \A k \in 1..(Len(lines) - 1) : Tail(lines)[k] = lines[k + 1]
    BY HeadTailProperties
  <2>3. \A k \in 1..(Len(lines) - 1) : Tail(cut)[k] = Tail(lines)[k]
    BY <1>1, <1>2, <2>1, <2>2
  <2>4. QED
    BY <2>1, <2>2, <2>3, SeqEqual
<1>5. bytes_of(lines) = Head(lines).len + bytes_of(Tail(lines))
  BY BytesConsumed
<1>6. bytes_of(cut) = line.len + bytes_of(Tail(lines))
  BY <1>2, <1>3, <1>4, BytesConsumed
<1>7. Head(lines).len \in Nat /\ line.len \in Nat /\ bytes_of(Tail(lines)) \in Nat
  <2>1. Head(lines) \in Line \cup RestLine /\ Tail(lines) \in Seq(Line \cup RestLine)
    BY HeadTailProperties
  <2>2. QED
    BY <2>1, BytesType, LinesLengths
<1>8. QED
  BY <1>5, <1>6, <1>7 DEF cut

-----------------------------------------------------------------------------
(* What becomes of the input.  As far as InputInv goes, every step is one  *)
(* of these kinds.                                                         *)

InputKept == UNCHANGED <<stream, unread, read_buffer>>

LineSent ==
    /\ \E line \in Line : stream' = Append(stream, line) /\ unread' = unread + line.len
    /\ UNCHANGED <<object, state, read_buffer, request, use_persistent_connection>>

InputLost ==
    /\ unread' \in Nat /\ unread' <= unread
    /\ UNCHANGED <<stream, object, state, read_buffer, request, use_persistent_connection>>

CalledBack ==
    /\ object = "waiting" /\ object' = "running" /\ state' \in {state, "TERMINATE"}
    /\ read_buffer' + unread' = read_buffer + unread
    /\ UNCHANGED <<stream, request, use_persistent_connection>>

NeedsMore ==
    /\ object = "running" /\ object' = "waiting" /\ InputKept
    /\ UNCHANGED <<state, request, use_persistent_connection>>
    /\ state = "READ_REQUEST_LINE" => ~has_crlf
    /\ state = "READ_REQUEST_HEADER" => read_buffer < 2

Refuses ==
    /\ Alive /\ object' = "waiting" /\ state' = "FLUSH_BUFFER" /\ InputKept
    /\ request'.status_code = 400 /\ ~use_persistent_connection'

Parses ==
    /\ object = "running" /\ object' = "running" /\ state \in ReadStates
    /\ request'.status_code = request.status_code
    /\ \/ HeadComplete /\ ~header_cut /\ consume_line /\ state' \in BeforeReply
       \/ only_first_part /\ consume_first_part /\ state' = "READ_REQUEST_HEADER"

BodySkipped ==
    /\ state = "READ_REQUEST_BODY" /\ state' = "SETUP_REPLY"
    /\ object = "running" /\ object' = "running" /\ InputKept
    /\ UNCHANGED <<request, use_persistent_connection>>

ReplyMade ==
    /\ object = "running" /\ object' = "waiting" /\ InputKept
    /\ state \in {"SETUP_REPLY", "COPY_FILE"} /\ state' \in ReplyStates

ReplyFinished ==
    /\ object = "running" /\ state = "FLUSH_BUFFER" /\ InputKept
    /\ \/ /\ use_persistent_connection /\ request' = NoRequest
          /\ state' = "READ_REQUEST_LINE" /\ object' = "running"
       \/ /\ state' = "TERMINATE" /\ UNCHANGED request

HandlerGone ==
    /\ object' \in {"deleted", "crashed"} /\ InputKept /\ UNCHANGED request

InputKinds ==
    \/ LineSent \/ InputLost \/ CalledBack \/ NeedsMore \/ Refuses \/ Parses
    \/ BodySkipped \/ ReplyMade \/ ReplyFinished \/ HandlerGone

LEMMA RefusesKind == ASSUME TypeOK, Alive, protocol_error(request) PROVE Refuses
  BY DEF protocol_error, closing_reply, start_reply, Refuses, InputKept, peerVars, TypeOK, Request

LEMMA GoneKind == delete_this => HandlerGone
  BY DEF delete_this, destroy, HandlerGone, InputKept, peerVars

LEMMA NeedsMoreKind ==
    ASSUME object = "running", need_more_io, state = "READ_REQUEST_LINE" => ~has_crlf,
           state = "READ_REQUEST_HEADER" => read_buffer < 2
    PROVE  NeedsMore
  BY DEF need_more_io, NeedsMore, InputKept, peerVars, ioVars

LEMMA RequestLineKinds == ASSUME TypeOK, get_request_line PROVE InputKinds
<1>1. Running("READ_REQUEST_LINE") /\ Alive
  BY DEF get_request_line, Running, Alive
<1>2. CASE ~has_crlf /\ need_more_io
  BY <1>1, <1>2, NeedsMoreKind DEF Running, InputKinds
<1>3. CASE /\ has_crlf /\ Head(stream).kind = "request" /\ consume_line
           /\ request' = [request EXCEPT !.method = Head(stream).method,
                  !.major = Head(stream).major, !.minor = Head(stream).minor,
                  !.url_host = Head(stream).url_host, !.path = Head(stream).path]
           /\ state' = "READ_REQUEST_HEADER"
  <2>1. HeadComplete /\ ~header_cut
    BY <1>3, RequestLineComplete DEF header_cut
  <2>2. request'.status_code = request.status_code
    BY <1>3 DEF TypeOK, Request
  <2>3. object' = "running"
    BY <1>3 DEF consume_line, erase
  <2>4. QED
    BY <1>1, <1>3, <2>1, <2>2, <2>3 DEF Running, Parses, InputKinds, ReadStates, BeforeReply
<1>4. CASE protocol_error(request)
  BY <1>1, <1>4, RefusesKind DEF InputKinds
<1>5. QED
  BY <1>2, <1>3, <1>4 DEF get_request_line

LEMMA NotedStatus ==
    ASSUME NEW req \in Request, NEW h PROVE note_header(req, h).status_code = req.status_code
  BY DEF note_header, Request

LEMMA RequestHeaderKinds == ASSUME TypeOK, get_request_header PROVE InputKinds
<1>1. Running("READ_REQUEST_HEADER") /\ Alive /\ request \in Request
  BY DEF get_request_header, Running, Alive, TypeOK
<1>2. CASE ~have_complete_header_line /\ need_more_io
  <2>1. read_buffer < 2
    BY <1>2 DEF have_complete_header_line, TypeOK
  <2>2. QED
    BY <1>1, <1>2, <2>1, NeedsMoreKind DEF Running, InputKinds
<1>3. CASE protocol_error(request)
  BY <1>1, <1>3, RefusesKind DEF InputKinds
<1>4. CASE end_of_header /\ consume_line /\ state' = "READ_REQUEST_BODY" /\ UNCHANGED request
  <2>1. HeadComplete /\ ~header_cut
    BY <1>4 DEF end_of_header, header_cut
  <2>2. object' = "running"
    BY <1>4 DEF consume_line, erase
  <2>3. QED
    BY <1>1, <1>4, <2>1, <2>2 DEF Running, Parses, InputKinds, ReadStates, BeforeReply
<1>5. ASSUME NEW h, request' = note_header(request, h), UNCHANGED state,
             \/ only_first_part /\ consume_first_part
             \/ HeadComplete /\ Head(stream).kind = "header" /\ consume_line
      PROVE  InputKinds
  <2>1. request'.status_code = request.status_code
    BY <1>1, <1>5, NotedStatus
  <2>2. object' = "running" /\ (Head(stream).kind = "header" => ~header_cut)
    BY <1>5 DEF consume_line, consume_first_part, erase, header_cut
  <2>3. QED
    BY <1>1, <1>5, <2>1, <2>2 DEF Running, Parses, InputKinds, ReadStates, BeforeReply
<1>6. QED
  BY <1>2, <1>3, <1>4, <1>5 DEF get_request_header, get_header, header_parses

LEMMA StartReplyKinds ==
    ASSUME Running("SETUP_REPLY"), NEW req, NEW code, NEW persistent, NEW next \in ReplyStates,
           NEW due, NEW announced, start_reply(req, code, persistent, next, due, announced)
    PROVE  InputKinds
  BY DEF Running, start_reply, ReplyMade, InputKinds, InputKept, peerVars

LEMMA SetupReplyKinds == ASSUME TypeOK, setup_reply PROVE InputKinds
<1>1. Running("SETUP_REPLY") /\ "FLUSH_BUFFER" \in ReplyStates /\ "COPY_FILE" \in ReplyStates
  BY DEF setup_reply, ReplyStates
<1>2. ASSUME NEW req, NEW code, closing_reply(req, code) PROVE InputKinds
  BY <1>1, <1>2, StartReplyKinds DEF closing_reply
<1>3. ASSUME NEW req, NEW size, NEW mtime, send_file(req, size, mtime) PROVE InputKinds
  BY <1>1, <1>2, <1>3, StartReplyKinds DEF send_file, not_modified, file_not_found
<1>4. ASSUME NEW req, urldecode_runs_off(req) PROVE InputKinds
  <2>1. HandlerGone
    BY <1>4, GoneKind DEF urldecode_runs_off, HandlerGone, InputKept, peerVars
  <2>2. QED
    BY <2>1 DEF InputKinds
<1>5. ASSUME NEW req, reply_for_path(req) PROVE InputKinds
  BY <1>2, <1>3, <1>5 DEF reply_for_path, file_not_found, moved_permanently
<1>6. QED
  BY <1>2, <1>4, <1>5 DEF setup_reply, protocol_error

LEMMA StateHandlerKinds == ASSUME TypeOK, state_handler PROVE InputKinds
<1>1. CASE get_request_body
  BY <1>1 DEF get_request_body, Running, BodySkipped, InputKinds, InputKept, peerVars, ioVars
<1>2. CASE copy_file
  <2>1. object = "running" /\ state = "COPY_FILE"
    BY <1>2 DEF copy_file, Running
  <2>2. CASE need_more_io \/ delete_this
    BY <2>1, <2>2, NeedsMoreKind, GoneKind DEF InputKinds
  <2>3. CASE state' \in ReplyStates /\ object' = "waiting" /\ UNCHANGED <<peerVars, read_buffer>>
    BY <2>1, <2>3 DEF ReplyMade, InputKinds, InputKept, peerVars
  <2>4. QED
    BY <1>2, <2>1, <2>2, <2>3 DEF copy_file, end_of_file, copy_chunk, ReplyStates
<1>3. CASE flush_buffer
  <2>1. object = "running" /\ state = "FLUSH_BUFFER"
    BY <1>3 DEF flush_buffer, Running
  <2>2. CASE need_more_io \/ delete_this
    BY <2>1, <2>2, NeedsMoreKind, GoneKind DEF InputKinds
  <2>3. CASE use_persistent_connection /\ restart_connection
    BY <2>1, <2>3 DEF restart_connection, reset, ReplyFinished, InputKinds, InputKept, peerVars
  <2>4. CASE shut_down_connection
    BY <2>1, <2>4 DEF shut_down_connection, ReplyFinished, InputKinds, InputKept, peerVars
  <2>5. QED
    BY <1>3, <2>2, <2>3, <2>4 DEF flush_buffer
<1>4. CASE terminate
  BY <1>4, GoneKind DEF terminate, InputKinds
<1>5. QED
  BY <1>1, <1>2, <1>3, <1>4, RequestLineKinds, RequestHeaderKinds, SetupReplyKinds DEF state_handler

LEMMA CallbackKinds == ASSUME TypeOK, callback PROVE InputKinds
<1>1. object = "waiting" /\ Alive
  BY DEF callback, fd_is_readable, fd_is_writable, read_timeout, write_timeout,
     error_condition, pollhup, Alive
<1>2. CASE protocol_error(request) \/ delete_this
  BY <1>1, <1>2, RefusesKind, GoneKind DEF InputKinds
<1>3. CASE /\ object' = "running" /\ state' \in {state, "TERMINATE"}
           /\ UNCHANGED <<stream, unread, read_buffer, request, use_persistent_connection>>
  BY <1>1, <1>3 DEF CalledBack, InputKinds
<1>4. ASSUME NEW n \in 1..LeastOf(unread, MaxLineLength), unread' = unread - n,
             read_buffer' = read_buffer + n, object' = "running",
             UNCHANGED <<stream, state, request, use_persistent_connection>>
      PROVE  InputKinds
  <2>1. n \in Nat /\ read_buffer \in Nat /\ unread \in Nat
    BY DEF TypeOK, LeastOf
  <2>2. read_buffer' + unread' = read_buffer + unread
    BY <1>4, <2>1
  <2>3. QED
    BY <1>1, <1>4, <2>2 DEF CalledBack, InputKinds
<1>5. CASE fd_is_readable
  BY <1>2, <1>3, <1>4, <1>5 DEF fd_is_readable, end_of_input, call_state_handler, peerVars, ioVars
<1>6. CASE fd_is_writable
  BY <1>2, <1>3, <1>6 DEF fd_is_writable, write_some, accepted, call_state_handler, peerVars
<1>7. CASE pollhup
  BY <1>2, <1>3, <1>7 DEF pollhup, call_state_handler, peerVars, ioVars
<1>8. QED
  BY <1>2, <1>5, <1>6, <1>7 DEF callback, read_timeout, write_timeout, error_condition

LEMMA EveryStepKind == ASSUME TypeOK, [Next]_vars PROVE InputKinds
<1>1. ASSUME NEW line \in Lines, PeerSend(line) PROVE InputKinds
  BY <1>1, LinesAssumption DEF PeerSend, LineSent, InputKinds, ioVars
<1>2. CASE PeerClose \/ PeerReset
  BY <1>2 DEF PeerClose, PeerReset, InputLost, InputKinds, TypeOK, ioVars
<1>3. CASE FileChanges \/ UNCHANGED vars
  BY <1>3 DEF FileChanges, vars, InputLost, InputKinds, TypeOK, peerVars, ioVars
<1>4. QED
  BY <1>1, <1>2, <1>3, StateHandlerKinds, CallbackKinds DEF Next, environment

-----------------------------------------------------------------------------
(* The invariant about the input. *)

\* What the kinds mean for the stream: it is typed, and so is what is left.
LEMMA StreamTyped ==
    TypeOK => /\ stream \in Seq(Line \cup RestLine) /\ read_buffer \in Nat /\ unread \in Nat
              /\ bytes_of(stream) \in Nat
  BY BytesType DEF TypeOK

LEMMA NextBuffered == ASSUME TypeOK, BufferedWasSent, InputKinds PROVE BufferedWasSent'
<1>1. /\ stream \in Seq(Line \cup RestLine) /\ read_buffer \in Nat /\ unread \in Nat
      /\ bytes_of(stream) \in Nat /\ read_buffer + unread <= bytes_of(stream)
  BY StreamTyped DEF BufferedWasSent
<1>2. CASE LineSent
  <2>1. PICK line \in Line : stream' = Append(stream, line) /\ unread' = unread + line.len
    BY <1>2 DEF LineSent
  <2>2. line.len \in Nat /\ bytes_of(stream') = bytes_of(stream) + line.len
    BY <1>1, <2>1, BytesAppended, LinesLengths
  <2>3. read_buffer' = read_buffer
    BY <1>2 DEF LineSent
  <2>4. read_buffer' + unread' <= bytes_of(stream')
    BY <1>1, <2>1, <2>2, <2>3
  <2>5. QED
    BY <2>4 DEF BufferedWasSent
<1>3. CASE Parses /\ HeadComplete /\ consume_line
  <2>1. /\ stream # <<>> /\ stream' = Tail(stream) /\ unread' = unread
        /\ read_buffer' = read_buffer - Head(stream).len
    BY <1>3 DEF HeadComplete, consume_line, erase
  <2>2. bytes_of(stream) = Head(stream).len + bytes_of(stream')
    BY <1>1, <2>1, BytesConsumed
  <2>3. Head(stream).len \in Nat /\ bytes_of(stream') \in Nat
    BY <1>1, <1>3, <2>1, HeadLine, BytesType DEF Lengths
  <2>4. read_buffer' + unread' <= bytes_of(stream')
    BY <1>1, <2>1, <2>2, <2>3
  <2>5. QED
    BY <2>4 DEF BufferedWasSent
<1>4. CASE Parses /\ only_first_part /\ consume_first_part
  <2>1. /\ stream # <<>> /\ stream' = [stream EXCEPT ![1] = rest(@)] /\ unread' = unread
        /\ read_buffer' = read_buffer - Head(stream).fold
    BY <1>4 DEF only_first_part, consume_first_part, erase
  <2>2. Head(stream) = stream[1] /\ Head(stream) \in Line \cup RestLine /\ folded(Head(stream))
    BY <1>1, <1>4, <2>1 DEF only_first_part
  <2>3. /\ rest(Head(stream)) \in Line \cup RestLine
        /\ Head(stream).fold \in Nat /\ Head(stream).len \in Nat
    BY <2>2, FoldLength, LinesLengths
  <2>4. stream' = [stream EXCEPT ![1] = rest(Head(stream))]
    BY <2>1, <2>2, Zenon
  <2>5. bytes_of(stream') = bytes_of(stream) - Head(stream).len + rest(Head(stream)).len
    BY <1>1, <2>1, <2>3, <2>4, BytesCut
  <2>6. rest(Head(stream)).len = Head(stream).len - Head(stream).fold
    BY DEF rest
  <2>7. read_buffer' + unread' <= bytes_of(stream')
    BY <1>1, <2>1, <2>3, <2>5, <2>6
  <2>8. QED
    BY <2>7 DEF BufferedWasSent
<1>5. CASE stream' = stream /\ read_buffer' + unread' <= read_buffer + unread
          /\ read_buffer' + unread' \in Int
  BY <1>1, <1>5 DEF BufferedWasSent
<1>6. CASE InputLost
  <2>1. /\ stream' = stream /\ read_buffer' = read_buffer
        /\ unread' \in Nat /\ unread' <= unread
    BY <1>6 DEF InputLost
  <2>2. read_buffer' + unread' \in Int /\ read_buffer' + unread' <= read_buffer + unread
    <3>1. read_buffer \in Nat /\ unread \in Nat
      BY <1>1
    <3>2. \A a, b, c \in Nat : c <= b => a + c \in Int /\ a + c <= a + b
      OBVIOUS
    <3>3. QED
      BY <2>1, <3>1, <3>2
  <2>3. QED
    BY <1>5, <2>1, <2>2
<1>7. CASE CalledBack
  BY <1>1, <1>5, <1>7 DEF CalledBack
<1>8. CASE InputKept
  BY <1>1, <1>5, <1>8 DEF InputKept
<1>9. QED
  BY <1>2, <1>3, <1>4, <1>6, <1>7, <1>8 DEF InputKinds, Parses, NeedsMore, Refuses, BodySkipped,
     ReplyMade, ReplyFinished, HandlerGone

\* A handler that comes to rest has looked at all it has; a line that arrives
\* then is not in read_buffer, which is empty if stream was.
LEMMA NextNoLostWakeup ==
    ASSUME TypeOK, BufferedWasSent, NoLostWakeup, InputKinds PROVE NoLostWakeup'
<1>1. /\ stream \in Seq(Line \cup RestLine) /\ read_buffer \in Nat /\ unread \in Nat
      /\ read_buffer + unread <= bytes_of(stream)
  BY StreamTyped DEF BufferedWasSent
<1>2. CASE stream' = stream /\ read_buffer' = read_buffer /\ object' = object /\ state' = state
  BY <1>2 DEF NoLostWakeup, has_crlf, HeadComplete
<1>3. CASE LineSent
  <2>1. PICK line \in Line : stream' = Append(stream, line)
    BY <1>3 DEF LineSent
  <2>2. read_buffer' = read_buffer /\ object' = object /\ state' = state
    BY <1>3 DEF LineSent
  <2>3. CASE stream = <<>>
    <3>1. read_buffer = 0
      BY <1>1, <2>3, NoBytes
    <3>2. Head(stream') = line /\ line.len \in Lengths
      BY <2>1, <2>3, LineLength
    <3>3. ~HeadComplete'
      BY <2>2, <3>1, <3>2 DEF HeadComplete, Lengths
    <3>4. ~has_crlf'
      <4>1. folded(line) => line.fold \in Nat \ {0}
        BY FoldLength
      <4>2. QED
        BY <2>2, <3>1, <3>2, <3>3, <4>1 DEF has_crlf
    <3>5. QED
      BY <2>2, <3>1, <3>3, <3>4 DEF NoLostWakeup
  <2>4. CASE stream # <<>>
    <3>1. stream' # <<>> /\ Head(stream') = Head(stream)
      BY <1>1, <2>1, <2>4
    <3>2. HeadComplete' = HeadComplete /\ has_crlf' = has_crlf
      BY <2>2, <2>4, <3>1 DEF HeadComplete, has_crlf
    <3>3. QED
      BY <2>2, <3>2 DEF NoLostWakeup
  <2>5. QED
    BY <2>3, <2>4
<1>4. CASE NeedsMore
  <2>1. /\ stream' = stream /\ read_buffer' = read_buffer /\ state' = state
        /\ state = "READ_REQUEST_LINE" => ~has_crlf
        /\ state = "READ_REQUEST_HEADER" => read_buffer < 2
    BY <1>4 DEF NeedsMore, InputKept
  <2>2. HeadComplete => read_buffer >= 2
    <3>1. HeadComplete => Head(stream).len \in Lengths /\ read_buffer >= Head(stream).len
      BY HeadLine DEF HeadComplete
    <3>2. QED
      BY <1>1, <3>1 DEF Lengths
  <2>3. QED
    BY <1>1, <2>1, <2>2 DEF NoLostWakeup, HeadComplete, has_crlf
<1>5. CASE object' # "waiting" \/ state' \notin ReadStates
  BY <1>5 DEF NoLostWakeup, ReadStates
<1>6. QED
  BY <1>2, <1>3, <1>4, <1>5 DEF InputKinds, InputLost, CalledBack, Refuses, Parses, BodySkipped,
     ReplyMade, ReplyFinished, HandlerGone, ReplyStates, ReadStates

LEMMA NoRequestStatus == NoRequest.status_code = Unset
  BY Zenon DEF NoRequest

LEMMA NextNoStatus == ASSUME TypeOK, NoStatusYet, InputKinds PROVE NoStatusYet'
<1>1. CASE Parses
  BY <1>1 DEF Parses, NoStatusYet, Alive, BeforeReply
<1>2. CASE CalledBack
  <2>1. request' = request /\ state' \in {state, "TERMINATE"} /\ Alive
    BY <1>2 DEF CalledBack, Alive
  <2>2. QED
    BY <2>1 DEF NoStatusYet, BeforeReply, ReadStates
<1>3. CASE NeedsMore \/ BodySkipped
  <2>1. request' = request /\ Alive /\ (state' \in BeforeReply => state \in BeforeReply)
    BY <1>3 DEF NeedsMore, BodySkipped, Alive, BeforeReply
  <2>2. QED
    BY <2>1 DEF NoStatusYet
<1>4. CASE InputLost \/ LineSent
  BY <1>4 DEF InputLost, LineSent, NoStatusYet, Alive
<1>5. CASE Refuses \/ ReplyMade
  BY <1>5 DEF Refuses, ReplyMade, NoStatusYet, BeforeReply, ReadStates, ReplyStates
<1>6. CASE ReplyFinished
  BY <1>6, NoRequestStatus DEF ReplyFinished, NoStatusYet, BeforeReply, ReadStates
<1>7. CASE HandlerGone
  BY <1>7 DEF HandlerGone, NoStatusYet, Alive
<1>8. QED
  BY <1>1, <1>2, <1>3, <1>4, <1>5, <1>6, <1>7 DEF InputKinds

\* The peer sends lines, not what is left of one.
LEMMA LineNotRest == ASSUME NEW line \in Line PROVE line.kind # "rest"
  BY DEF Line, RequestLine, Header, BlankLine, JunkLine

CutInFront == \A k \in 2..Len(stream) : stream[k].kind # "rest"

\* Lines leave the stream at the front and join it at the end, and only the
\* first is ever cut.
LEMMA NextCutInFront == ASSUME TypeOK, CutInFront, InputKinds PROVE CutInFront'
<1>1. stream \in Seq(Line \cup RestLine)
  BY DEF TypeOK
<1>2. CASE LineSent
  <2>1. PICK line \in Line : stream' = Append(stream, line)
    BY <1>2 DEF LineSent
  <2>2. /\ Len(stream') = Len(stream) + 1 /\ stream'[Len(stream) + 1] = line
        /\ \A k \in 1..Len(stream) : stream'[k] = stream[k]
    BY <1>1, <2>1, AppendProperties
  <2>3. QED
    BY <1>1, <2>2, LineNotRest DEF CutInFront
<1>3. CASE stream # <<>> /\ stream' = Tail(stream)
  <2>1. /\ Len(stream') = Len(stream) - 1
        /\ \A k \in 1..(Len(stream) - 1) : stream'[k] = stream[k + 1]
    BY <1>1, <1>3, HeadTailProperties
  <2>2. \A k \in 2..Len(stream') : k + 1 \in 2..Len(stream) /\ k \in 1..(Len(stream) - 1)
    BY <1>1, <2>1
  <2>3. QED
    BY <2>1, <2>2 DEF CutInFront
<1>4. CASE stream # <<>> /\ stream' = [stream EXCEPT ![1] = rest(@)]
  <2>1. Len(stream') = Len(stream) /\ \A k \in 2..Len(stream) : stream'[k] = stream[k]
    BY <1>1, <1>4
  <2>2. QED
    BY <2>1 DEF CutInFront
<1>5. CASE stream' = stream
  BY <1>5 DEF CutInFront
<1>6. CASE Parses
  BY <1>3, <1>4, <1>6 DEF Parses, HeadComplete, only_first_part, consume_line,
     consume_first_part, erase
<1>7. QED
  BY <1>2, <1>5, <1>6 DEF InputKinds, InputLost, CalledBack, NeedsMore, Refuses, BodySkipped,
     ReplyMade, ReplyFinished, HandlerGone, InputKept

\* A header that was not cut before is cut now only by the handler, which
\* then awaits the rest of it.
LEMMA NewlyCut ==
    ASSUME TypeOK, CutInFront, NoStatusYet, InputKinds, ~header_cut, header_cut'
    PROVE  state' = "READ_REQUEST_HEADER" /\ request'.status_code = Unset
<1>1. stream \in Seq(Line \cup RestLine)
  BY DEF TypeOK
<1>2. stream' # stream
  BY DEF header_cut
<1>3. ~LineSent
  <2> SUFFICES ASSUME LineSent PROVE FALSE
    OBVIOUS
  <2>1. PICK line \in Line : stream' = Append(stream, line)
    BY DEF LineSent
  <2>2. Head(stream') = IF stream = <<>> THEN line ELSE Head(stream)
    BY <1>1, <2>1
  <2>3. QED
    BY <2>2, LineNotRest DEF header_cut
<1>4. ~(stream # <<>> /\ stream' = Tail(stream))
  <2> SUFFICES ASSUME stream # <<>>, stream' = Tail(stream) PROVE FALSE
    OBVIOUS
  <2>1. stream' # <<>> /\ Head(stream').kind = "rest"
    BY DEF header_cut
  <2>2. Head(stream') = stream[2] /\ 2 \in 2..Len(stream)
    BY <1>1, <2>1
  <2>3. QED
    BY <2>1, <2>2 DEF CutInFront
<1>5. Parses
  BY <1>2, <1>3 DEF InputKinds, InputLost, CalledBack, NeedsMore, Refuses, BodySkipped,
     ReplyMade, ReplyFinished, HandlerGone, InputKept
<1>6. state' = "READ_REQUEST_HEADER"
  BY <1>4, <1>5 DEF Parses, HeadComplete, consume_line, erase
<1>7. request.status_code = Unset
  BY <1>5 DEF Parses, NoStatusYet, Alive, BeforeReply
<1>8. QED
  BY <1>5, <1>6, <1>7 DEF Parses

CutAwaited ==
    /\ request.status_code \in {Unset, 400}
    /\ Alive => \/ state \in {"READ_REQUEST_HEADER", "TERMINATE"}
                \/ /\ state = "FLUSH_BUFFER" /\ ~use_persistent_connection
                   /\ request.status_code = 400

\* The rest of a cut header stays at the front.
LEMMA CutStays == ASSUME TypeOK, InputKinds, header_cut PROVE header_cut' /\ ~Parses
<1>1. stream \in Seq(Line \cup RestLine) /\ stream # <<>> /\ Head(stream).kind = "rest"
  BY DEF TypeOK, header_cut
<1>2. ~Parses
  BY <1>1 DEF Parses, header_cut, only_first_part, folded
<1>3. CASE LineSent
  <2>1. PICK line \in Line : stream' = Append(stream, line)
    BY <1>3 DEF LineSent
  <2>2. stream' # <<>> /\ Head(stream') = Head(stream)
    BY <1>1, <2>1
  <2>3. QED
    BY <1>1, <1>2, <2>2 DEF header_cut
<1>4. CASE stream' = stream
  BY <1>2, <1>4 DEF header_cut
<1>5. QED
  BY <1>2, <1>3, <1>4 DEF InputKinds, InputLost, CalledBack, NeedsMore, Refuses, BodySkipped,
     ReplyMade, ReplyFinished, HandlerGone, InputKept

\* What is done with the request meanwhile: it is refused if anything.
LEMMA NextCutAwaited == ASSUME TypeOK, InputKinds, header_cut, CutAwaited PROVE CutAwaited'
<1>1. CASE LineSent \/ InputLost
  BY <1>1 DEF LineSent, InputLost, CutAwaited, Alive
<1>2. CASE CalledBack
  <2>1. /\ Alive /\ state' \in {state, "TERMINATE"} /\ request' = request
        /\ use_persistent_connection' = use_persistent_connection
    BY <1>2 DEF CalledBack, Alive
  <2>2. QED
    BY <2>1 DEF CutAwaited
<1>3. CASE NeedsMore
  <2>1. /\ Alive /\ state' = state /\ request' = request
        /\ use_persistent_connection' = use_persistent_connection
    BY <1>3 DEF NeedsMore, Alive
  <2>2. QED
    BY <2>1 DEF CutAwaited
<1>4. CASE Refuses
  BY <1>4 DEF Refuses, CutAwaited
<1>5. ~BodySkipped /\ ~ReplyMade
  BY DEF BodySkipped, ReplyMade, CutAwaited, Alive
<1>6. CASE ReplyFinished
  <2>1. object = "running" /\ state = "FLUSH_BUFFER"
    BY <1>6 DEF ReplyFinished
  <2>2. ~use_persistent_connection
    BY <2>1 DEF CutAwaited, Alive
  <2>3. state' = "TERMINATE" /\ request' = request
    BY <1>6, <2>2 DEF ReplyFinished
  <2>4. QED
    BY <2>3 DEF CutAwaited
<1>7. CASE HandlerGone
  BY <1>7 DEF HandlerGone, CutAwaited, Alive
<1>8. QED
  BY <1>1, <1>2, <1>3, <1>4, <1>5, <1>6, <1>7, CutStays DEF InputKinds

LEMMA NextCut ==
    ASSUME TypeOK, CutHeaderStays, NoStatusYet, InputKinds PROVE CutHeaderStays'
<1>1. CutInFront /\ (header_cut => CutAwaited)
  BY DEF CutHeaderStays, CutInFront, CutAwaited
<1>2. CutInFront'
  BY <1>1, NextCutInFront
<1>3. ASSUME header_cut' PROVE CutAwaited'
  <2>1. CASE header_cut
    BY <1>1, <2>1, NextCutAwaited
  <2>2. CASE ~header_cut
    <3>1. state' = "READ_REQUEST_HEADER" /\ request'.status_code = Unset
      BY <1>1, <1>3, <2>2, NewlyCut
    <3>2. QED
      BY <3>1 DEF CutAwaited
  <2>3. QED
    BY <2>1, <2>2
<1>4. QED
  BY <1>2, <1>3 DEF CutHeaderStays, CutInFront, CutAwaited

LEMMA InitInput == Init => InputInv
<1> SUFFICES ASSUME Init PROVE InputInv
  OBVIOUS
<1>1. /\ stream = <<>> /\ unread = 0 /\ read_buffer = 0 /\ state = "READ_REQUEST_LINE"
      /\ request = NoRequest
  BY DEF Init
<1>2. BufferedWasSent
  BY <1>1, NoBytes DEF BufferedWasSent
<1>3. QED
  BY <1>1, <1>2, NoRequestStatus DEF InputInv, NoLostWakeup, has_crlf, HeadComplete,
     CutHeaderStays, header_cut, NoStatusYet

LEMMA NextInput == ASSUME TypeOK, InputInv, [Next]_vars PROVE InputInv'
  BY EveryStepKind, NextBuffered, NextNoLostWakeup, NextCut, NextNoStatus DEF InputInv

\* What the handler has of its input, it has been sent, and has looked at when
\* it waits for more.
THEOREM InputCorrect == Spec => []InputInv
<1>1. TypeOK /\ InputInv /\ [Next]_vars => InputInv'
  BY NextInput
<1>2. QED
  BY <1>1, InitInput, TypeCorrect, PTL DEF Spec

\* No wakeup is lost, however the peer's bytes are cut into reads and however
\* many requests arrive in one.
THEOREM WakeupCorrect == Spec => []NoLostWakeup
<1>1. InputInv => NoLostWakeup
  BY DEF InputInv
<1>2. QED
  BY <1>1, InputCorrect, PTL

\* Only the flood check of fd_is_readable answers a waiting handler's input.
LEMMA OnlyFloodRejects ==
    ASSUME [Next]_vars, object = "waiting", state \in ReadStates, state' = "FLUSH_BUFFER"
    PROVE  flooded
<1>1. state # "FLUSH_BUFFER" /\ state # "TERMINATE"
  BY DEF ReadStates
<1>2. ~environment /\ ~state_handler /\ ~ UNCHANGED vars
  BY <1>1 DEF environment, PeerSend, PeerClose, PeerReset, FileChanges, vars, state_handler, Running,
     get_request_line, get_request_header, get_request_body, setup_reply, copy_file, flush_buffer,
     terminate
<1>3. ~ delete_this
  BY <1>1 DEF delete_this
<1>4. fd_is_readable
  BY <1>1, <1>2, <1>3 DEF Next, callback, fd_is_writable, write_some, accepted, read_timeout,
     write_timeout, error_condition, pollhup
<1>5. QED
  BY <1>1, <1>3, <1>4 DEF fd_is_readable, end_of_input

\* Input is rejected unread only for a line that is longer than the limit.
THEOREM FloodCorrect == Spec => FloodRejectsOnlyLongLines
<1>1. ASSUME TypeOK, InputInv, [Next]_vars, object = "waiting", state' = "FLUSH_BUFFER",
             state \in ReadStates
      PROVE  stream # <<>> /\ Head(stream).len > MaxLineLength
  <2>1. /\ read_buffer \in Nat /\ unread \in Nat /\ MaxLineLength \in Nat \ {0}
        /\ stream \in Seq(Line \cup RestLine)
    BY <1>1, SizesAssumption DEF TypeOK
  <2>2. read_buffer > MaxLineLength
    BY <1>1, OnlyFloodRejects DEF flooded
  <2>3. read_buffer >= 2
    BY <2>1, <2>2
  <2>4. stream # <<>>
    BY <1>1, <2>1, <2>2, NoBytes DEF InputInv, BufferedWasSent
  <2>5. ~HeadComplete
    BY <1>1, <2>1, <2>3 DEF InputInv, NoLostWakeup, ReadStates, has_crlf
  <2>6. Head(stream).len \in Nat
    BY <2>1, <2>4, LinesLengths
  <2>7. QED
    BY <2>1, <2>2, <2>4, <2>5, <2>6 DEF HeadComplete
<1>2. TypeOK /\ InputInv /\ [Next]_vars
          => [object = "waiting" /\ state' = "FLUSH_BUFFER" /\ state \in ReadStates
                  => stream # <<>> /\ Head(stream).len > MaxLineLength]_vars
  BY <1>1
<1>3. QED
  BY <1>2, TypeCorrect, InputCorrect, PTL DEF Spec, FloodRejectsOnlyLongLines

\* A header that was cut at its fold decides no reply.
THEOREM CutHeaderCorrect == Spec => CutHeaderRefused
<1>1. ASSUME TypeOK, InputInv, [Next]_vars
      PROVE  [header_cut => header_cut' /\ request'.status_code \in {Unset, 400}]_vars
  <2> SUFFICES ASSUME header_cut PROVE header_cut' /\ request'.status_code \in {Unset, 400}
    OBVIOUS
  <2>1. InputKinds
    BY <1>1, EveryStepKind
  <2>2. header_cut'
    BY <1>1, <2>1, CutStays
  <2>3. CutHeaderStays'
    BY <1>1, <2>1, NextCut DEF InputInv
  <2>4. QED
    BY <2>2, <2>3 DEF CutHeaderStays
<1>2. QED
  BY <1>1, TypeCorrect, InputCorrect, PTL DEF Spec, CutHeaderRefused

-----------------------------------------------------------------------------
(* What the refinement and the action property need to know of a step.     *)
(* Every step is one of these kinds.                                       *)

Replies ==      \* a reply is put into write_buffer
    /\ Alive /\ state \in BeforeReply
    /\ object' = "waiting" /\ state' \in ReplyStates
    /\ use_persistent_connection' \in BOOLEAN /\ unlogged' = unlogged + 1

Ends ==         \* the handler is deleted, or the process dies
    /\ Alive /\ object' \in {"deleted", "crashed"}

Reads ==        \* towards a complete request
    /\ Alive /\ object' \in {"waiting", "running"}
    /\ state \in BeforeReply /\ state' \in BeforeReply
    /\ unlogged' = unlogged

Sends ==        \* towards a complete reply
    /\ Alive /\ object' \in {"waiting", "running"}
    /\ state \in ReplyStates /\ state' \in ReplyStates
    /\ UNCHANGED <<use_persistent_connection, unlogged>>

Finishes ==     \* a reply was sent and logged
    /\ Alive /\ object' \in {"waiting", "running"}
    /\ state = "FLUSH_BUFFER" /\ unlogged' = unlogged - 1
    /\ IF use_persistent_connection THEN state' = "READ_REQUEST_LINE" ELSE state' = "TERMINATE"

Drains ==       \* the peer stopped, or the connection was shut down
    /\ Alive /\ object' \in {"waiting", "running"}
    /\ state' = "TERMINATE" /\ unlogged' = unlogged

Elsewhere ==    \* what the handler does not notice
    UNCHANGED <<object, state, use_persistent_connection, unlogged>>

Kinds == Replies \/ Ends \/ Reads \/ Sends \/ Finishes \/ Drains \/ Elsewhere

LEMMA StartReplyKind ==
    ASSUME TypeOK, Alive, state \in BeforeReply,
           NEW req, NEW code, NEW persistent \in BOOLEAN, NEW next \in ReplyStates, NEW due,
           NEW announced, start_reply(req, code, persistent, next, due, announced)
    PROVE  Kinds
  BY DEF start_reply, Kinds, Replies

LEMMA ClosingReplyKind ==
    ASSUME TypeOK, Alive, state \in BeforeReply, NEW req, NEW code, closing_reply(req, code)
    PROVE  Kinds
<1>1. "FLUSH_BUFFER" \in ReplyStates
  BY DEF ReplyStates
<1>2. start_reply(req, code, FALSE, "FLUSH_BUFFER", Unset, announcement(req, FALSE))
  BY DEF closing_reply
<1>3. QED
  BY <1>1, <1>2, StartReplyKind

LEMMA DeleteKind == ASSUME Alive, delete_this PROVE Kinds
  BY DEF delete_this, destroy, Kinds, Ends

LEMMA NeedMoreKind ==
    ASSUME TypeOK, Alive, state \in ReadStates \cup ReplyStates, need_more_io PROVE Kinds
  BY DEF need_more_io, ioVars, logVars, Kinds, Reads, Sends, BeforeReply, TypeOK

LEMMA ConsumeKind ==
    ASSUME Alive, state \in BeforeReply, state' \in BeforeReply,
           consume_line \/ consume_first_part
    PROVE  Kinds
  BY DEF consume_line, consume_first_part, erase, logVars, Kinds, Reads

LEMMA SendFileKind ==
    ASSUME TypeOK, Alive, state \in BeforeReply, NEW req, NEW size, NEW mtime,
           send_file(req, size, mtime)
    PROVE  Kinds
<1> DEFINE persistent == supports_persistent_connection(req)
<1>1. /\ persistent \in BOOLEAN /\ "COPY_FILE" \in ReplyStates /\ "FLUSH_BUFFER" \in ReplyStates
      /\ "COPY_FILE" # "FLUSH_BUFFER"
  BY PersistentType DEF ReplyStates
<1> HIDE DEF persistent
<1>2. CASE not_modified(req, persistent)
  BY <1>1, <1>2, StartReplyKind DEF not_modified
<1>3. CASE start_reply(req, 200, persistent, "FLUSH_BUFFER", 0, announcement(req, persistent))
  BY <1>1, <1>3, StartReplyKind
<1>4. CASE start_reply(req, 200, persistent, "COPY_FILE", size, announcement(req, persistent))
  BY <1>1, <1>4, StartReplyKind
<1>5. CASE file_not_found(req)
  BY <1>5, ClosingReplyKind DEF file_not_found
<1>6. QED
  BY <1>1, <1>2, <1>3, <1>4, <1>5 DEF send_file, persistent

LEMMA SetupReplyKind == ASSUME TypeOK, setup_reply PROVE Kinds
<1> DEFINE req == [request EXCEPT !.host = TRUE]
<1>1. Alive /\ state \in BeforeReply
  BY DEF setup_reply, Running, Alive, BeforeReply
<1> HIDE DEF req
<1>2. CASE protocol_error(request)
  BY <1>1, <1>2, ClosingReplyKind DEF protocol_error
<1>3. CASE urldecode_runs_off(req)
  BY <1>1, <1>3, DeleteKind DEF urldecode_runs_off, Kinds, Ends
<1>4. CASE reply_for_path(req)
  <2>1. CASE file_not_found(req) \/ moved_permanently(req)
    BY <1>1, <2>1, ClosingReplyKind DEF file_not_found, moved_permanently
  <2>2. ASSUME NEW size \in FileSizes, NEW mtime \in MTimes, send_file(req, size, mtime)
        PROVE  Kinds
    BY <1>1, <2>2, SendFileKind
  <2>3. QED
    BY <1>4, <2>1, <2>2 DEF reply_for_path
<1>5. QED
  BY <1>2, <1>3, <1>4 DEF setup_reply, req

LEMMA HandlerKind == ASSUME TypeOK, Inv, state_handler PROVE Kinds
<1>1. CASE get_request_line
  <2>1. /\ Alive /\ state \in BeforeReply /\ state \in ReadStates
        /\ "READ_REQUEST_HEADER" \in BeforeReply
    BY <1>1 DEF get_request_line, Running, Alive, BeforeReply, ReadStates
  <2>2. QED
    BY <1>1, <2>1, NeedMoreKind, ConsumeKind, ClosingReplyKind DEF get_request_line, protocol_error
<1>2. CASE get_request_header
  <2>1. /\ Alive /\ state \in BeforeReply /\ state \in ReadStates
        /\ "READ_REQUEST_BODY" \in BeforeReply
    BY <1>2 DEF get_request_header, Running, Alive, BeforeReply, ReadStates
  <2>2. QED
    BY <1>2, <2>1, NeedMoreKind, ConsumeKind, ClosingReplyKind
       DEF get_request_header, get_header, protocol_error
<1>3. CASE get_request_body
  BY <1>3 DEF get_request_body, Running, Alive, BeforeReply, ioVars, logVars, Kinds, Reads
<1>4. CASE setup_reply
  BY <1>4, SetupReplyKind
<1>5. CASE copy_file
  <2>1. Alive /\ state = "COPY_FILE" /\ "COPY_FILE" \in ReplyStates /\ "FLUSH_BUFFER" \in ReplyStates
    BY <1>5 DEF copy_file, Running, Alive, ReplyStates
  <2>2. CASE need_more_io
    BY <2>1, <2>2, NeedMoreKind
  <2>3. CASE delete_this
    BY <2>1, <2>3, DeleteKind
  <2>4. CASE /\ write_buffer = 0 /\ object' = "waiting" /\ state' \in ReplyStates
             /\ UNCHANGED <<use_persistent_connection, unlogged>>
    BY <2>1, <2>4 DEF Kinds, Sends
  <2>5. QED
    BY <1>5, <2>1, <2>2, <2>3, <2>4 DEF copy_file, copy_chunk, end_of_file
<1>6. CASE flush_buffer
  <2>1. Alive /\ state = "FLUSH_BUFFER" /\ state \in ReplyStates /\ request.status_code # Unset
    BY <1>6 DEF flush_buffer, Running, Alive, ReplyStates, Inv, LoggedOncePerReply
  <2>2. CASE need_more_io
    BY <2>1, <2>2, NeedMoreKind
  <2>3. CASE delete_this
    BY <2>1, <2>3, DeleteKind
  <2>4. CASE log_access /\ use_persistent_connection /\ restart_connection
    BY <2>1, <2>4 DEF log_access, restart_connection, reset, Kinds, Finishes
  <2>5. CASE log_access /\ ~use_persistent_connection /\ shut_down_connection
    BY <2>1, <2>5 DEF log_access, shut_down_connection, destroy, Kinds, Finishes, Ends
  <2>6. QED
    BY <1>6, <2>2, <2>3, <2>4, <2>5 DEF flush_buffer
<1>7. CASE terminate
  BY <1>7, DeleteKind DEF terminate, Running, Alive
<1>8. QED
  BY <1>1, <1>2, <1>3, <1>4, <1>5, <1>6, <1>7 DEF state_handler

LEMMA CallbackKind == ASSUME TypeOK, Inv, callback PROVE Kinds
<1>1. CASE fd_is_readable
  <2>1. /\ Alive /\ state \in ReadStates /\ state \in BeforeReply
    BY <1>1 DEF fd_is_readable, Inv, ModeMatchesState, Alive, BeforeReply
  <2>2. CASE protocol_error(request) \/ delete_this
    BY <2>1, <2>2, ClosingReplyKind, DeleteKind DEF protocol_error
  <2>3. CASE end_of_input
    BY <2>1, <2>3 DEF end_of_input, call_state_handler, ioVars, logVars, Kinds, Drains
  <2>4. CASE call_state_handler /\ UNCHANGED <<state, write_buffer, logVars>>
    BY <2>1, <2>4 DEF call_state_handler, logVars, Kinds, Reads
  <2>5. QED
    BY <1>1, <2>2, <2>3, <2>4 DEF fd_is_readable
<1>2. CASE fd_is_writable
  <2>1. Alive /\ state \in ReplyStates \cup {"TERMINATE"}
    BY <1>2 DEF fd_is_writable, Inv, ModeMatchesState, Alive, ReadStates, ReplyStates
  <2>2. CASE delete_this
    BY <2>1, <2>2, DeleteKind
  <2>3. CASE /\ call_state_handler
             /\ UNCHANGED <<use_persistent_connection, unlogged>>
             /\ \/ state # "TERMINATE" /\ write_some
                \/ state' = "TERMINATE"
                \/ UNCHANGED state
    <3>1. CASE state # "TERMINATE" /\ write_some
      BY <2>1, <2>3, <3>1, WriteSome DEF call_state_handler, Kinds, Sends
    <3>2. CASE state' = "TERMINATE"
      BY <2>1, <2>3, <3>2 DEF call_state_handler, Kinds, Drains
    <3>3. CASE UNCHANGED state /\ state \in ReplyStates
      BY <2>1, <2>3, <3>3 DEF call_state_handler, Kinds, Sends
    <3>4. QED
      BY <2>1, <2>3, <3>1, <3>2, <3>3
  <2>4. QED
    BY <1>2, <2>2, <2>3 DEF fd_is_writable
<1>3. CASE read_timeout \/ write_timeout \/ error_condition
  BY <1>3, DeleteKind DEF read_timeout, write_timeout, error_condition, Alive
<1>4. CASE pollhup
  BY <1>4, DeleteKind
     DEF pollhup, call_state_handler, Alive, ioVars, logVars, Kinds, Drains
<1>5. QED
  BY <1>1, <1>2, <1>3, <1>4 DEF callback

LEMMA StepKind == ASSUME TypeOK, Inv, [Next]_vars PROVE Kinds
<1>1. CASE environment
  BY <1>1 DEF environment, PeerSend, PeerClose, PeerReset, FileChanges, ioVars, logVars,
     Kinds, Elsewhere
<1>2. CASE UNCHANGED vars
  BY <1>2 DEF vars, ioVars, logVars, Kinds, Elsewhere
<1>3. QED
  BY <1>1, <1>2, CallbackKind, HandlerKind DEF Next

-----------------------------------------------------------------------------
(* Refinement. *)

LEMMA RefinesInit == Init => Connection!Init
  BY DEF Init, Connection!Init, phase, keep, owed, Alive, ReplyStates

LEMMA RefinesNext ==
    ASSUME TypeOK, Inv, [Next]_vars
    PROVE  [Connection!Next]_(Connection!vars)
<1>1. /\ BeforeReply \cap ReplyStates = {} /\ "TERMINATE" \notin BeforeReply \cup ReplyStates
      /\ "READ_REQUEST_LINE" \in BeforeReply /\ "FLUSH_BUFFER" \in ReplyStates
  BY DEF BeforeReply, ReadStates, ReplyStates
<1>2. Alive => state \in BeforeReply \cup ReplyStates \cup {"TERMINATE"}
  BY <1>1 DEF TypeOK, States, BeforeReply, ReadStates, ReplyStates
<1>3. object' \in {"waiting", "running"} => Alive'
  BY DEF Alive
<1>4. /\ use_persistent_connection \in BOOLEAN /\ unlogged \in Int
  BY DEF TypeOK
<1>5. CASE Replies
  <2>1. phase = "receiving" /\ phase' = "replying" /\ keep' = use_persistent_connection'
        /\ owed' = owed + 1
    BY <1>1, <1>3, <1>5 DEF Replies, phase, keep, owed
  <2>2. QED
    BY <1>5, <2>1 DEF Replies, Connection!Next, Connection!StartReply
<1>6. CASE Ends
  <2>1. phase # "closed" /\ phase' = "closed" /\ keep' = FALSE /\ owed' = 0
    BY <1>6 DEF Ends, phase, keep, owed, Alive
  <2>2. QED
    BY <2>1 DEF Connection!Next, Connection!Close
<1>7. CASE Reads
  BY <1>1, <1>3, <1>7 DEF Reads, phase, keep, owed, Connection!vars
<1>8. CASE Sends
  BY <1>1, <1>3, <1>8 DEF Sends, phase, keep, owed, Connection!vars
<1>9. CASE Finishes
  <2>1. /\ phase = "replying" /\ keep = use_persistent_connection
        /\ owed = unlogged /\ owed' = unlogged'
    BY <1>1, <1>3, <1>4, <1>9 DEF Finishes, phase, keep, owed
  <2>2. owed' = owed - 1
    BY <2>1, <1>9 DEF Finishes
  <2>3. phase' = IF use_persistent_connection THEN "receiving" ELSE "draining"
    <3>1. CASE use_persistent_connection
      BY <1>1, <1>3, <1>9, <3>1 DEF Finishes, phase
    <3>2. CASE ~use_persistent_connection
      BY <1>1, <1>3, <1>9, <3>2 DEF Finishes, phase
    <3>3. QED
      BY <3>1, <3>2
  <2>4. keep' = FALSE
    BY <2>3 DEF keep
  <2>5. QED
    BY <2>1, <2>2, <2>3, <2>4 DEF Connection!Next, Connection!FinishReply
<1>10. CASE Drains
  <2>1. phase' = "draining" /\ keep' = FALSE /\ owed' = owed
    BY <1>1, <1>3, <1>10 DEF Drains, phase, keep, owed
  <2>2. phase \in {"receiving", "replying", "draining"} /\ (phase = "draining" => keep = FALSE)
    BY <1>10 DEF Drains, phase, keep
  <2>3. QED
    BY <2>1, <2>2 DEF Connection!Next, Connection!PeerStops, Connection!vars
<1>11. CASE Elsewhere
  BY <1>11 DEF Elsewhere, phase, keep, owed, Alive, Connection!vars
<1>12. QED
  BY <1>5, <1>6, <1>7, <1>8, <1>9, <1>10, <1>11, StepKind DEF Kinds

\* Every behaviour of the handler is one that HttpConnection promises.
THEOREM Refinement == Spec => ImplementsConnection
  BY RefinesInit, RefinesNext, TypeCorrect, InvCorrect, PTL
     DEF Spec, ImplementsConnection, Connection!Spec

-----------------------------------------------------------------------------
(* Framing.  KeepAliveFraming is not inductive: it rests on the file being  *)
(* as long as its head announced at every chunk (CopyInStep), so that the   *)
(* body is as long when the file ends (BodyComplete), and on nothing of the *)
(* body being lost on its way to the socket (NoReplyClobbered, in Inv).     *)
(* Only when no other process changes the file does either hold.            *)

BodyComplete ==
    Alive /\ state = "FLUSH_BUFFER" /\ use_persistent_connection => reply.body = reply.due

Framing == CopyInStep /\ BodyComplete

LEMMA InitFraming == Init => Framing
  BY DEF Init, Framing, CopyInStep, BodyComplete

\* A reply just started is in step if the open file is as long as announced, or
\* if there is no body to announce, or if the connection ends with it.
LEMMA StartReplyFraming ==
    ASSUME NEW req, NEW code, NEW persistent \in BOOLEAN, NEW next \in ReplyStates, NEW due,
           NEW announced, start_reply(req, code, persistent, next, due, announced),
           next = "COPY_FILE" => due \in Nat /\ filefd' = due,
           next = "FLUSH_BUFFER" /\ persistent => due = 0
    PROVE  Framing'
<1>1. state' = next /\ reply'.body = 0 /\ reply'.due = due /\ use_persistent_connection' = persistent
  BY DEF start_reply, NewReply
<1>2. CASE next = "COPY_FILE"
  BY <1>1, <1>2 DEF Framing, CopyInStep, BodyComplete
<1>3. CASE next = "FLUSH_BUFFER"
  BY <1>1, <1>3 DEF Framing, CopyInStep, BodyComplete
<1>4. QED
  BY <1>2, <1>3 DEF ReplyStates

LEMMA ClosingReplyFraming ==
    ASSUME NEW req, NEW code, closing_reply(req, code) PROVE Framing'
<1>1. start_reply(req, code, FALSE, "FLUSH_BUFFER", Unset, announcement(req, FALSE))
  BY DEF closing_reply
<1>2. "FLUSH_BUFFER" \in ReplyStates /\ FALSE \in BOOLEAN
  BY DEF ReplyStates
<1>3. QED
  BY <1>1, <1>2, StartReplyFraming

LEMMA SendFileFraming ==
    ASSUME NEW req, NEW size \in FileSizes, NEW mtime, send_file(req, size, mtime)
    PROVE  Framing'
<1> DEFINE persistent == supports_persistent_connection(req)
<1>1. /\ persistent \in BOOLEAN /\ "COPY_FILE" \in ReplyStates /\ "FLUSH_BUFFER" \in ReplyStates
      /\ "COPY_FILE" # "FLUSH_BUFFER" /\ size \in Nat
  BY PersistentType, FilesAssumption DEF ReplyStates
<1> HIDE DEF persistent
<1>2. CASE not_modified(req, persistent)
  BY <1>1, <1>2, StartReplyFraming DEF not_modified
<1>3. CASE start_reply(req, 200, persistent, "FLUSH_BUFFER", 0, announcement(req, persistent))
  BY <1>1, <1>3, StartReplyFraming
<1>4. CASE /\ start_reply(req, 200, persistent, "COPY_FILE", size, announcement(req, persistent))
           /\ filefd' = size
  BY <1>1, <1>4, StartReplyFraming
<1>5. CASE file_not_found(req)
  BY <1>5, ClosingReplyFraming DEF file_not_found
<1>6. QED
  BY <1>1, <1>2, <1>3, <1>4, <1>5 DEF send_file, persistent

\* Ending the handler, and going where there is no reply.
LEMMA LeavesFraming ==
    ASSUME object' \notin {"waiting", "running"} \/ state' \notin ReplyStates PROVE Framing'
  BY DEF Framing, CopyInStep, BodyComplete, Alive, ReplyStates

LEMMA StaysFraming ==
    ASSUME Framing, Alive' => Alive, reply'.body = reply.body, reply'.due = reply.due,
           UNCHANGED <<state, filefd, use_persistent_connection>>
    PROVE  Framing'
  BY DEF Framing, CopyInStep, BodyComplete

LEMMA DeleteFraming == ASSUME delete_this PROVE Framing'
  BY LeavesFraming DEF delete_this, destroy

LEMMA SetupReplyFraming == ASSUME setup_reply PROVE Framing'
<1> DEFINE req == [request EXCEPT !.host = TRUE]
<1>1. CASE protocol_error(request)
  BY <1>1, ClosingReplyFraming DEF protocol_error
<1>2. CASE urldecode_runs_off(req)
  BY <1>2, DeleteFraming, LeavesFraming DEF urldecode_runs_off
<1>3. CASE reply_for_path(req)
  BY <1>3, ClosingReplyFraming, SendFileFraming
     DEF reply_for_path, file_not_found, moved_permanently
<1>4. QED
  BY <1>1, <1>2, <1>3 DEF setup_reply

LEMMA CopyFileFraming == ASSUME TypeOK, Framing, copy_file PROVE Framing'
<1>1. /\ Alive /\ state = "COPY_FILE" /\ reply.body + filefd = reply.due
  BY DEF copy_file, Running, Alive, Framing, CopyInStep
<1>2. CASE need_more_io
  BY <1>1, <1>2, StaysFraming DEF need_more_io, ioVars, logVars
<1>3. CASE delete_this
  BY <1>3, DeleteFraming
<1>4. CASE filefd = 0 /\ end_of_file
  <2>1. reply.body \in Nat /\ reply.body = reply.due
    BY <1>1, <1>4 DEF TypeOK, Reply
  <2>2. state' = "FLUSH_BUFFER" /\ reply' = reply
    BY <1>4 DEF end_of_file
  <2>3. QED
    BY <2>1, <2>2 DEF Framing, CopyInStep, BodyComplete
<1>5. ASSUME NEW n \in 1..LeastOf(filefd, ChunkSize), copy_chunk(n) PROVE Framing'
  <2>1. reply.body \in Nat /\ filefd \in Int /\ n \in Int
    BY DEF TypeOK, Reply, OptionalNat, Unset
  <2>2. /\ state' = "COPY_FILE" /\ filefd' = filefd - n
        /\ reply' = [reply EXCEPT !.body = reply.body + n]
    BY <1>1, <1>5 DEF copy_chunk
  <2>3. reply'.body = reply.body + n /\ reply'.due = reply.due
    BY <2>2 DEF TypeOK, Reply
  <2>4. QED
    BY <1>1, <2>1, <2>2, <2>3 DEF Framing, CopyInStep, BodyComplete
<1>6. QED
  BY <1>2, <1>3, <1>4, <1>5 DEF copy_file

LEMMA HandlerFraming == ASSUME TypeOK, Framing, state_handler PROVE Framing'
<1>1. CASE get_request_line \/ get_request_header \/ get_request_body
  <2>1. CASE protocol_error(request)
    BY <2>1, ClosingReplyFraming DEF protocol_error
  <2>2. CASE state \notin ReplyStates /\ state' \in {state} \cup BeforeReply
    BY <2>2, LeavesFraming DEF BeforeReply, ReadStates, ReplyStates
  <2>3. QED
    BY <1>1, <2>1, <2>2 DEF get_request_line, get_request_header, get_header, get_request_body,
       Running, need_more_io, BeforeReply, ReadStates, ReplyStates
<1>2. CASE flush_buffer
  <2>1. CASE need_more_io
    BY <1>2, <2>1, StaysFraming DEF flush_buffer, Running, Alive, need_more_io, ioVars, logVars
  <2>2. CASE delete_this
    BY <2>2, DeleteFraming
  <2>3. CASE restart_connection \/ shut_down_connection
    BY <2>3, LeavesFraming DEF restart_connection, reset, shut_down_connection, ReplyStates
  <2>4. QED
    BY <1>2, <2>1, <2>2, <2>3 DEF flush_buffer
<1>3. QED
  BY <1>1, <1>2, SetupReplyFraming, CopyFileFraming, DeleteFraming DEF state_handler, terminate

LEMMA CallbackFraming == ASSUME TypeOK, Framing, callback PROVE Framing'
<1>1. Alive
  BY DEF callback, fd_is_readable, fd_is_writable, read_timeout, write_timeout,
     error_condition, pollhup, Alive
<1>2. CASE protocol_error(request) \/ delete_this
  BY <1>2, ClosingReplyFraming, DeleteFraming DEF protocol_error
<1>3. CASE state' = "TERMINATE"
  BY <1>3, LeavesFraming DEF ReplyStates
<1>4. CASE UNCHANGED <<state, filefd, reply, use_persistent_connection>>
  BY <1>1, <1>4, StaysFraming
<1>5. CASE write_some /\ UNCHANGED <<filefd, use_persistent_connection>>
  BY <1>1, <1>5, WriteSome, StaysFraming
<1>6. QED
  BY <1>2, <1>3, <1>4, <1>5 DEF callback, fd_is_readable, fd_is_writable, end_of_input,
     read_timeout, write_timeout, error_condition, pollhup, ioVars, logVars

LEMMA NextFraming == ASSUME ~FilesChange, TypeOK, Framing, [Next]_vars PROVE Framing'
<1>1. CASE environment \/ UNCHANGED vars
  BY <1>1, StaysFraming DEF environment, PeerSend, PeerClose, PeerReset, FileChanges, vars,
     ioVars, logVars, Alive
<1>2. QED
  BY <1>1, HandlerFraming, CallbackFraming DEF Next

\* A file nobody changes is written with the announced length, on every connection
\* that stays open, however its chunks and the write() calls fall.
THEOREM FramingCorrect == ASSUME ~FilesChange PROVE Spec => []KeepAliveFraming
<1>1. Framing /\ TypeOK /\ [Next]_vars => Framing'
  BY NextFraming
<1>2. TypeOK /\ Inv /\ Framing => KeepAliveFraming
  <2> SUFFICES ASSUME TypeOK, Inv, Framing, Alive, state = "FLUSH_BUFFER",
                      use_persistent_connection
               PROVE  reply.written + write_buffer = ReplySize + reply.due
    BY DEF KeepAliveFraming
  <2>1. reply.body = reply.due
    BY DEF Framing, BodyComplete
  <2>2. reply.written + write_buffer = ReplySize + reply.body
    BY DEF Inv, NoReplyClobbered, ReplyStates
  <2>3. QED
    BY <2>1, <2>2
<1>3. QED
  BY <1>1, <1>2, InitFraming, TypeCorrect, InvCorrect, PTL DEF Spec

=============================================================================
