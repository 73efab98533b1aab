--------------------------- MODULE RequestHandler ---------------------------
(***************************************************************************)
(* One HTTP connection: class RequestHandler and its state machine.        *)
(*                                                                         *)
(* The scheduler calls one of the six callbacks; the callback does its I/O *)
(* and then runs state handlers until one of them returns false            *)
(* (call_state_handler).  Nothing else of the single-threaded server runs  *)
(* meanwhile, but the peer, the network and other processes do: so a       *)
(* callback is a step from object = "waiting" to "running", and every      *)
(* state handler is a step of its own that leaves the object "running"     *)
(* (returned true), "waiting" (returned false) or "deleted".               *)
(*                                                                         *)
(* Bytes are counted, not spelled out.  stream is the sequence of lines    *)
(* the peer sends and the parser has not consumed yet; the first           *)
(* read_buffer bytes of it are in read_buffer and the next unread bytes    *)
(* are still in the socket.                                                *)
(***************************************************************************)
EXTENDS Integers, Sequences

CONSTANTS
    MaxLineLength,     \* config->max_line_length
    ChunkSize,         \* sizeof(buf) in copy_file
    ReplySize,         \* bytes of a reply head or of an error page
    Lines,             \* the lines a peer may send
    FileSizes,         \* sizes of the files being served
    MTimes,            \* their modification times
    DefaultHostname,   \* is config->default_hostname set?
    FilesChange,       \* do other processes change a file while it is sent?
    MaxPipeline        \* bound: lines of stream, see PeerSend

Unset == -1            \* an empty resetable_variable, a closed descriptor

States == {"READ_REQUEST_LINE", "READ_REQUEST_HEADER", "READ_REQUEST_BODY",
           "SETUP_REPLY", "COPY_FILE", "FLUSH_BUFFER", "TERMINATE"}
ReadStates  == {"READ_REQUEST_LINE", "READ_REQUEST_HEADER"}
ReplyStates == {"COPY_FILE", "FLUSH_BUFFER"}
BeforeReply == ReadStates \cup {"READ_REQUEST_BODY", "SETUP_REPLY"}

Methods     == {"", "GET", "HEAD", "POST"}
Paths       == {"/dir/", "/name", "", "/name%41"}
Connections == {"", "close", "keep-alive", "other", "malformed"}
Names       == {"Host", "If-Modified-Since", "Connection", "Keep-Alive", "other"}

(***************************************************************************)
(* What the grammar of HTTPParser.cc tells apart.  A "junk" line matches   *)
(* none of the rules the handler tries; a header's data "malformed" fails  *)
(* the second parser it is given to; time is the If-Modified-Since value.  *)
(* A header may be folded: its first fold bytes end with a CRLF, the next  *)
(* is a blank, and alone they would be a header with the data part.  The   *)
(* rest, alone, is a line of a kind that the peer does not send.  A line    *)
(* ends with a CRLF, and the rest of a header begins with a blank besides. *)
(***************************************************************************)
Lengths     == Nat \ {0, 1}
RequestLine == [kind : {"request"}, len : Lengths, method : Methods, major : Nat,
                minor : Nat, url_host : BOOLEAN, path : Paths]
Header      == {h \in [kind : {"header"}, len : Lengths, name : Names, data : Connections,
                       time : Nat, fold : Nat, part : Connections] : h.fold + 3 <= h.len}
BlankLine   == [kind : {"blank"}, len : {2}]
JunkLine    == [kind : {"junk"}, len : Lengths]
Line        == RequestLine \cup Header \cup BlankLine \cup JunkLine
RestLine    == [kind : {"rest"}, len : Lengths]

ASSUME SizesAssumption ==
    /\ MaxLineLength \in Nat \ {0} /\ ChunkSize \in Nat \ {0} /\ ReplySize \in Nat \ {0}
    /\ MaxPipeline \in Nat
ASSUME LinesAssumption == Lines \subseteq Line
ASSUME FilesAssumption == FileSizes \subseteq Nat /\ MTimes \subseteq Nat
ASSUME FlagsAssumption == DefaultHostname \in BOOLEAN /\ FilesChange \in BOOLEAN

VARIABLES
    peer,           \* the peer's end: "open", "closed" (it sent FIN) or "reset"
    stream,         \* lines sent and not yet consumed by the parser
    unread,         \* bytes of stream that are still in the socket
    object,         \* "waiting" for the scheduler, "running", "deleted", "crashed"
    poll_events,    \* what the descriptor is registered for
    state,          \* RequestHandler::state
    read_buffer,    \* RequestHandler::read_buffer, in bytes
    write_buffer,   \* RequestHandler::write_buffer, in bytes
    request,        \* RequestHandler::request
    use_persistent_connection,
    filefd,         \* Unset, or the bytes left to read from the open file
    reply,          \* history: the reply being sent (see NewReply)
    unlogged        \* history: replies set up, less access-log entries written

peerVars == <<peer, stream, unread>>
ioVars   == <<read_buffer, write_buffer, filefd>>
logVars  == <<reply, unlogged>>
vars     == <<peerVars, object, poll_events, state, ioVars, request,
              use_persistent_connection, logVars>>

LeastOf(a, b) == IF a < b THEN a ELSE b

NoRequest == [method |-> "", major |-> 0, minor |-> 0, url_host |-> FALSE, path |-> "",
              host |-> FALSE, connection |-> "", keep_alive |-> FALSE,
              if_modified_since |-> Unset, status_code |-> Unset]

\* due: body bytes the reply head announces, or Unset if only the end of the
\* connection ends it; body: file bytes put into write_buffer so far; written:
\* bytes of head and body that write() took; announced: the Connection header.
NewReply(due, announced) == [due |-> due, body |-> 0, written |-> 0, announced |-> announced]

\* An answered peer keeps the connection if the reply says so, or if it says
\* nothing and the request's version, HTTP/1.1 or later, defaults to it.
PeerKeepsConnection(req, rep) ==
    \/ rep.announced = "keep-alive"
    \/ rep.announced = "" /\ (req.major > 1 \/ (req.major = 1 /\ req.minor >= 1))

Init ==
    /\ peer = "open" /\ stream = <<>> /\ unread = 0
    /\ object = "waiting" /\ poll_events = "POLLIN" /\ state = "READ_REQUEST_LINE"
    /\ read_buffer = 0 /\ write_buffer = 0 /\ filefd = Unset
    /\ request = NoRequest
    /\ use_persistent_connection \in BOOLEAN      \* the constructor leaves it alone
    /\ reply = NewReply(Unset, "") /\ unlogged = 0

-----------------------------------------------------------------------------
(* The environment, as long as there is a handler to notice it. *)

Alive == object \in {"waiting", "running"}

PeerSend(line) ==
    /\ Alive /\ peer = "open" /\ Len(stream) < MaxPipeline
    /\ stream' = Append(stream, line)
    /\ unread' = unread + line.len
    /\ UNCHANGED <<peer, object, poll_events, state, ioVars, request,
                   use_persistent_connection, logVars>>

\* The peer ends its side, possibly in the middle of what it was sending.
PeerClose ==
    /\ Alive /\ peer = "open"
    /\ peer' = "closed"
    /\ unread' \in 0..unread
    /\ UNCHANGED <<stream, object, poll_events, state, ioVars, request,
                   use_persistent_connection, logVars>>

PeerReset ==
    /\ Alive /\ peer # "reset"
    /\ peer' = "reset" /\ unread' = 0
    /\ UNCHANGED <<stream, object, poll_events, state, ioVars, request,
                   use_persistent_connection, logVars>>

\* Another process truncates or extends the file that is being sent.
\* Bound: not once more than was announced has been sent.
FileChanges ==
    /\ FilesChange /\ filefd # Unset /\ reply.body <= reply.due
    /\ filefd' \in FileSizes \ {filefd}
    /\ UNCHANGED <<peerVars, object, poll_events, state, read_buffer, write_buffer, request,
                   use_persistent_connection, logVars>>

-----------------------------------------------------------------------------
(* Building blocks of the handlers. *)

Running(s) == object = "running" /\ state = s

\* delete this: the destructor removes the registration and closes both
\* descriptors.
destroy == object' = "deleted" /\ poll_events' = "none" /\ filefd' = Unset

delete_this ==
    /\ destroy
    /\ UNCHANGED <<peerVars, state, read_buffer, write_buffer, request,
                   use_persistent_connection, logVars>>

go_to_read_mode  == poll_events' = "POLLIN"
go_to_write_mode == poll_events' = "POLLOUT"

\* Mutant: returns true, so that call_state_handler goes on.
MutantNeedMoreIo ==
    /\ object' = "running"
    /\ UNCHANGED <<peerVars, poll_events, state, ioVars, request,
                   use_persistent_connection, logVars>>

\* A handler that needs more I/O returns false and changes nothing.
need_more_io ==
    /\ object' = "waiting"
    /\ UNCHANGED <<peerVars, poll_events, state, ioVars, request,
                   use_persistent_connection, logVars>>

HeadComplete == stream # <<>> /\ read_buffer >= Head(stream).len

folded(line) == line.kind = "header" /\ line.fold > 0

\* read_buffer.find("\r\n") != npos
has_crlf == HeadComplete \/ (stream # <<>> /\ folded(Head(stream)) /\ read_buffer >= Head(stream).fold)

\* All that has been read is the first part of a folded header: the parser
\* cannot know that it goes on.
only_first_part == stream # <<>> /\ folded(Head(stream)) /\ read_buffer = Head(stream).fold

\* HTTPParser::have_complete_header_line: its loop stops two characters before
\* the end or earlier, and both make it answer true.
have_complete_header_line == read_buffer >= 2

\* read_buffer.erase(0, len) after a line was parsed, so that left is what is
\* left of stream; the handler returns true.
erase(len, left) ==
    /\ stream' = left
    /\ read_buffer' = read_buffer - len
    /\ object' = "running"
    /\ UNCHANGED <<peer, unread, poll_events, write_buffer, filefd,
                   use_persistent_connection, logVars>>

consume_line == erase(Head(stream).len, Tail(stream))

rest(line) == [kind |-> "rest", len |-> line.len - line.fold]

consume_first_part == erase(Head(stream).fold, [stream EXCEPT ![1] = rest(@)])

supports_persistent_connection(req) ==
    /\ req.connection # "close"
    /\ \/ req.connection = "keep-alive" /\ req.keep_alive
       \/ req.major >= 1 /\ req.minor >= 1

-----------------------------------------------------------------------------
(* The standard replies. *)

\* A reply of the given status is in write_buffer; state goes to next.
start_reply(req, code, persistent, next, due, announced) ==
    /\ write_buffer' = ReplySize
    /\ request' = [req EXCEPT !.status_code = code]
    /\ use_persistent_connection' = persistent
    /\ state' = next
    /\ go_to_write_mode
    /\ object' = "waiting"
    /\ reply' = NewReply(due, announced)
    /\ unlogged' = unlogged + 1
    /\ UNCHANGED <<peerVars, read_buffer>>

\* The Connection header of a reply.
announcement(req, persistent) ==
    IF req.connection = "" THEN "" ELSE IF persistent THEN "keep-alive" ELSE "close"

\* Mutant: the decision of the previous request of the connection stays.
MutantClosingReply(req, code) ==
    /\ start_reply(req, code, use_persistent_connection, "FLUSH_BUFFER", Unset, announcement(req, FALSE))
    /\ UNCHANGED filefd

closing_reply(req, code) ==
    /\ start_reply(req, code, FALSE, "FLUSH_BUFFER", Unset, announcement(req, FALSE))
    /\ UNCHANGED filefd

protocol_error(req)    == closing_reply(req, 400)
file_not_found(req)    == closing_reply(req, 404)
moved_permanently(req) == closing_reply(req, 301)

not_modified(req, persistent) ==
    /\ start_reply(req, 304, persistent, "FLUSH_BUFFER", 0, announcement(req, persistent))
    /\ UNCHANGED filefd

-----------------------------------------------------------------------------
(* The state handlers. *)

get_request_line ==
    /\ Running("READ_REQUEST_LINE")
    /\ \/ ~has_crlf /\ need_more_io
       \/ /\ has_crlf /\ Head(stream).kind = "request"
          /\ consume_line
          /\ LET line == Head(stream) IN
             request' = [request EXCEPT !.method = line.method, !.major = line.major,
                            !.minor = line.minor, !.url_host = line.url_host,
                            !.path = line.path]
          /\ state' = "READ_REQUEST_HEADER"
       \/ has_crlf /\ Head(stream).kind # "request" /\ protocol_error(request)

\* The request with a well-formed header h noted in it.
note_header(req, h) ==
    CASE h.name = "Host"       -> [req EXCEPT !.host = TRUE]
      [] h.name = "Connection" -> [req EXCEPT !.connection = h.data]
      [] h.name = "Keep-Alive" -> [req EXCEPT !.keep_alive = (h.data # "")]
      [] h.name = "If-Modified-Since" /\ h.data # "malformed"
                               -> [req EXCEPT !.if_modified_since = h.time]
      [] OTHER                 -> req

\* Mutant: the grammar's Header does without the CRLF.
MutantHeaderParses == stream # <<>> /\ Head(stream).kind = "header"

\* parse_header succeeds, on a whole header or on a first part.
header_parses == (HeadComplete /\ Head(stream).kind = "header") \/ only_first_part

\* Mutant: a line that begins with a blank passes for an empty one.
MutantEndOfHeader == HeadComplete /\ Head(stream).kind \in {"blank", "rest"}

end_of_header == HeadComplete /\ Head(stream).kind = "blank"

\* The header at the front, with the data that was read; parse_host_header may
\* refuse it.
get_header(h) ==
    \/ h.name = "Host" /\ h.data = "malformed" /\ protocol_error(request)
    \/ /\ ~ (h.name = "Host" /\ h.data = "malformed")
       /\ request' = note_header(request, h)
       /\ \/ only_first_part /\ consume_first_part
          \/ ~only_first_part /\ consume_line
       /\ UNCHANGED state

get_request_header ==
    /\ Running("READ_REQUEST_HEADER")
    /\ \/ /\ end_of_header
          /\ consume_line
          /\ state' = "READ_REQUEST_BODY"
          /\ UNCHANGED request
       \/ ~end_of_header /\ ~have_complete_header_line /\ need_more_io
       \/ /\ ~end_of_header /\ have_complete_header_line /\ header_parses
          /\ get_header(IF only_first_part THEN [Head(stream) EXCEPT !.data = Head(stream).part]
                        ELSE Head(stream))
       \/ /\ ~end_of_header /\ have_complete_header_line /\ ~header_parses
          /\ protocol_error(request)

get_request_body ==
    /\ Running("READ_REQUEST_BODY")
    /\ state' = "SETUP_REPLY"
    /\ UNCHANGED <<peerVars, object, poll_events, ioVars, request,
                   use_persistent_connection, logVars>>

\* A URL whose escape is followed by fewer than two characters takes
\* urldecode's iterator past the end of the string: the loop can only leave
\* by an exception (caught: delete this) or by a fault of the process.
urldecode_runs_off(req) ==
    /\ req.path = "/name%41"
    /\ \/ delete_this
       \/ /\ object' = "crashed" /\ poll_events' = "none" /\ filefd' = Unset
          /\ UNCHANGED <<peerVars, state, read_buffer, write_buffer, request,
                         use_persistent_connection, logVars>>

\* stat() found a regular file.
send_file(req, size, mtime) ==
    LET persistent == supports_persistent_connection(req)
        modified   == req.if_modified_since = Unset \/ mtime > req.if_modified_since
        ok(next)   == start_reply(req, 200, persistent, next,
                                  IF next = "COPY_FILE" THEN size ELSE 0,
                                  announcement(req, persistent))
    IN  \/ ~modified /\ not_modified(req, persistent)
        \/ modified /\ req.method = "HEAD" /\ ok("FLUSH_BUFFER") /\ UNCHANGED filefd
        \/ modified /\ req.method # "HEAD" /\ ok("COPY_FILE") /\ filefd' = size
        \/ modified /\ req.method # "HEAD" /\ file_not_found(req)        \* open() fails

\* The outcomes of the file system.  A directory named with a trailing slash
\* gets the default page appended until stat() finds a file or nothing; any
\* other is redirected.  *rbegin() of an empty path reads the byte before the
\* string, so a directory named by one may be treated either way.
reply_for_path(req) ==
    \/ file_not_found(req)
    \/ req.path # "/dir/" /\ moved_permanently(req)
    \/ \E size \in FileSizes, mtime \in MTimes : send_file(req, size, mtime)

has_default_hostname(req) == DefaultHostname /\ (req.major = 0 \/ (req.major = 1 /\ req.minor = 0))

setup_reply ==
    /\ Running("SETUP_REPLY")
    /\ LET supported == request.method \in {"GET", "HEAD"}
           has_host  == request.host \/ request.url_host \/ has_default_hostname(request)
           req       == [request EXCEPT !.host = TRUE]
       IN  \/ ~ (supported /\ has_host) /\ protocol_error(request)
           \/ supported /\ has_host /\ urldecode_runs_off(req)
           \/ supported /\ has_host /\ req.path # "/name%41" /\ reply_for_path(req)

\* Mutant: the first chunk is taken for the whole file.
MutantCopyChunk(n) ==
    /\ write_buffer' = n /\ filefd' = Unset /\ state' = "FLUSH_BUFFER"
    /\ reply' = [reply EXCEPT !.body = @ + n]

copy_chunk(n) ==
    /\ write_buffer' = n
    /\ filefd' = filefd - n
    /\ reply' = [reply EXCEPT !.body = @ + n]
    /\ UNCHANGED state

\* Mutant: the descriptor is not closed.
MutantEndOfFile == state' = "FLUSH_BUFFER" /\ UNCHANGED <<filefd, write_buffer, reply>>

end_of_file ==
    /\ state' = "FLUSH_BUFFER" /\ filefd' = Unset
    /\ UNCHANGED <<write_buffer, reply>>

\* Mutant: does not wait for write_buffer to drain.
MutantCopyFile ==
    /\ Running("COPY_FILE")
    /\ \/ filefd = 0 /\ end_of_file
       \/ \E n \in 1..LeastOf(filefd, ChunkSize) : copy_chunk(n)
    /\ object' = "waiting"
    /\ UNCHANGED <<peerVars, poll_events, read_buffer, request,
                   use_persistent_connection, unlogged>>

copy_file ==
    /\ Running("COPY_FILE")
    /\ \/ write_buffer > 0 /\ need_more_io
       \/ /\ write_buffer = 0
          /\ \/ filefd = 0 /\ end_of_file
             \/ \E n \in 1..LeastOf(filefd, ChunkSize) : copy_chunk(n)
          /\ object' = "waiting"
          /\ UNCHANGED <<peerVars, poll_events, read_buffer, request,
                         use_persistent_connection, unlogged>>
       \/ write_buffer = 0 /\ delete_this                        \* read() fails

\* Mutant: only the last request of a connection is logged.
MutantLogAccess == unlogged' = IF use_persistent_connection THEN unlogged ELSE unlogged - 1

\* One access-log entry, unless there is no status to log.
log_access == unlogged' = IF request.status_code = Unset THEN unlogged ELSE unlogged - 1

\* Mutant: the registration for output stays.
MutantResetMode ==
    /\ state' = "READ_REQUEST_LINE" /\ filefd' = Unset /\ request' = NoRequest
    /\ UNCHANGED poll_events

\* Mutant: the request is not cleared.
MutantResetRequest ==
    /\ state' = "READ_REQUEST_LINE" /\ filefd' = Unset /\ UNCHANGED request
    /\ go_to_read_mode

reset ==
    /\ state' = "READ_REQUEST_LINE"
    /\ filefd' = Unset
    /\ request' = NoRequest
    /\ go_to_read_mode

\* Mutant: returns false, as if new input were needed.
MutantRestart ==
    /\ reset
    /\ object' = "waiting"
    /\ UNCHANGED <<peerVars, read_buffer, write_buffer, use_persistent_connection, reply>>

restart_connection ==
    /\ reset
    /\ object' = "running"
    /\ UNCHANGED <<peerVars, read_buffer, write_buffer, use_persistent_connection, reply>>

shut_down_connection ==
    /\ state' = "TERMINATE"
    /\ \/ object' = "waiting" /\ UNCHANGED <<poll_events, filefd>>
       \/ peer = "reset" /\ destroy                              \* shutdown() fails
    /\ UNCHANGED <<peerVars, read_buffer, write_buffer, request,
                   use_persistent_connection, reply>>

flush_buffer ==
    /\ Running("FLUSH_BUFFER")
    /\ \/ write_buffer > 0 /\ need_more_io
       \/ write_buffer = 0 /\ delete_this                        \* log_access throws
       \/ write_buffer = 0 /\ log_access /\ use_persistent_connection /\ restart_connection
       \/ write_buffer = 0 /\ log_access /\ ~use_persistent_connection /\ shut_down_connection

\* Mutant: returns false without deleting.
MutantTerminate == Running("TERMINATE") /\ need_more_io

terminate == Running("TERMINATE") /\ delete_this

state_handler ==
    \/ get_request_line \/ get_request_header \/ get_request_body
    \/ setup_reply \/ copy_file \/ flush_buffer \/ terminate

-----------------------------------------------------------------------------
(* The scheduler's callbacks.  An interrupted read() or write() (EINTR)    *)
(* leaves everything as it was and is no step here.                        *)

call_state_handler == object' = "running"

\* Mutant: no flood check.
MutantNoFloodCheck == FALSE

\* Mutant: the bytes about to be read count, too.
MutantFlooded == read_buffer + unread > MaxLineLength

flooded == read_buffer > MaxLineLength

\* Mutant: read() returning 0 is taken for "nothing to read".
MutantEndOfInput ==
    /\ call_state_handler
    /\ UNCHANGED <<peerVars, poll_events, state, ioVars, request,
                   use_persistent_connection, logVars>>

end_of_input ==
    /\ state' = "TERMINATE"
    /\ call_state_handler
    /\ UNCHANGED <<peerVars, poll_events, ioVars, request, use_persistent_connection, logVars>>

fd_is_readable ==
    /\ object = "waiting" /\ poll_events = "POLLIN"
    /\ \/ flooded /\ (unread > 0 \/ peer # "open") /\ protocol_error(request)
       \/ ~flooded /\ peer = "reset" /\ delete_this              \* read() fails
       \/ ~flooded /\ peer = "closed" /\ unread = 0 /\ end_of_input
       \/ /\ ~flooded
          /\ \E n \in 1..LeastOf(unread, MaxLineLength) :
                /\ unread' = unread - n
                /\ read_buffer' = read_buffer + n
          /\ call_state_handler
          /\ UNCHANGED <<peer, stream, poll_events, state, write_buffer, filefd, request,
                         use_persistent_connection, logVars>>

accepted(n) ==
    /\ write_buffer' = write_buffer - n
    /\ reply' = [reply EXCEPT !.written = @ + n]
    /\ UNCHANGED state

\* Mutant: write() returning 0 is retried.
MutantWriteSome == \E n \in 0..write_buffer : accepted(n)

write_some == \E n \in 1..write_buffer : accepted(n)

fd_is_writable ==
    /\ object = "waiting" /\ poll_events = "POLLOUT"
    /\ LET pending == state # "TERMINATE" /\ write_buffer > 0
       IN  \/ /\ \/ pending /\ peer # "reset" /\ write_some
                 \/ pending /\ peer # "open" /\ state' = "TERMINATE" /\ UNCHANGED <<write_buffer, reply>>
                 \/ ~pending /\ UNCHANGED <<state, write_buffer, reply>>
              /\ call_state_handler
              /\ UNCHANGED <<peerVars, poll_events, read_buffer, filefd, request,
                             use_persistent_connection, unlogged>>
           \/ pending /\ peer = "reset" /\ delete_this           \* write() fails

read_timeout  == object = "waiting" /\ poll_events = "POLLIN" /\ delete_this
write_timeout == object = "waiting" /\ poll_events = "POLLOUT" /\ delete_this

error_condition == object = "waiting" /\ peer = "reset" /\ delete_this

\* The connection is shut down in both directions.
pollhup ==
    /\ object = "waiting" /\ (peer = "reset" \/ state = "TERMINATE")
    /\ \/ /\ state = "TERMINATE"
          /\ call_state_handler
          /\ UNCHANGED <<peerVars, poll_events, state, ioVars, request,
                         use_persistent_connection, logVars>>
       \/ state # "TERMINATE" /\ delete_this

callback ==
    \/ fd_is_readable \/ fd_is_writable
    \/ read_timeout \/ write_timeout \/ error_condition \/ pollhup

-----------------------------------------------------------------------------
environment == (\E line \in Lines : PeerSend(line)) \/ PeerClose \/ PeerReset \/ FileChanges

Next == environment \/ callback \/ state_handler

Spec == Init /\ [][Next]_vars

\* call_state_handler loops until a handler returns false; the scheduler
\* calls back when the descriptor is ready or, at the latest, when the read
\* or write timeout it was given has passed.
FairSpec == Spec /\ WF_vars(state_handler) /\ WF_vars(callback)

-----------------------------------------------------------------------------
(* Properties. *)

StatusCodes   == {Unset, 200, 301, 304, 400, 404}
OptionalNat   == Nat \cup {Unset}
Announcements == {"", "close", "keep-alive"}

Request == [method : Methods, major : Nat, minor : Nat, url_host : BOOLEAN, path : Paths,
            host : BOOLEAN, connection : Connections, keep_alive : BOOLEAN,
            if_modified_since : OptionalNat, status_code : StatusCodes]
Reply   == [due : OptionalNat, body : Nat, written : Nat, announced : Announcements]

\* Every variable has a value of its type.
TypeOK ==
    /\ peer \in {"open", "closed", "reset"}
    /\ stream \in Seq(Line \cup RestLine)
    /\ unread \in Nat
    /\ object \in {"waiting", "running", "deleted", "crashed"}
    /\ poll_events \in {"POLLIN", "POLLOUT", "none"}
    /\ state \in States
    /\ read_buffer \in Nat
    /\ write_buffer \in Nat
    /\ request \in Request
    /\ use_persistent_connection \in BOOLEAN
    /\ filefd \in OptionalNat
    /\ reply \in Reply
    /\ unlogged \in Int

\* A handler that waits is registered for what its state needs: for input while
\* it reads a request, for output while it sends a reply; it never waits in a
\* state that would need neither (go_to_read_mode and go_to_write_mode are
\* called by other functions than the ones that change state).
ModeMatchesState ==
    object = "waiting" =>
        \/ poll_events = "POLLIN" /\ state \in ReadStates
        \/ poll_events = "POLLOUT" /\ state \in ReplyStates \cup {"TERMINATE"}

\* A handler that waits for input has nothing left that it could process: no
\* complete request line and no two bytes of a header.  Pipelined requests that
\* arrived together are answered without another byte from the peer.
NoLostWakeup ==
    object = "waiting" =>
        /\ state = "READ_REQUEST_LINE" => ~has_crlf
        /\ state = "READ_REQUEST_HEADER" => ~HeadComplete /\ read_buffer < 2

\* The flood check of fd_is_readable bounds read_buffer whatever the peer sends
\* and however it is split, across all requests of the connection.
ReadBufferBounded == read_buffer <= 2 * MaxLineLength

\* Requests of one connection do not mix: when a request line is awaited,
\* nothing of an earlier request, its file or its reply is left.
FreshRequest ==
    state = "READ_REQUEST_LINE" =>
        request = NoRequest /\ filefd = Unset /\ write_buffer = 0

\* The file is open while it is copied and nowhere else, except on the way out
\* after a write() that returned 0: no path through reset, end of file, errors
\* and deletion leaks the descriptor or reuses it for the next request.
FileOpenOnlyWhileCopying ==
    /\ Alive /\ state = "COPY_FILE" => filefd # Unset
    /\ filefd # Unset => Alive /\ state \in {"COPY_FILE", "TERMINATE"}

\* When a reply has been sent on a connection that stays open, the peer can
\* tell where it ends: the head and the announced number of body bytes were
\* written to the socket, or are about to be, and nothing else.
KeepAliveFraming ==
    Alive /\ state = "FLUSH_BUFFER" /\ use_persistent_connection =>
        reply.written + write_buffer = ReplySize + reply.due

\* A reply that closes the connection and does not say so, since the request
\* had no Connection header: an error or a redirect, or a 200 or 304 to a version
\* later than HTTP/1.0 that ends with .0 (the minor number is compared alone,
\* HTTPParser.cc:328).
ClosesUnannounced(req, rep) ==
    /\ rep.announced = "" /\ ~use_persistent_connection
    /\ req.status_code \in {301, 400, 404} \/ (req.major > 1 /\ req.minor = 0)

\* Both ends agree on what happens after a reply: the peer keeps a connection
\* that the handler keeps, and one that the handler closes only if it
\* ClosesUnannounced ("keep-connection" support is "HTTP/1.1 compliant" but for
\* that, httpd.txt:20).  The decision is that of the current request, not one
\* left by an earlier request of the connection.
PersistenceAgreed ==
    Alive /\ state \in ReplyStates =>
        /\ use_persistent_connection => PeerKeepsConnection(request, reply)
        /\ PeerKeepsConnection(request, reply) =>
               use_persistent_connection \/ ClosesUnannounced(request, reply)
        /\ request.status_code \in {301, 400, 404} => ~use_persistent_connection

\* Every reply is logged exactly once before the next request is read or the
\* connection is shut down, and it is logged with a status code (the "Shouldn't
\* happen" of rh-log-access.cc:40).
LoggedOncePerReply ==
    Alive =>
        /\ state \in ReplyStates => unlogged = 1 /\ request.status_code # Unset
        /\ state \in ReadStates => unlogged = 0

\* Nothing that was put into write_buffer is lost: what the peer has not been
\* sent yet of a reply's head and of the chunks behind it is in write_buffer,
\* however little each write() takes, and the next reply begins with nothing
\* left there.  A chunk assigned over an unfinished one would break the sum.
NoReplyClobbered ==
    Alive =>
        /\ state \in BeforeReply => write_buffer = 0
        /\ state \in ReplyStates => reply.written + write_buffer = ReplySize + reply.body

\* The inductive invariant, Inv.  It adds to the above what they rest on: the
\* mode while a callback runs, and that nothing of a reply exists before
\* setup_reply has built one.  Framing needs CopyInStep besides: what is left of
\* a file being copied is what the head announced, if nobody changes the file.
Registered ==
    object = "running" =>
        \/ poll_events = "POLLIN" /\ state \in BeforeReply \cup {"TERMINATE"}
        \/ poll_events = "POLLOUT" /\ state \in ReplyStates \cup {"TERMINATE"}

NothingToSend ==
    Alive /\ state \in BeforeReply =>
        write_buffer = 0 /\ filefd = Unset /\ unlogged = 0

CopyInStep ==
    Alive /\ state = "COPY_FILE" => reply.body + filefd = reply.due

Inv ==
    /\ ModeMatchesState /\ Registered /\ ReadBufferBounded /\ FreshRequest
    /\ NothingToSend /\ FileOpenOnlyWhileCopying /\ PersistenceAgreed /\ LoggedOncePerReply
    /\ NoReplyClobbered

header_cut == stream # <<>> /\ Head(stream).kind = "rest"

\* The bytes of a sequence of lines.
bytes_of(lines) ==
    LET total[k \in 0..Len(lines)] == IF k = 0 THEN 0 ELSE total[k - 1] + lines[k].len
    IN  total[Len(lines)]

\* What the handler has read and will read was sent: the buffer is empty when
\* stream is.  NoLostWakeup needs it, since only then a line that arrives is not
\* complete in the buffer already.
BufferedWasSent == read_buffer + unread <= bytes_of(stream)

\* Only the line at the front can have been cut, by the handler itself.  It is
\* never consumed: the handler awaits its end, or it answers 400 and closes.
CutHeaderStays ==
    /\ \A k \in 2..Len(stream) : stream[k].kind # "rest"
    /\ header_cut =>
           /\ request.status_code \in {Unset, 400}
           /\ Alive => \/ state \in {"READ_REQUEST_HEADER", "TERMINATE"}
                       \/ /\ state = "FLUSH_BUFFER" /\ ~use_persistent_connection
                          /\ request.status_code = 400

\* Before a reply is set up, there is no status.
NoStatusYet == Alive /\ state \in BeforeReply => request.status_code = Unset

\* The inductive invariant about the input, beside Inv.
InputInv == BufferedWasSent /\ NoLostWakeup /\ CutHeaderStays /\ NoStatusYet

\* "If the buffer overflows, it means someone sent us a single header line that
\* was longer than the 4kb buffer limit" (rh-io-callbacks.cc:29): input is
\* rejected unread only then, never because many short lines are buffered.
FloodRejectsOnlyLongLines ==
    [][object = "waiting" /\ state' = "FLUSH_BUFFER" /\ state \in ReadStates
            => stream # <<>> /\ Head(stream).len > MaxLineLength]_vars


\* A header that was cut at its fold, and noted with the first part of its data
\* only, decides no reply: the rest of it stays unread, the request is answered
\* with 400 if with anything, and no other request of the connection follows.
CutHeaderRefused ==
    [][header_cut => header_cut' /\ request'.status_code \in {Unset, 400}]_vars

\* The handlers never spin: a callback returns to the scheduler.
CallbackReturns == object = "running" ~> object # "running"

\* A reply that was started is finished or the connection ends, whatever the
\* peer does: it cannot hold a handler in write mode for ever.
ReplyEnds == state \in ReplyStates ~> state \in ReadStates \/ ~Alive

\* A handler whose peer is gone goes away with its descriptors.
PeerGoneHandlerGone == peer # "open" ~> ~Alive

\* A shut-down connection is torn down.
TerminateDeletes == state = "TERMINATE" ~> ~Alive

-----------------------------------------------------------------------------
(* Claims of the comments and the documentation that the code does not meet. *)

\* "If we do have a complete header line in the read buffer, process it.  If
\* not, we need more I/O before we can proceed" (rh-read-request-header.cc:40):
\* a header line is refused only once it is complete.
IncompleteHeaderWaits ==
    [][state = "READ_REQUEST_HEADER" /\ state' = "FLUSH_BUFFER" => HeadComplete]_vars

-----------------------------------------------------------------------------
(* The abstract connection of HttpConnection.tla that this one implements. *)

phase == IF ~Alive THEN "closed"
         ELSE IF state = "TERMINATE" THEN "draining"
         ELSE IF state \in ReplyStates THEN "replying" ELSE "receiving"

keep == phase = "replying" /\ use_persistent_connection
owed == IF Alive THEN unlogged ELSE 0

Connection == INSTANCE HttpConnection WITH phase <- phase, keep <- keep, owed <- owed

\* The handler implements HttpConnection: one reply at a time, one log entry
\* for each that is finished, and nothing after a reply that ends the connection.
ImplementsConnection == Connection!Spec

=============================================================================
