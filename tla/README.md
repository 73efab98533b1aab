# mini-httpd: models, checks and proofs

mini-httpd is a small single-threaded HTTP server in C++: one process, one event
loop, no child processes, static files only. This directory holds TLA+ modules for
its parts, the TLC configurations that check them on small instances, and proofs
of the main theorems for all values of their constants. All paths below, like
`rh-copy-file.cc`, are relative to the repository. `PROJECT.json` maps each
definition to the lines it models, lists the runs, the mutants that show that
each property can fail, the disagreements found between code and documentation,
and the hazards the properties are aimed at.

## The system

| part | source | state | operations | what makes it correct |
|---|---|---|---|---|
| request handler | `RequestHandler.hh`, `rh-*.cc` | state, read and write buffer, the request, the file descriptor, the poll mode | six scheduler callbacks; seven state handlers; four standard replies; reset; destructor | requests do not mix; both ends agree on framing and persistence; each reply logged once; buffers bounded; no hang, no leak |
| process | `main.cc`, `tcp-listener.hh`, constructor | descriptors, scheduler table, `instances`, poll interval, signal flag | accept, construct, delete, the main loop, signals | every descriptor owned once; table and count exact; interval follows the load; signals end the server |
| URL decoding | `urldecode.hh` | string and iterator | the loop's iterations | decodes what the grammar accepts, never throws |
| dates | `HTTPParser.cc`, `timestamp-to-string.hh`, `rh-setup-reply.cc` | time zone, file time, the client's copy | write a date, read it back, compare | 304 only for what is current |
| start-up | `config.cc`, `main.cc` | configuration, ids, root, port | options one by one, then the system calls | runs only as configured |
| virtual hosts, redirects | `rh-setup-reply.cc`, `rh-standard-replies.cc`, `rh-log-access.cc` | host and port of the request | resolve them, look the file up, redirect, choose the log file | redirects stay on the site and end; one log per host |
| HTTP grammar | `HTTPParser.cc` | none | Spirit rules over characters | accepts what the RFC's grammar describes, assigns the parts of it |
| text routines | `escape-html-specials.hh`, `search-and-replace.hh`, `rh-log-access.cc`, `config.cc` | a string and a position | escape for HTML, escape quotes, find a content type | nothing escaped twice or missed; log fields read back; type of the file itself |
| access log | `rh-log-access.cc`, `log.cc` | none | format a line, append it | partly: when and where it is written, its quoted fields, and that it may fail |
| errors | `system-error.hh` | none | an exception class | not modelled |
| scheduler | libscheduler | table of handlers | poll and call back | external: not in the repository |

The parts interact by calls alone. The scheduler calls the listener when a
connection is queued; the listener constructs a `RequestHandler`, which registers
itself; from then on the scheduler calls the handler's callbacks, and the handler
answers by changing the events it is registered for or by deleting itself. Hence
the hard behaviour is not preemption but **order**: what the peer does between two
callbacks, how the bytes are cut into reads and writes, which connection gets
which callback and which descriptor first, when a file, a signal or a reset
comes in between, and what a long-lived connection carries over to its next
request. Nothing is persisted, so there is no recovery to consider.

## The modules

**RequestHandler** is one connection. The environment (the peer and other
processes) is `PeerSend`, `PeerClose`, `PeerReset`, `FileChanges`; each scheduler
callback is an action with the name of the member function, and each round of
`call_state_handler`'s loop (`RequestHandler.hh:98`) is a step of `state_handler`.
`object` says whether the handler waits for the scheduler, runs inside a
callback, is deleted, or has taken the process down. While it runs no callback
can start, as in the code; the peer may act at any time.

- The peer's bytes are `stream`, a sequence of lines with a length each;
  `read_buffer` and `unread` count bytes, so that every way of cutting lines into
  reads occurs. A line is what the parser makes of it: a request line, a header,
  a blank line or junk. A header may be folded: if a read ends at the fold, the first
  part passes for a header, and the rest is left in `read_buffer` (`first_part`,
  `rest`).
- The buffers' contents are abstracted to lengths. `filefd` is `Unset` when closed
  and otherwise the number of bytes still to be read. `reply` and `unlogged` are
  history: what the head promised, what of head and body was put into `write_buffer`
  and what `write()` has taken of it, and the log entries owed.
- The file system (`stat`, `open`, kinds of files, `is_path_in_hierarchy`) is
  nondeterministic, and so are the lengths of reads and writes. `EINTR` repeats a
  call and is no step. A spurious `EAGAIN` is not modelled. `read()` fails on a
  socket only when the peer has reset the connection.
- Undefined behaviour is a choice: `use_persistent_connection` starts with either
  value since no constructor sets it, an empty path makes `*path.rbegin()` read
  before the string, and `urldecode()` may run past its string.

**HttpConnection** is the abstract specification: replies one at a time, a log
entry for each that is finished, and the decision to go on taken when the reply
starts. `RequestHandler` maps its states to four phases (`phase`, `keep`, `owed`
at its end) and implements it.

**Server** is the process. Each connection is reduced to its phase and its two
descriptors; the set of descriptors is finite and shared by sockets, files and
the log file. One callback is one step here, since the process is
single-threaded and a callback of one connection touches nothing of another's:
what may happen inside it is RequestHandler's subject, what happens between the
connections is this module's. Also modelled: a constructor that throws, an
`error_condition` of the listener (which deletes an automatic variable of `main`
that is destroyed again at exit: the outcome is a choice), and a signal that
comes between the test of the loop (`main.cc:115`) and `poll()`: `main` is at
`"entering"` there, and `enter_poll` waits whatever signal has come since.

A new descriptor is the lowest one that is free (`Lowest`), as `accept()`, `open()` and
`fopen()` choose it.

**HttpServer** is the abstract server: a set of independent `HttpConnection`s and the
promise that a server that has stopped listening never starts again. `Server`
implements it (`ImplementsServer`), although its connections compete for
descriptors; a connection that fails for lack of one appears as a step in which
an `HttpConnection` closes.

**Site** leaves the transport aside and follows one request after another: host and
port are collected from the request line and the Host headers, resolved by
`setup_reply`, and end in a redirect and in the name of the log file. A path is a
sequence of slashes and names, and `Location` has host, port and path as
`moved_permanently` writes them, with the slash that `setup_reply` appends. `stat()`
answers anything, since other processes may change the document root between two calls;
the bound `MaxPages` stands for `PATH_MAX`, which ends the loop of `stat_again`. A
client may follow each redirect: it asks for the very URL it was sent to, whatever
its path.

**UrlDecode** runs the loop over every path that the grammar can produce, one
iteration per step, the iterator as an index. **Grammar** has the Spirit rules for
hosts, URIs and headers as operators from a position to a position, with Spirit's
greedy repetition and without backtracking, and `have_complete_header_line`.
**TextRoutines** runs one routine per behaviour on one string: UrlDecode's loop, those
of `escape_html_specials`, `search_and_replace` and `get_content_type`, or a parser of
Grammar. **Revalidation** has a client that keeps a copy and asks again with its date,
in any of the three formats, the C library's calendar written out, and the
server's arithmetic on it; instants are hours, so that the parser's checks of minutes
and seconds are left out. The file's time may change to any other, a later or an
earlier one: a file may be replaced by an older one.

**Startup** reads a command line, one call of `getopt_long` per step, and then makes
main's system calls, each of which may fail. How the C library takes a word for an
option is the constant `Reading`, external: the short form or the long one, maybe
abbreviated, an argument in the same word, or no option at all because it is unknown or
ambiguous. What follows from it and from the two tables of `config.cc` is modelled: which
option takes the next word, what is incorrect syntax, that other words are passed
over and that `--` ends the options. Short options that are written together in one
word are assumed to be written apart, `POSIXLY_CORRECT` to be unset, and ids to be in the
range of their type, which converts others. (That `main` does not detach although
`detach` is TRUE is plain in the source: the code is in `#if 0`, `main.cc:85`.)

The table of content types in `config.cc` is modelled by four of its entries, since no two
of them are treated differently.

The `MC` modules define the sets the configurations use. `RequestHandlerProofs`,
`ServerProofs`, `SiteProofs`, `StartupProofs`, `RevalidationProofs`, `TextProofs` and
`GrammarProofs` hold the proofs; `DataInduction` the lemmas by which some of them argue
by induction over numbers, strings and command lines.

## The runs

| run | question | bounds |
|---|---|---|
| `handler_content` | does every kind of request and header, in every order, leave the connection correct? | one line in flight; 15 kinds of lines; a file of two chunks, of two bytes and of one; 2 times; a head of two bytes |
| `handler_split` | does it matter how input is cut and pipelined, headers are folded, or files change, and does everything end? | 3 lines in flight, of 2 to 9 bytes, one folded (6 bytes, cut after 3), reads of 4; an empty file and one of a chunk |
| `server` | do connections disturb each other through descriptors, table and counter, does a signal end the server, and does it implement HttpServer? | 5 descriptors (the listener, two connections with a file each, or four without), threshold 1 |
| `text_routines` | what does each routine make of every string? | per routine an alphabet with all its special characters, strings of up to 4 to 7 of them, and of 10 that begin with an address |
| `revalidation` | are copies confirmed only when current? | instants around the ends of months, of a year and of Februaries with and without a leap day; dates that do not exist besides, some with hours beyond the day; any change of the file's time |
| `site` | where do redirects lead, do they end, and which file is logged to? | 2 hosts in 3 spellings, 2 ports, 2 Host headers, 2 default pages, 4 paths and what redirects make of them |
| `startup` | does the server run only as configured? | up to 3 uses of 24 kinds, short, long, abbreviated, unknown, operands and `--`; longer lines where options are arguments of options; 2 users |

Why these bounds are enough: the handler has no memory of a request beyond what
`FreshRequest` says, so two requests in a row meet every carry-over; a line of more
than twice the read size reaches the flood check, the shorter ones all positions
of a cut; a file of two chunks has a first, a last and a middle state of the copy, and
chunks and a head of two bytes can be written in part, so that a shorter chunk may meet a buffer
that is not empty;
a third connection competes for the same descriptors as the second. `FileChanges`
is bounded by not letting a file grow once more than announced was sent. The text
routines look at most two characters ahead (an escape, CRLF and a blank), so that
strings of four to seven characters have every special case in every neighbourhood,
and four labels of one digit make an address. Two Host headers and a URL are the
least in which host and port can come from three places, and two default pages make
`stat_again` go round once more after the first.
No symmetry is used, because `server` checks a liveness property as well.
Deadlock is not checked because connections end, the process exits, routines
return and start-up reaches the loop. `revalidation` and `site`, which cannot stop,
check it.

**Fairness.** `handler_split` assumes that the loop of `call_state_handler` goes on
(it is the only running code) and that the scheduler calls back in the end: a
handler is always registered with a timeout of 30 seconds, so that a callback,
if only `read_timeout` or `write_timeout`, is due. Nothing is assumed of the peer:
it need not send, read or close. `server` assumes that `main` goes on; of the
scheduler it assumes only that `schedule()` returns after it had something to do, and that it
calls the listener when a connection is queued.
`site` assumes that a request once begun is parsed and answered, and that a client
that has an answer acts on it: it may follow every redirect, or rest. That a new
request comes is not assumed.

### What the runs show to disagree

Each of these runs stops at a counterexample, and the finding in `PROJECT.json`
quotes the sentence that it contradicts.

- `handler_split_header`: `have_complete_header_line()` calls any two bytes a
  complete line, so a header that arrives in two reads is answered with 400.
- `server_unlogged`: a 200 reply that was sent completely is not logged when another
  connection takes the last descriptor before the log file is opened.
- `url_decode_throws`: an escape near the end of a path takes `urldecode()` past
  its string. (`UrlDecoded`, checked by `text_routines`, states what does work.)
- `revalidation_west`: the time zone's offset is applied with the wrong sign.
- `startup_no_detach`: `--no-detach`, unlike `-D`, takes the next word for an argument: with
  `--no-detach --port 8080` the server listens on port 80.

One finding is an exception in a property that holds, `PersistenceAgreed`: a 301, 400 or
404 closes the connection, and so does every reply to HTTP/2.0, but says so only if
the request had a Connection header (`ClosesUnannounced`), so that the peer of an
HTTP/1.1 request takes it for kept. After every other reply both ends agree, in both
directions.

Smaller disagreements are part of the properties that do hold, which name them as
exceptions: `Misjudged` (day 0 of a month is accepted, 29 February 2000 is not),
`KeepAliveFraming` (a file that changes while it is sent breaks the framing of a
connection that is kept; set `FilesChange` in `RequestHandlerContent.cfg` to see
it), `DatesJudged` (a date in the format of RFC 850 has a two-digit year, which is
taken to be before 1970), `HostsRecognised` (a name that ends with a dot is refused,
unless it begins with an address, like `1.1.1.1.a.`, and is then taken for that address;
and one with two hyphens in a row is cut before them), `QuotedFieldReadsBack` (a
backslash in a log field is not escaped), `OneLogPerHost` (a request that is refused is
logged under the host as the client spelled it), `RedirectStaysOnSite` (the default
host is taken to be on port 80, whatever the port the server listens on),
`ReplacedByOlder` in `ConfirmedIsCurrent` (a file that is replaced by an older one, as `mv` or
`cp -p` may do, is confirmed by the `<=` of `rh-setup-reply.cc:161`), `SignalMissed` in
`SignalEnds` (a signal that comes between the test of the loop and `poll()` is not noticed
until the next connection, if there is none at the time), and `chroot` of Startup (a server
started by another user than root ends there unless `-r ""` is given, where `httpd.txt:57`
reads as if it went on).

## What is proved

The assumptions on constants are the named `ASSUME`s of the modules: sizes are
positive naturals, the sets of lines, files and times are any sets of values of
their type, descriptors are any finite set, command lines and inputs any strings (a
request URI one without a blank), dates any records of numbers with the name of a month.
The theorems hold for all of these. Where a theorem has a hypothesis besides, it is named below.

**RequestHandlerProofs.** `TypeCorrect` first: one step per action. Then `Inv`,
whose initial case and preservation give `InvCorrect`. The properties of the
runs are not inductive on their own. `ModeMatchesState` speaks of a waiting handler
only, and needs `Registered`, which says how the mode and the state go together
while a callback is running; `FreshRequest`, `LoggedOncePerReply` and
`FileOpenOnlyWhileCopying` need `NothingToSend`: before `setup_reply` no reply, no
file and no debt to the log exist. `ReadBufferBounded` rests on the order in
`fd_is_readable`, where the flood check comes before the read, and on a read being at
most one buffer long. `PersistenceAgreed` rests on what each kind of reply announces and
decides (`Unannounced`). `NoReplyClobbered` is a sum: a `write()` moves bytes from one side of it
to the other (`WriteSome`), a chunk is added to both, and every other step leaves it
as it is (`NothingLost`). `ModeCorrect`, `BufferCorrect`, `FreshCorrect`, `DescriptorCorrect`,
`PersistenceCorrect`, `ReplyNotClobbered` and `LogCorrect` follow.

A second invariant, `InputInv`, is about the input and gives `WakeupCorrect`,
`FloodCorrect` and `CutHeaderCorrect`. `NoLostWakeup` is not inductive: a line that the
peer sends could be complete at once if the buffer held bytes that belong to no line.
`BufferedWasSent` excludes that, what was read and is unread being at most the bytes of
the lines of `stream` (`bytes_of`, with lemmas for a line added at the end, taken from the
front or cut in two). `CutHeaderStays` says that only the front line can have been cut,
and that the handler then waits for the rest or has answered 400 and closes; that
it has not answered anything else needs `NoStatusYet`.

From `Inv` follows also that the handler implements
`HttpConnection`. `Refinement`: the initial state maps to an initial state, and each action to a
step of `HttpConnection` or to a stutter, using `LoggedOncePerReply` for `owed`.
`FramingCorrect` is proved under `~FilesChange`, which cannot be dropped, by adding
`CopyInStep` (what was put into the buffer of the body, and what is left of the file, is the length
announced) and, once the file has ended, `BodyComplete`; `NoReplyClobbered` then
says that it reaches the socket.

**ServerProofs.** `TypeCorrect`, `OwnersCorrect`, `RegistrationCorrect`,
`InstancesCorrect` and `PollIntervalCorrect`, by one invariant: that `instances` stays a
natural number depends on its being exact, and that it is exact depends on the
table, so type and safety are proved together. Cardinalities change by one because a
new socket comes from outside `open` and a deleted one is a member of it.
`Refinement`: each step of the server is a step of one `HttpConnection`, of the abstract
listener, or none. It rests on the same invariant: only with sockets and files told
apart does a step of one connection leave the phases of all others as they are.

**SiteProofs.** `TypeCorrect`, `RedirectsOnce`, `RedirectsOnSite` and `OneLogCorrect`, for
all names, ports and numbers of headers. The invariant says where host and port
come from at each stage: of Host headers that were sent (`HeadersRead`), or not yet
of any, and then, after `setup_reply`, of targets the request names or the default
(`HostResolved`). `RedirectsOnce` needs `SlashAdded`: the path in `Location` ends with the slash
that was appended to it, so that the request for it does, and `setup_reply`, which looks
at the last character of the path, redirects only one that does not.

**RevalidationProofs.** `ConfirmedCorrect`, `UnchangedCorrect` and `DatesCorrect`, for all
instants, not only those around a boundary. The state invariant is short (`CopyInv`:
the client has the date `gmtime` makes of the time the file had when it was copied; nothing is
known of the time it has now); the work is the calendar. `BeforeYear` and `BeforeMonth` are monotonic, so every day lies in one year
and one month of it; `hours` of what `gmtime` gives is the instant one began with;
and that date passes the parser's checks unless it is `Misjudged`. The hypotheses are the
offset's sign: `ConfirmedCorrect` has GMT and the zones east of it, `UnchangedCorrect` GMT
and those west of it, `DatesCorrect` GMT alone. They cannot be dropped:
`revalidation_west` shows the first to fail elsewhere.

**StartupProofs.** `LoopCorrect`, for all command lines. The invariant `Acquired` lists
what each stage has got; `PortConfigured` says that an accepted port is in range,
without which `bound_port` would lose it on its way through the short.
`OptionsCorrect`: the last use of each option is in effect, and the default where there
is none, also where an option's name is the argument of another, whatever words there
are and whatever `getopt_long` takes them for. What the manual page says of the words is
defined from the front of the line (`Role`, by `TakesNext`, which does not use the
tables of `config.cc`), while `configure` consumes it piece by piece with those tables; the
invariant `OInv` has the words left as a suffix that begins with a free word, no `--`
before it, and the property for the words before it. Command lines that use `--no-detach`
without an argument are excepted, and only there do the two readings part.

**TextProofs.** `HtmlCorrect`, `QuoteCorrect`, `TypeCorrect` and `UrlCorrect`: what four of
the loops compute, for strings of every length. Each has a loop invariant over the
position. `HtmlInv`: the string is the escaped form of the characters before
some `k`, followed by those from `k` on, and `i` is at the seam. `QuoteInv`: the string
built so far is the input's beginning with its quotes escaped; that it reads back is
an induction from its end, as `ReadField` is defined. `TypeInv`: `last_dot` is the last dot before
`i`, or none is there; the theorem then compares the last dot of the path with that of
the name behind its last slash. `EscapesInv`: every
percent sign from `i` on begins an escape, though the loop skips characters behind each
and a decoded one may be a percent sign itself. `SpacedInv`: the units before some `k` are
decoded, those from `k` on untouched, and `i` is at the seam, an escape and the two plain
characters behind it being one iteration.

**GrammarProofs.** `HeaderCorrect`, `HostCorrect` and `URICorrect`, for strings of every
length. `CharactersAssumption` keeps letters, digits and what the rules name apart, and
a URI has no blank. A rule's repetition is a recursive function over positions, each
going to where the next match ends; that there is such a function (`RepetitionExists`) and
that it stays in every set of places that is closed under a match, and ends where none
follows (`RepetitionStays`), is what a greedy rule without backtracking means. Each
combinator gets a lemma on what it takes, and then both directions are shown. What is
taken is right: `HeaderShaped`, `NameIs`, `AddressIs`, `TakenReads`. What is right is taken
as a whole: `ShapedHeader`, `NameTaken`, `AddressTaken`, `ReadingTaken`; here the closed set is
that of the places behind a dot up to the last label, or up to the end of a name that is
to be refused (`DottedRefused`). The properties speak of the pieces between dots and of
parts cut out of the string, the proofs of places in it (`Hosted`, `DotsAt`, `Reads`);
`NameByPlaces`, `CutByPlaces` and `ReadingsAre` show these to be the same.

**DataInduction.** The library's induction theorems have an operator as a parameter, which
the provers do not instantiate. Here a predicate is the set of the numbers it holds
for: a set with 0 and with the successors of its numbers has all (`InductiveSet`, from
the well-foundedness of `<`), up to a bound if it is so up to a bound (`InductiveRange`).
That a recursive function on an interval exists and satisfies its equation follows
with the steps given as a function (`IterationExists`); this gives what `bytes_of`, `Role`,
`FlattenSeq` and `ReadField` compute.

**Only model-checked.** The liveness properties, which use fairness: `CallbackReturns`,
`ReplyEnds`, `PeerGoneHandlerGone`, `TerminateDeletes`, `SignalEnds` and `ChaseEnds`. All safety
properties of the passing runs are proved. `IncompleteHeaderWaits`, `AllRecorded`, `NeverThrows`,
`NoDetachTakesNoArgument`, and `ConfirmedIsCurrent` west of GMT, are false, and so have counterexamples instead.

## Not modelled

Of the grammar: methods and separators in names, and numbers that do not fit their
type; the wording of replies and of log lines beyond their quoted fields; syslog,
to which all messages go and from which nothing comes back; the exception class
`system_error`; the build files; and
libscheduler, whose directory is empty: RequestHandler and Server say what
this code expects of it. The cost of `poll()` returning again and again while no
descriptor is left for `accept()` is processor time, which the models do not have.
A reply whose connection ends between the last write and the log entry is not logged:
RequestHandler shows the step, and `LoggedOncePerReply` speaks of live handlers only.

## Plan

Done, in this order: RequestHandler with its proofs, HttpConnection and the
refinement, Server with its proofs, UrlDecode, Revalidation, Startup; then folded and
cut headers in RequestHandler, HttpServer and Server's refinement, Grammar and
TextRoutines, Site with its proofs, all options of Startup and its proof; then the
proofs about input, dates, options, strings and Grammar.

Next:

1. Proofs of what the liveness properties rest on and is safety: the measure that each
   round of `call_state_handler` and each redirect makes smaller.
2. `is_path_in_hierarchy` over trees with links, when a model of `realpath()` can be
   had from the way the code uses it.
