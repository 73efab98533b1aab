------------------------------ MODULE Startup ------------------------------
(***************************************************************************)
(* From the command line to the main loop: the configuration's constructor *)
(* reads one option per step, then main acquires the port, changes the     *)
(* root directory and drops privileges, one system call per step.          *)
(***************************************************************************)
EXTENDS Integers, Sequences

CONSTANTS
    CommandLines,     \* the command lines, sequences of words
    Reading,          \* what getopt_long takes the words for that are options
    Number,           \* the value of each word that is a number
    StartedBy         \* who starts the server: user ids, 0 is root

ASSUME CommandLinesAssumption == CommandLines \subseteq Seq(STRING)
\* Which option a word stands for (abbreviated or not; "?" if for none or for more
\* than one), in its long form or the short one, and the argument in the same word.
\* Short options are taken to be written in words of their own.
ASSUME ReadingAssumption ==
    /\ "--" \notin DOMAIN Reading
    /\ \A word \in DOMAIN Reading :
           /\ DOMAIN Reading[word] = {"opt", "long", "attached"} /\ Reading[word].long \in BOOLEAN
           /\ Reading[word].attached \in Seq(STRING) /\ Len(Reading[word].attached) <= 1
ASSUME StartedByAssumption == StartedBy \subseteq Nat
ASSUME NumberAssumption == \A word \in DOMAIN Number : Number[word] \in Int

None  == <<>>           \* of an optional value, which is a sequence of at most one
Empty == ""

VARIABLES
    words,          \* the words of argv still to be read
    stage,          \* "options", "listen", "chroot", "setgid", "setuid", "loop";
                    \* "success" and "failure" are the exit statuses
    config,         \* class configuration
    port,           \* the port of the listening socket, 0 before
    root,           \* the root directory
    euid, egid,     \* effective ids of the process
    argv, user      \* history: the command line and who gave it

history == <<argv, user>>
ids     == <<euid, egid>>
vars    == <<words, stage, config, port, root, ids, history>>

Defaults == [http_port |-> 80, chroot_directory |-> "prefix", setuid_user |-> None,
             setgid_group |-> None, document_root |-> "/htdocs", logfile_directory |-> "/logs",
             default_page |-> "index.html", default_hostname |-> Empty,
             server_string |-> "mini-httpd", detach |-> TRUE]

Init ==
    /\ argv \in CommandLines /\ words = argv
    /\ user \in StartedBy /\ euid = user /\ egid = user
    /\ stage = "options" /\ port = 0 /\ root = "/"
    /\ config = Defaults

exit(status) == stage' = status /\ UNCHANGED <<config, port, root, ids>>

-----------------------------------------------------------------------------
(* configuration::configuration, one round of getopt_long per step.        *)

\* The tables of the short and of the long options: the options that stand alone
\* and those with an argument.  longopts demands one of --no-detach, too.
optstring == [alone |-> {"h", "d", "D"}, argument |-> {"p", "r", "l", "s", "u", "g", "H"}]
longopts  == [alone |-> {"h", "v", "d"},
              argument |-> {"p", "r", "l", "s", "u", "g", "D", "H", "y", "z"}]

\* The option that getopt_long has come to.
option  == stage = "options" /\ words # <<>> /\ Head(words) \in DOMAIN Reading
current == Reading[Head(words)]
table   == IF current.long THEN longopts ELSE optstring
optarg  == IF current.attached # <<>> THEN Head(current.attached) ELSE words[2]

reads(n) == words' = SubSeq(words, n + 1, Len(words)) /\ UNCHANGED history

alone(opt) ==
    /\ option /\ current.opt = opt /\ opt \in table.alone /\ current.attached = <<>>
    /\ reads(1)

with_argument(opt) ==
    /\ option /\ current.opt = opt /\ opt \in table.argument
    /\ \/ current.attached # <<>> /\ reads(1)
       \/ current.attached = <<>> /\ Len(words) >= 2 /\ reads(2)

\* The member that each option with an argument sets.
Member ==
    [opt \in {"p", "r", "u", "g", "y", "l", "z", "H", "s"} |->
        CASE opt = "p" -> "http_port"
          [] opt = "r" -> "chroot_directory"
          [] opt = "u" -> "setuid_user"
          [] opt = "g" -> "setgid_group"
          [] opt = "y" -> "document_root"
          [] opt = "l" -> "logfile_directory"
          [] opt = "z" -> "default_page"
          [] opt = "H" -> "default_hostname"
          [] opt = "s" -> "server_string"]

\* The word as the option's argument; strtol answers 0 for what is no number.
strtol(word) == IF word \in DOMAIN Number THEN Number[word] ELSE 0
value(opt, word) ==
    CASE opt = "p"          -> strtol(word)
      [] opt \in {"u", "g"} -> <<strtol(word)>>
      [] OTHER              -> word

\* Mutant: an option that was given before keeps its first value.
MutantAssign(member, val) ==
    config' = [config EXCEPT ![member] = IF @ = Defaults[member] THEN val ELSE @]

assign(member, val) == config' = [config EXCEPT ![member] = val]

\* What must not be empty.
Required == {"default_page", "document_root", "logfile_directory"}

\* The consistency checks behind the switch see the configuration as it is now.
refused(opt, val) ==
    \/ opt = "p" /\ (val <= 0 \/ val > 65535)
    \/ Member[opt] \in Required /\ val = Empty

set_member(opt) ==
    /\ with_argument(opt)
    /\ LET val == value(opt, optarg) IN
       /\ assign(Member[opt], val)
       /\ stage' = IF refused(opt, val) THEN "failure" ELSE stage
    /\ UNCHANGED <<port, root, ids>>

no_detach ==
    /\ alone("D") \/ with_argument("D")
    /\ assign("detach", FALSE)
    /\ UNCHANGED <<stage, port, root, ids>>

debugging == alone("d") /\ UNCHANGED <<stage, config, port, root, ids>>

help_or_version == (alone("h") \/ alone("v")) /\ exit("success")

\* An option that there is not, or without the argument that it needs, or with one
\* that it does not take.
incorrect_syntax ==
    /\ option
    /\ \/ current.opt \notin table.alone \cup table.argument
       \/ current.opt \in table.argument /\ current.attached = <<>> /\ Len(words) = 1
       \/ current.opt \in table.alone /\ current.attached # <<>>
    /\ reads(1) /\ exit("failure")

\* Words that are neither an option nor the argument of one are passed over.
not_an_option ==
    /\ stage = "options" /\ words # <<>> /\ Head(words) \notin DOMAIN Reading \cup {"--"}
    /\ reads(1)
    /\ UNCHANGED <<stage, config, port, root, ids>>

\* "--" ends the options, and what follows it is not read.
options_end ==
    /\ stage = "options"
    /\ words # <<>> => Head(words) = "--"
    /\ stage' = "listen" /\ UNCHANGED <<words, config, port, root, ids, history>>

configure ==
    \/ \E opt \in DOMAIN Member : set_member(opt)
    \/ no_detach \/ debugging \/ help_or_version \/ incorrect_syntax \/ not_an_option
    \/ options_end

-----------------------------------------------------------------------------
(* main.  Every system call may fail, and its exception ends the process.  *)

main_at(s) == stage = s /\ UNCHANGED <<words, config, history>>
fails      == stage' = "failure" /\ UNCHANGED <<port, root, ids>>

\* Mutant: the conversion to short saturates.
MutantBoundPort(p) == IF p > 32767 THEN 32767 ELSE p

\* The port is a long, a short in TCPListener's constructor and an unsigned
\* 16-bit number for the kernel.
bound_port(p) == LET short == IF p > 32767 THEN p - 65536 ELSE p IN short % 65536

\* TCPListener listener(sched, config->http_port)
listen ==
    /\ main_at("listen")
    /\ \/ /\ config.http_port >= 1024 \/ euid = 0
          /\ port' = bound_port(config.http_port) /\ stage' = "chroot"
          /\ UNCHANGED <<root, ids>>
       \/ fails

\* The super-user is told apart only when privileges are dropped.
chroot ==
    /\ main_at("chroot")
    /\ \/ /\ config.chroot_directory = Empty
          /\ stage' = "setgid" /\ UNCHANGED <<port, root, ids>>
       \/ /\ config.chroot_directory # Empty /\ euid = 0
          /\ root' = config.chroot_directory /\ stage' = "setgid" /\ UNCHANGED <<port, ids>>
       \/ config.chroot_directory # Empty /\ fails

setgid ==
    /\ main_at("setgid")
    /\ \/ /\ euid = 0 /\ config.setgid_group # None
          /\ egid' = Head(config.setgid_group) /\ stage' = "setuid" /\ UNCHANGED <<port, root, euid>>
       \/ euid = 0 /\ config.setgid_group # None /\ fails
       \/ /\ euid # 0 \/ config.setgid_group = None
          /\ stage' = "setuid" /\ UNCHANGED <<port, root, ids>>

setuid ==
    /\ main_at("setuid")
    /\ \/ /\ euid = 0 /\ config.setuid_user # None
          /\ euid' = Head(config.setuid_user) /\ stage' = "loop" /\ UNCHANGED <<port, root, egid>>
       \/ euid = 0 /\ config.setuid_user # None /\ fails
       \/ /\ euid # 0 \/ config.setuid_user = None
          /\ stage' = "loop" /\ UNCHANGED <<port, root, ids>>

Next == configure \/ listen \/ chroot \/ setgid \/ setuid

Spec == Init /\ [][Next]_vars

-----------------------------------------------------------------------------
(* Properties. *)

\* How the manual page reads a command line: an option takes the next word if it
\* has an argument, which is the case for those of Member, in their short form and
\* in the long one, and the argument is not in the same word.
TakesNext(word) ==
    word \in DOMAIN Reading /\ Reading[word].opt \in DOMAIN Member /\ Reading[word].attached = <<>>

Role(line) ==
    LET role[k \in 0..Len(line)] ==
            IF k > 1 /\ TakesNext(line[k - 1]) /\ role[k - 1] = "free" THEN "argument" ELSE "free"
    IN  role

\* The word at k is the option opt, and no "--" stands before it.
Uses(opt, k) ==
    /\ Role(argv)[k] = "free" /\ argv[k] \in DOMAIN Reading /\ Reading[argv[k]].opt = opt
    /\ \A j \in 1 .. k - 1 : argv[j] = "--" => Role(argv)[j] = "argument"

Given(k) == IF Reading[argv[k]].attached # <<>> THEN Head(Reading[argv[k]].attached) ELSE argv[k + 1]

\* The configuration that the first n words ask for: the last use of each option
\* decides, and the default holds where there is none.
AsDocumented(n) ==
    /\ \A opt \in DOMAIN Member :
           /\ \A k \in 1..n : Uses(opt, k) /\ (\A j \in k + 1 .. n : ~ Uses(opt, j))
                  => config[Member[opt]] = value(opt, Given(k))
           /\ (\A k \in 1..n : ~ Uses(opt, k)) => config[Member[opt]] = Defaults[Member[opt]]
    /\ config.detach = \A k \in 1..n : ~ Uses("D", k)

\* What the manual page says of each option holds whatever else the command line
\* says, and no option takes the word that belongs to another, even where the
\* argument of one is the name of another.  The exception is a command line that
\* uses --no-detach without an argument: see NoDetachTakesNoArgument.
OptionsEffective ==
    stage = "listen" /\ (\A k \in 1..Len(argv) :
                             Uses("D", k) => ~ Reading[argv[k]].long \/ Reading[argv[k]].attached # <<>>)
        => AsDocumented(Len(argv))

\* "-D, --no-detach" (httpd.txt), without an argument: what follows it is read as
\* it is after -D.
NoDetachTakesNoArgument == stage = "listen" => AsDocumented(Len(argv))

\* The id that the server runs with when the configuration has the optional id.
Wanted(id) == IF user = 0 /\ id # None THEN Head(id) ELSE user

\* The main loop is entered only as configured: on the given port, for all of
\* its range, below the given root directory and, if root started the server,
\* with the given ids; if somebody else did, with theirs.
LoopAsConfigured ==
    stage = "loop" =>
        /\ port = config.http_port
        /\ root = (IF config.chroot_directory = Empty THEN "/" ELSE config.chroot_directory)
        /\ euid = Wanted(config.setuid_user)
        /\ egid = Wanted(config.setgid_group)

=============================================================================
