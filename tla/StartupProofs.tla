---------------------------- MODULE StartupProofs ----------------------------
(***************************************************************************)
(* Theorems about Startup, for every command line and every user.          *)
(***************************************************************************)
EXTENDS Startup, DataInduction, SequenceTheorems

-----------------------------------------------------------------------------
(* What each stage has acquired, and what is still as the user started it. *)

IsPort(p) == p \in Int /\ 0 < p /\ p <= 65535

PortConfigured ==
    /\ "http_port" \in DOMAIN config
    /\ stage # "failure" => IsPort(config.http_port)

RootWanted == IF config.chroot_directory = Empty THEN "/" ELSE config.chroot_directory
GidWanted  == Wanted(config.setgid_group)

Acquired ==
    /\ stage \in {"options", "listen", "chroot", "setgid", "setuid"} => euid = user
    /\ stage \in {"options", "listen", "chroot", "setgid"} => egid = user
    /\ stage \in {"options", "listen", "chroot"} => root = "/"
    /\ stage \in {"chroot", "setgid", "setuid", "loop"} => port = config.http_port
    /\ stage \in {"setgid", "setuid", "loop"} => root = RootWanted
    /\ stage \in {"setuid", "loop"} => egid = GidWanted

SInv == PortConfigured /\ Acquired /\ LoopAsConfigured

LEMMA InitStages == Init => SInv
  BY DEF Init, Defaults, SInv, PortConfigured, IsPort, Acquired, LoopAsConfigured

\* No option disturbs the port but --port, which is checked.
LEMMA MemberSet ==
    ASSUME SInv, NEW opt \in DOMAIN Member, set_member(opt)
    PROVE  SInv'
<1>1. /\ stage = "options" /\ stage' \in {"options", "failure"}
      /\ UNCHANGED <<port, root, ids, history>>
  BY DEF set_member, with_argument, option, reads
<1> DEFINE val == value(opt, optarg)
<1>2. /\ config' = [config EXCEPT ![Member[opt]] = val]
      /\ stage' = IF refused(opt, val) THEN "failure" ELSE stage
  BY DEF set_member, assign
<1>3. Member[opt] = "http_port" => opt = "p"
  BY DEF Member
<1>4. opt = "p" => val \in Int
  BY NumberAssumption DEF value, strtol
<1> HIDE DEF val
<1>5. PortConfigured'
  <2>1. DOMAIN config' = DOMAIN config
    BY <1>2
  <2>2. CASE Member[opt] = "http_port"
    <3>1. config'.http_port = val
      BY <1>2, <2>2 DEF SInv, PortConfigured
    <3>2. stage' # "failure" => IsPort(val)
      BY <1>2, <1>3, <1>4, <2>2 DEF refused, IsPort
    <3>3. QED
      BY <2>1, <3>1, <3>2 DEF SInv, PortConfigured
  <2>3. CASE Member[opt] # "http_port"
    <3>1. config'.http_port = config.http_port
      BY <1>2, <2>3 DEF SInv, PortConfigured
    <3>2. QED
      BY <1>1, <2>1, <3>1 DEF SInv, PortConfigured
  <2>4. QED
    BY <2>2, <2>3
<1>6. Acquired' /\ LoopAsConfigured'
  BY <1>1 DEF SInv, Acquired, LoopAsConfigured, ids, history
<1>7. QED
  BY <1>5, <1>6 DEF SInv

LEMMA OptionRead == SInv /\ configure => SInv'
<1> SUFFICES ASSUME SInv, configure PROVE SInv'
  OBVIOUS
<1>1. CASE \E opt \in DOMAIN Member : set_member(opt)
  BY <1>1, MemberSet
<1>2. CASE no_detach
  <2>1. /\ stage = "options" /\ UNCHANGED <<stage, port, root, ids, history>>
        /\ config' = [config EXCEPT !["detach"] = FALSE]
    BY <1>2 DEF no_detach, alone, with_argument, option, reads, assign
  <2>2. DOMAIN config' = DOMAIN config /\ config'.http_port = config.http_port
    BY <2>1 DEF SInv, PortConfigured
  <2>3. QED
    BY <2>1, <2>2 DEF SInv, PortConfigured, Acquired, LoopAsConfigured, ids, history
<1>3. CASE debugging \/ help_or_version \/ incorrect_syntax \/ not_an_option \/ options_end
  <2>1. /\ stage = "options" /\ stage' \in {"options", "listen", "success", "failure"}
        /\ UNCHANGED <<config, port, root, ids, history>>
    BY <1>3 DEF debugging, help_or_version, incorrect_syntax, not_an_option, options_end, alone, option,
       reads, exit
  <2>2. QED
    BY <2>1 DEF SInv, PortConfigured, Acquired, LoopAsConfigured, ids, history
<1>4. QED
  BY <1>1, <1>2, <1>3 DEF configure

-----------------------------------------------------------------------------
(* The system calls. *)

\* The number survives its way through the short.
LEMMA PortSurvives == \A p : IsPort(p) => bound_port(p) = p
  BY DEF IsPort, bound_port

LEMMA PortAcquired == SInv /\ listen => SInv'
  BY PortSurvives DEF listen, main_at, fails, ids, history, SInv, PortConfigured, Acquired,
     RootWanted, LoopAsConfigured

LEMMA RootChanged == SInv /\ chroot => SInv'
  BY DEF chroot, main_at, fails, ids, history, SInv, PortConfigured, Acquired, RootWanted,
     LoopAsConfigured

LEMMA GroupSet == SInv /\ setgid => SInv'
  BY DEF setgid, main_at, fails, ids, history, SInv, PortConfigured, Acquired, RootWanted,
     GidWanted, Wanted, LoopAsConfigured

LEMMA UserSet == SInv /\ setuid => SInv'
  BY DEF setuid, main_at, fails, ids, history, SInv, PortConfigured, Acquired, RootWanted,
     GidWanted, Wanted, LoopAsConfigured

\* Whatever the command line and whichever call may fail, the loop is entered on the
\* configured port, below the configured root and with the configured ids.
THEOREM LoopCorrect == Spec => []LoopAsConfigured
<1>1. SInv /\ [Next]_vars => SInv'
  <2>1. SInv /\ UNCHANGED vars => SInv'
    BY DEF vars, ids, history, SInv, PortConfigured, Acquired, RootWanted, GidWanted, Wanted, LoopAsConfigured
  <2>2. QED
    BY <2>1, OptionRead, PortAcquired, RootChanged, GroupSet, UserSet DEF Next
<1>2. SInv => LoopAsConfigured
  BY DEF SInv
<1>3. QED
  BY InitStages, <1>1, <1>2, PTL DEF Spec

-----------------------------------------------------------------------------
(* The words of a command line. *)

Roles == {"free", "argument"}

RoleAt(line, r, k) ==
    IF k > 1 /\ TakesNext(line[k - 1]) /\ r[k - 1] = "free" THEN "argument" ELSE "free"

LEMMA FreeWord ==
    ASSUME NEW line, NEW r, NEW k, ~(TakesNext(line[k - 1]) /\ r[k - 1] = "free")
    PROVE  RoleAt(line, r, k) = "free"
  BY DEF RoleAt

\* The recursive definition of Role means what it says.
LEMMA RoleDefined ==
    ASSUME NEW line \in Seq(STRING)
    PROVE  \A k \in 1..Len(line) : Role(line)[k] = RoleAt(line, Role(line), k)
<1> DEFINE N == Len(line)
           step == [k \in 1..N |-> [r \in Roles |->
               IF k > 1 /\ TakesNext(line[k - 1]) /\ r = "free" THEN "argument" ELSE "free"]]
           Is(f) == f = [k \in 0..N |->
               IF k > 1 /\ TakesNext(line[k - 1]) /\ f[k - 1] = "free" THEN "argument" ELSE "free"]
<1>1. step \in [1..N -> [Roles -> Roles]] /\ N \in Nat /\ "free" \in Roles
  BY DEF Roles
<1>2. PICK f \in [0..N -> Roles] : Iterates(f, N, "free", step)
  <2> HIDE DEF step
  <2>1. QED
    BY <1>1, IterationExists
<1>3. Is(f)
  <2> SUFFICES ASSUME NEW k \in 0..N
               PROVE  f[k] = IF k > 1 /\ TakesNext(line[k - 1]) /\ f[k - 1] = "free"
                             THEN "argument" ELSE "free"
    OBVIOUS
  <2>1. CASE k = 0
    BY <1>2, <2>1 DEF Iterates
  <2>2. CASE k \in 1..N
    <3>1. f[k] = step[k][f[k - 1]] /\ f[k - 1] \in Roles
      BY <1>2, <2>2 DEF Iterates
    <3>2. QED
      BY <2>2, <3>1
  <2>3. QED
    BY <1>1, <2>1, <2>2
<1>4. Role(line) = CHOOSE role : Is(role)
  BY DEF Role
<1>5. Is(Role(line))
  <2> HIDE DEF Is
  <2>1. QED
    BY <1>3, <1>4, Zenon
<1>6. QED
  BY <1>1, <1>5 DEF RoleAt

\* Each option sets a member of its own, and none of them is detach.
LEMMA MemberDistinct ==
    /\ \A opt1, opt2 \in DOMAIN Member : Member[opt1] = Member[opt2] => opt1 = opt2
    /\ \A opt \in DOMAIN Member : Member[opt] # "detach"
    /\ "D" \notin DOMAIN Member /\ "d" \notin DOMAIN Member
  BY DEF Member

-----------------------------------------------------------------------------
(* What has been read and what has been made of it. *)

Consumed == Len(argv) - Len(words)

\* words is what is left of argv; it does not begin with an argument, and no "--"
\* has been read.
Suffix ==
    /\ argv \in Seq(STRING) /\ words \in Seq(STRING) /\ Consumed \in Nat
    /\ \A k \in 1..Len(words) : words[k] = argv[Consumed + k]
    /\ words # <<>> => Role(argv)[Consumed + 1] = "free"
    /\ \A j \in 1..Consumed : argv[j] = "--" => Role(argv)[j] = "argument"

\* The command lines that OptionsEffective leaves out.
Excepted ==
    \E k \in 1..Len(argv) : Uses("D", k) /\ Reading[argv[k]].long /\ Reading[argv[k]].attached = <<>>

OInv ==
    /\ DOMAIN config = DOMAIN Defaults
    /\ ~ Excepted =>
           /\ stage \in {"options", "listen"} => Suffix /\ AsDocumented(Consumed)
           /\ stage = "listen" /\ words # <<>> => Head(words) = "--"

LEMMA InitOptions == Init => OInv
<1> SUFFICES ASSUME Init PROVE OInv
  OBVIOUS
<1>1. argv \in Seq(STRING) /\ words = argv /\ stage = "options" /\ config = Defaults
  BY CommandLinesAssumption DEF Init
<1>2. Consumed = 0
  BY <1>1 DEF Consumed
<1>3. words # <<>> => Role(argv)[1] = "free"
  BY <1>1, RoleDefined DEF RoleAt
<1>4. config.detach = TRUE
  BY <1>1 DEF Defaults
<1>5. AsDocumented(0)
  <2>1. \A k \in 1..0 : FALSE
    OBVIOUS
  <2>2. config.detach = \A k \in 1..0 : ~ Uses("D", k)
    BY <1>4, <2>1, Zenon
  <2>3. QED
    BY <1>1, <2>1, <2>2, Zenon DEF AsDocumented
<1>6. QED
  BY <1>1, <1>2, <1>3, <1>5 DEF OInv, Suffix

\* The word that getopt_long has come to is the option opt.
AtOption(opt) == words # <<>> /\ Head(words) \in DOMAIN Reading /\ current.opt = opt

LEMMA NextUse ==
    ASSUME Suffix, words # <<>>, NEW opt
    PROVE  Consumed + 1 \in 1..Len(argv) /\ argv[Consumed + 1] = Head(words)
           /\ (Uses(opt, Consumed + 1) <=> AtOption(opt))
<1> DEFINE C == Consumed
<1>1. /\ C \in Nat /\ Len(argv) = C + Len(words) /\ Len(words) \in Nat \ {0}
      /\ argv[C + 1] = words[1] /\ Head(words) = words[1] /\ Role(argv)[C + 1] = "free"
      /\ \A j \in 1..C : argv[j] = "--" => Role(argv)[j] = "argument"
  BY DEF Suffix, Consumed
<1> HIDE DEF C
<1>2. 1 .. (C + 1) - 1 = 1..C /\ C + 1 \in 1..Len(argv)
  BY <1>1
<1>3. Uses(opt, C + 1) <=> AtOption(opt)
  BY <1>1, <1>2 DEF Uses, AtOption, current
<1>4. QED
  BY <1>1, <1>2, <1>3 DEF C

\* One round of getopt_long takes a word that is no argument, and its argument
\* with it if it has one.
LEMMA RoundTaken ==
    ASSUME Suffix, NEW n \in {1, 2}, reads(n), Len(words) >= n, Head(words) # "--",
           TakesNext(Head(words)) <=> n = 2
    PROVE  /\ Suffix' /\ Consumed' = Consumed + n /\ argv' = argv
           /\ n = 2 => Role(argv)[Consumed + 2] = "argument" /\ argv[Consumed + 2] = words[2]
<1> DEFINE C == Consumed
           L == Len(words)
<1>1. /\ argv \in Seq(STRING) /\ words \in Seq(STRING) /\ C \in Nat /\ L \in Nat /\ Len(argv) = C + L
      /\ \A k \in 1..L : words[k] = argv[C + k]
      /\ words # <<>> /\ Role(argv)[C + 1] = "free"
      /\ \A j \in 1..C : argv[j] = "--" => Role(argv)[j] = "argument"
  BY DEF Suffix, Consumed
<1>2. words' = SubSeq(words, n + 1, L) /\ argv' = argv
  BY DEF reads, history
<1> HIDE DEF C, L
<1>3. /\ words' \in Seq(STRING) /\ Len(words') = L - n
      /\ \A k \in 1..(L - n) : words'[k] = words[n + k]
  BY <1>1, <1>2 DEF L
<1>4. Consumed' = C + n
  BY <1>1, <1>2, <1>3 DEF Consumed
<1>5. \A k \in 1..(L - n) : words'[k] = argv[C + n + k]
  <2> SUFFICES ASSUME NEW k \in 1..(L - n) PROVE words'[k] = argv[C + n + k]
    OBVIOUS
  <2>1. n + k \in 1..L /\ C + (n + k) = C + n + k
    BY <1>1
  <2>2. QED
    BY <1>1, <1>3, <2>1
<1>6. argv[C + 1] = Head(words)
  BY <1>1 DEF L
<1>7. n = 2 => Role(argv)[C + 2] = "argument" /\ argv[C + 2] = words[2]
  <2> HAVE n = 2
  <2>1. PICK k \in 1..Len(argv) : k = C + 2 /\ k - 1 = C + 1 /\ k > 1 /\ 2 \in 1..L
    BY <1>1 DEF L
  <2>2. TakesNext(Head(words)) /\ argv[k - 1] = Head(words) /\ Role(argv)[k - 1] = "free"
    BY <1>1, <1>6, <2>1
  <2>3. RoleAt(argv, Role(argv), k) = "argument"
    BY <2>1, <2>2 DEF RoleAt
  <2>4. Role(argv)[k] = RoleAt(argv, Role(argv), k)
    BY <1>1, RoleDefined
  <2>5. QED
    BY <1>1, <2>1, <2>3, <2>4
<1>8. words' # <<>> => Role(argv)[C + n + 1] = "free"
  <2> HAVE words' # <<>>
  <2>1. PICK k \in 1..Len(argv) : k = C + n + 1 /\ k - 1 = C + n
    BY <1>1, <1>3
  <2>2. Role(argv)[k] = RoleAt(argv, Role(argv), k)
    BY <1>1, RoleDefined
  <2>3. ~(TakesNext(argv[k - 1]) /\ Role(argv)[k - 1] = "free")
    <3>1. CASE n = 1
      BY <1>6, <2>1, <3>1
    <3>2. CASE n = 2
      BY <1>7, <2>1, <3>2
    <3>3. QED
      BY <3>1, <3>2
  <2>4. RoleAt(argv, Role(argv), k) = "free"
    BY <2>3, FreeWord, Zenon
  <2>5. QED
    BY <2>1, <2>2, <2>4
<1>9. \A j \in 1..(C + n) : argv[j] = "--" => Role(argv)[j] = "argument"
  BY <1>1, <1>6, <1>7
<1>10. Suffix'
  <2>1. argv' \in Seq(STRING) /\ words' \in Seq(STRING) /\ Consumed' \in Nat
    BY <1>1, <1>2, <1>3, <1>4
  <2>2. \A k \in 1..Len(words') : words'[k] = argv'[Consumed' + k]
    BY <1>2, <1>3, <1>4, <1>5
  <2>3. words' # <<>> => Role(argv')[Consumed' + 1] = "free"
    BY <1>2, <1>4, <1>8
  <2>4. \A j \in 1..Consumed' : argv'[j] = "--" => Role(argv')[j] = "argument"
    BY <1>2, <1>4, <1>9
  <2>5. QED
    BY <2>1, <2>2, <2>3, <2>4 DEF Suffix
<1>11. QED
  BY <1>2, <1>4, <1>7, <1>10 DEF C

\* A round that sets the member of the option it has come to, and no other.
LEMMA RoundInEffect ==
    ASSUME Suffix, AsDocumented(Consumed), NEW n \in {1, 2}, reads(n), Len(words) >= n, Head(words) # "--",
           TakesNext(Head(words)) <=> n = 2,
           \A opt \in DOMAIN Member :
               config'[Member[opt]] = IF AtOption(opt) THEN value(opt, optarg) ELSE config[Member[opt]],
           config'.detach = IF AtOption("D") THEN FALSE ELSE config.detach
    PROVE  Suffix' /\ AsDocumented(Consumed)'
<1> DEFINE C == Consumed
<1>1. /\ Suffix' /\ Consumed' = C + n /\ argv' = argv /\ C \in Nat /\ words # <<>>
      /\ n = 2 => Role(argv)[C + 2] = "argument" /\ argv[C + 2] = words[2]
  BY RoundTaken DEF Suffix
<1>2. /\ argv[C + 1] = Head(words)
      /\ \A opt : Uses(opt, C + 1) <=> AtOption(opt)
  BY <1>1, NextUse
<1>3. \A opt : n = 2 => ~ Uses(opt, C + 2)
  BY <1>1 DEF Uses
<1> HIDE DEF C
<1>4. ASSUME NEW opt \in DOMAIN Member, AtOption(opt) PROVE Given(C + 1) = optarg
  <2>1. CASE current.attached # <<>>
    BY <1>2, <2>1 DEF Given, optarg, current
  <2>2. CASE current.attached = <<>>
    <3>1. n = 2
      BY <1>4, <2>2 DEF AtOption, current, TakesNext
    <3>2. C + 1 + 1 = C + 2
      BY <1>1
    <3>3. QED
      BY <1>1, <1>2, <2>2, <3>1, <3>2 DEF Given, optarg, current
  <2>3. QED
    BY <2>1, <2>2
\* The words up to C + n that are uses of an option.
<1>5. ASSUME NEW opt, NEW k \in 1..(C + n), Uses(opt, k) PROVE k \in 1..C \/ k = C + 1
  BY <1>1, <1>3, <1>5
<1>6. ASSUME NEW opt \in DOMAIN Member, NEW k \in 1..(C + n), Uses(opt, k),
             \A j \in k + 1 .. C + n : ~ Uses(opt, j)
      PROVE  config'[Member[opt]] = value(opt, Given(k))
  <2>1. CASE k = C + 1
    BY <1>2, <1>4, <1>6, <2>1
  <2>2. CASE k \in 1..C
    <3>1. ~ AtOption(opt)
      <4>1. C + 1 \in k + 1 .. C + n
        BY <1>1, <2>2
      <4>2. QED
        BY <1>2, <1>6, <4>1
    <3>2. \A j \in k + 1 .. C : ~ Uses(opt, j)
      BY <1>1, <1>6, <2>2
    <3>3. config[Member[opt]] = value(opt, Given(k))
      BY <1>6, <2>2, <3>2 DEF AsDocumented, C
    <3>4. QED
      BY <3>1, <3>3
  <2>3. QED
    BY <1>5, <1>6, <2>1, <2>2
<1>7. ASSUME NEW opt, \A k \in 1..(C + n) : ~ Uses(opt, k)
      PROVE  ~ AtOption(opt) /\ \A k \in 1..C : ~ Uses(opt, k)
  BY <1>1, <1>2, <1>7
<1>8. ASSUME NEW opt \in DOMAIN Member, \A k \in 1..(C + n) : ~ Uses(opt, k)
      PROVE  config'[Member[opt]] = Defaults[Member[opt]]
  BY <1>7, <1>8 DEF AsDocumented, C
<1>9. config'.detach = \A k \in 1..(C + n) : ~ Uses("D", k)
  <2>1. config.detach = \A k \in 1..C : ~ Uses("D", k)
    BY DEF AsDocumented, C
  <2>2. CASE AtOption("D")
    <3>1. C + 1 \in 1..(C + n) /\ Uses("D", C + 1)
      BY <1>1, <1>2, <2>2
    <3>2. QED
      BY <2>2, <3>1
  <2>3. CASE ~ AtOption("D")
    <3>1. (\A k \in 1..C : ~ Uses("D", k)) <=> \A k \in 1..(C + n) : ~ Uses("D", k)
      BY <1>1, <1>2, <1>5, <2>3
    <3>2. QED
      BY <2>1, <2>3, <3>1
  <2>4. QED
    BY <2>2, <2>3
<1>10. AsDocumented(Consumed)'
  <2>1. \A opt, k : Uses(opt, k)' <=> Uses(opt, k)
    BY <1>1 DEF Uses
  <2>2. \A k : Given(k)' = Given(k)
    BY <1>1 DEF Given
  <2>3. QED
    BY <1>1, <1>6, <1>8, <1>9, <2>1, <2>2 DEF AsDocumented
<1>11. QED
  BY <1>1, <1>10

LEMMA NextOptions == ASSUME OInv, [Next]_vars PROVE OInv'
<1>1. argv' = argv /\ (Excepted' <=> Excepted)
  <2>1. argv' = argv
    BY DEF Next, configure, set_member, no_detach, debugging, help_or_version, incorrect_syntax, not_an_option,
       options_end, alone, with_argument, reads, listen, chroot, setgid, setuid, main_at, vars, history
  <2>2. QED
    BY <2>1 DEF Excepted, Uses
<1>2. ASSUME NEW opt \in DOMAIN Member, set_member(opt) PROVE OInv'
  <2>1. /\ stage = "options" /\ AtOption(opt) /\ opt \in table.argument
        /\ config' = [config EXCEPT ![Member[opt]] = value(opt, optarg)]
        /\ stage' \in {stage, "failure"}
    BY <1>2 DEF set_member, with_argument, option, assign, AtOption
  <2>2. PICK n \in {1, 2} : reads(n) /\ (n = 2 <=> current.attached = <<>>) /\ (n = 2 => Len(words) >= 2)
    BY <1>2 DEF set_member, with_argument
  <2>3. Member[opt] \in DOMAIN Defaults
    BY DEF Member, Defaults
  <2>4. /\ DOMAIN config' = DOMAIN Defaults /\ config'[Member[opt]] = value(opt, optarg)
        /\ \A other \in DOMAIN Member : other # opt => config'[Member[other]] = config[Member[other]]
        /\ config'.detach = config.detach
    BY <2>1, <2>3, MemberDistinct DEF OInv
  <2>5. ASSUME ~ Excepted PROVE Suffix' /\ AsDocumented(Consumed)'
    <3>1. Suffix /\ AsDocumented(Consumed) /\ Len(words) >= 1
      BY <2>1, <2>5 DEF OInv, Suffix, AtOption
    <3>2. Head(words) # "--" /\ (TakesNext(Head(words)) <=> n = 2)
      BY <2>1, <2>2, ReadingAssumption DEF AtOption, current, TakesNext
    <3>3. /\ \A other \in DOMAIN Member :
                 config'[Member[other]] = IF AtOption(other) THEN value(other, optarg) ELSE config[Member[other]]
          /\ config'.detach = IF AtOption("D") THEN FALSE ELSE config.detach
      BY <2>1, <2>4, MemberDistinct DEF AtOption
    <3>4. QED
      BY <2>2, <3>1, <3>2, <3>3, RoundInEffect
  <2>6. QED
    BY <1>1, <2>1, <2>4, <2>5 DEF OInv
<1>3. CASE no_detach
  <2>1. /\ stage = "options" /\ AtOption("D") /\ config' = [config EXCEPT !["detach"] = FALSE] /\ stage' = stage
    BY <1>3 DEF no_detach, alone, with_argument, option, assign, AtOption
  <2>2. "detach" \in DOMAIN Defaults /\ \A opt \in DOMAIN Member : Member[opt] \in DOMAIN Defaults
    BY DEF Defaults, Member
  <2>3. /\ DOMAIN config' = DOMAIN Defaults /\ config'.detach = FALSE
        /\ \A opt \in DOMAIN Member : config'[Member[opt]] = config[Member[opt]]
    BY <2>1, <2>2, MemberDistinct DEF OInv
  <2>4. ASSUME ~ Excepted PROVE Suffix' /\ AsDocumented(Consumed)'
    <3>1. Suffix /\ AsDocumented(Consumed) /\ Len(words) >= 1
      BY <2>1, <2>4 DEF OInv, Suffix, AtOption
    \* With the argument that --no-detach takes, the command line is an excepted one.
    <3>2. reads(1)
      <4>1. SUFFICES ASSUME with_argument("D"), current.attached = <<>> PROVE FALSE
        BY <1>3 DEF no_detach, alone, with_argument
      <4>2. current.long
        BY <4>1 DEF with_argument, table, optstring
      <4>3. Consumed + 1 \in 1..Len(argv) /\ argv[Consumed + 1] = Head(words) /\ Uses("D", Consumed + 1)
        BY <2>1, <3>1, NextUse DEF AtOption
      <4>4. QED
        BY <2>4, <4>1, <4>2, <4>3 DEF Excepted, current
    <3>3. Head(words) # "--" /\ ~ TakesNext(Head(words))
      BY <2>1, ReadingAssumption, MemberDistinct DEF AtOption, current, TakesNext
    <3>4. /\ \A opt \in DOMAIN Member :
                 config'[Member[opt]] = IF AtOption(opt) THEN value(opt, optarg) ELSE config[Member[opt]]
          /\ config'.detach = IF AtOption("D") THEN FALSE ELSE config.detach
      BY <2>1, <2>3, MemberDistinct DEF AtOption
    <3>5. QED
      BY <3>1, <3>2, <3>3, <3>4, RoundInEffect
  <2>5. QED
    BY <1>1, <2>1, <2>3, <2>4 DEF OInv
<1>4. CASE debugging \/ not_an_option
  <2>1. /\ stage = "options" /\ words # <<>> /\ reads(1) /\ config' = config /\ stage' = stage
        /\ Head(words) # "--" /\ ~ TakesNext(Head(words)) /\ ~ AtOption("D")
        /\ \A opt \in DOMAIN Member : ~ AtOption(opt)
    BY <1>4, MemberDistinct, ReadingAssumption DEF debugging, not_an_option, alone, option, AtOption, current, TakesNext
  <2>2. ASSUME ~ Excepted PROVE Suffix' /\ AsDocumented(Consumed)'
    <3>1. Suffix /\ AsDocumented(Consumed) /\ Len(words) >= 1
      BY <2>1, <2>2 DEF OInv, Suffix
    <3>2. QED
      BY <2>1, <3>1, RoundInEffect
  <2>3. QED
    BY <1>1, <2>1, <2>2 DEF OInv
<1>5. CASE help_or_version \/ incorrect_syntax
  BY <1>1, <1>5 DEF help_or_version, incorrect_syntax, exit, OInv
<1>6. CASE options_end
  <2>1. /\ stage = "options" /\ UNCHANGED <<words, config, argv>>
        /\ words # <<>> => Head(words) = "--"
    BY <1>6 DEF options_end, history
  <2>2. (Suffix' <=> Suffix) /\ (AsDocumented(Consumed)' <=> AsDocumented(Consumed))
    BY <2>1 DEF Suffix, AsDocumented, Consumed, Uses, Given
  <2>3. QED
    BY <1>1, <2>1, <2>2 DEF OInv
<1>7. CASE listen \/ chroot \/ setgid \/ setuid
  BY <1>1, <1>7 DEF listen, chroot, setgid, setuid, main_at, fails, OInv
<1>8. CASE UNCHANGED vars
  <2>1. UNCHANGED <<words, config, argv, stage>>
    BY <1>8 DEF vars, history
  <2>2. (Suffix' <=> Suffix) /\ (AsDocumented(Consumed)' <=> AsDocumented(Consumed))
    BY <2>1 DEF Suffix, AsDocumented, Consumed, Uses, Given
  <2>3. QED
    BY <1>1, <2>1, <2>2 DEF OInv
<1>9. QED
  BY <1>2, <1>3, <1>4, <1>5, <1>6, <1>7, <1>8 DEF Next, configure

\* What is left when the options have ended has no use of one.
LEMMA NoUseBehind ==
    ASSUME Suffix, words # <<>> => Head(words) = "--", AsDocumented(Consumed)
    PROVE  AsDocumented(Len(argv))
<1> DEFINE C == Consumed
           N == Len(argv)
<1>1. C \in Nat /\ N \in Nat /\ C <= N /\ (words = <<>> => C = N)
  BY DEF Suffix, Consumed
<1>2. ASSUME NEW opt, NEW k \in C + 1 .. N PROVE ~ Uses(opt, k)
  <2>1. words # <<>> /\ Head(words) = "--"
    BY <1>1
  <2>2. argv[C + 1] = "--" /\ Role(argv)[C + 1] = "free" /\ C + 1 \in 1..N
    BY <2>1, NextUse DEF Suffix
  <2>3. CASE k = C + 1
    BY <2>2, <2>3, ReadingAssumption DEF Uses
  <2>4. CASE k # C + 1
    <3>1. C + 1 \in 1 .. k - 1
      BY <1>1, <2>4
    <3>2. QED
      BY <2>2, <3>1 DEF Uses
  <2>5. QED
    BY <2>3, <2>4
<1> HIDE DEF C, N
<1>3. \A opt, k : k \in 1..N /\ Uses(opt, k) => k \in 1..C
  BY <1>1, <1>2
<1>4. AsDocumented(C)
  BY DEF C
<1>5. \A opt : (\A k \in 1..N : ~ Uses(opt, k)) <=> \A k \in 1..C : ~ Uses(opt, k)
  BY <1>1, <1>3
<1>6. ASSUME NEW opt \in DOMAIN Member, NEW k \in 1..N, Uses(opt, k),
             \A j \in k + 1 .. N : ~ Uses(opt, j)
      PROVE  config[Member[opt]] = value(opt, Given(k))
  <2>1. k \in 1..C /\ \A j \in k + 1 .. C : ~ Uses(opt, j)
    BY <1>1, <1>3, <1>6
  <2>2. QED
    BY <1>4, <1>6, <2>1 DEF AsDocumented
<1>7. AsDocumented(N)
  BY <1>4, <1>5, <1>6 DEF AsDocumented
<1>8. QED
  BY <1>7 DEF N

\* When the command line has been read, the last use of every option is in effect,
\* and the default of every option that is not used, however getopt_long reads the
\* words, unless --no-detach is used without an argument.
THEOREM OptionsCorrect == Spec => []OptionsEffective
<1>1. OInv /\ [Next]_vars => OInv'
  BY NextOptions
<1>2. OInv => OptionsEffective
  <2> SUFFICES ASSUME OInv, stage = "listen", ~ Excepted PROVE AsDocumented(Len(argv))
    BY ReadingAssumption DEF OptionsEffective, Excepted
  <2>1. Suffix /\ AsDocumented(Consumed) /\ (words # <<>> => Head(words) = "--")
    BY DEF OInv
  <2>2. QED
    BY <2>1, NoUseBehind
<1>3. QED
  BY InitOptions, <1>1, <1>2, PTL DEF Spec

=============================================================================
