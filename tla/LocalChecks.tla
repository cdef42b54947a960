---------------------------- MODULE LocalChecks ----------------------------
(***************************************************************************)
(* Checks of the host they run on: base/check_sockets.c, check_bonding.c,   *)
(* check_file.c, check_mem.c and check_nrped.c, selinux/check_enforce.c and *)
(* check_sebool.c, dummy/check_dummy.c and check_timeout.c.                 *)
(*                                                                         *)
(* check_sockets counts the sockets on a port (or all of them) in the       *)
(* kernel's six tables, check_bonding looks at the bonds named by -b, or at *)
(* all of the directory.  The kernel changes a file whenever it likes, so   *)
(* its content is chosen when it is opened.  The access string of check_file *)
(* is a sequence of clauses like those of chmod, u+rw for one, and is read  *)
(* character by character.                                                  *)
(***************************************************************************)
EXTENDS Integers, Sequences, SequencesExt

CONSTANTS
    Worlds,     \* plugin, options and state of the host, as a record
    Contents,   \* a table of sockets: is it there, is its header, and how many
                \* sockets it has on the port and on others
    Warn, Crit, \* ends of the ranges of -w and -c of check_sockets
    Bonds,      \* names of bonds
    Files,      \* the lines of a bond's file that matter: "up" and "down" for
                \* MII Status, "slave" for Slave Interface
    Who, Perms, \* whose bits of a mode and which, as characters
    Modes,      \* modes of a file, sets of <<who, perm>>
    Kilo        \* 1024

VARIABLES
    given,      \* one of Worlds
    todo,       \* what is still to be read, looked at or called
    seen,       \* what the tables or bonds held when they were read; of a file its
                \* mode and the results of the criteria
    status,     \* severity so far
    pc,         \* "start", "run", "exited", "crashed", or "usage", "failed", "alarmed"
                \* for those exits
    code        \* exit code, -1 while running

vars == <<given, todo, seen, status, pc, code>>

STATE_OK == 0
STATE_WARNING == 1
STATE_CRITICAL == 2
STATE_UNKNOWN == 3

Is(p) == given.plugin = p
sockets == Is("check_sockets")
bonding == Is("check_bonding")

Init ==
    /\ given \in Worlds
    /\ todo = <<>>
    /\ seen = IF Is("check_file") THEN [results |-> {}, mode |-> {}] ELSE <<>>
    /\ status = STATE_OK
    /\ pc = "start"
    /\ code = -1

Leave(how, s) == pc' = how /\ code' = s
Exit(s) == Leave("exited", s)
Crash == pc' = "crashed" /\ UNCHANGED code
Worse(a, b) == IF a > b THEN a ELSE b

-----------------------------------------------------------------------------
(* check_sockets                                                            *)

Tables == <<"tcp", "tcp6", "udp", "udp6", "raw", "raw6">>
Protocol == [tcp |-> "tcp", tcp6 |-> "tcp", udp |-> "udp", udp6 |-> "udp",
             raw |-> "raw", raw6 |-> "raw"]
Family == [tcp |-> "4", tcp6 |-> "6", udp |-> "4", udp6 |-> "6", raw |-> "4", raw6 |-> "6"]

\* Its process_arguments, which wants a port, and the conditions of main().
Tabled(t) == given.port[Protocol[t]] >= 0 /\ given.ipv \in {"any", Family[t]}
sockets_arguments ==
    /\ pc = "start"
    /\ sockets
    /\ IF \A p \in DOMAIN given.port : given.port[p] < 0
       THEN Leave("usage", STATE_UNKNOWN) /\ UNCHANGED todo
       ELSE pc' = "run" /\ todo' = SelectSeq(Tables, Tabled) /\ UNCHANGED code
    /\ UNCHANGED <<given, seen, status>>

countSocket(t, c) == IF given.port[Protocol[t]] > 0 THEN c.matching ELSE c.matching + c.others
get_status(n) == IF n > Crit THEN STATE_CRITICAL
                 ELSE IF n > Warn THEN STATE_WARNING ELSE STATE_OK
lstatus(t, c) == IF c.file = "absent" THEN STATE_UNKNOWN ELSE get_status(countSocket(t, c))

\* The switch after every count.  The one of tcp6 has no assignment for a
\* critical count.
Merge(t, s) ==
    CASE s = STATE_WARNING -> IF status = STATE_CRITICAL THEN status ELSE s
      [] s = STATE_CRITICAL -> IF t = "tcp6" THEN status ELSE s
      [] s = STATE_UNKNOWN -> IF status = STATE_OK THEN s ELSE status
      [] s = STATE_OK -> status

\* One table; countSocket() leaves the plugin if there is no header.
ReadTable ==
    /\ pc = "run"
    /\ sockets
    /\ todo # <<>>
    /\ todo' = Tail(todo)
    /\ \E c \in Contents :
        /\ seen' = Append(seen, [table |-> Head(todo), content |-> c])
        /\ \/ /\ c.file = "empty"
              /\ Exit(STATE_WARNING)
              /\ UNCHANGED status
           \/ /\ c.file # "empty"
              /\ status' = Merge(Head(todo), lstatus(Head(todo), c))
              /\ UNCHANGED <<pc, code>>
    /\ UNCHANGED given

ReportTables ==
    /\ sockets
    /\ pc = "run"
    /\ todo = <<>>
    /\ Exit(status)
    /\ UNCHANGED <<given, todo, seen, status>>

-----------------------------------------------------------------------------
(* check_bonding                                                            *)

Missing == <<"missing">>

\* process_arguments keeps what every -b names.
bonding_arguments == given.bonds

\* Without -b, the directory: any of the bonds, in the order readdir likes, or no
\* directory at all.
ReadDir ==
    /\ pc = "start"
    /\ bonding
    /\ \/ /\ bonding_arguments # <<>>
          /\ todo' = bonding_arguments
          /\ pc' = "run"
          /\ UNCHANGED code
       \/ /\ bonding_arguments = <<>>
          /\ \E S \in SUBSET Bonds : \E l \in SetToSeqs(S) : todo' = l
          /\ pc' = "run"
          /\ UNCHANGED code
       \/ /\ bonding_arguments = <<>>
          /\ Leave("failed", STATE_CRITICAL)
          /\ UNCHANGED todo
    /\ UNCHANGED <<given, seen, status>>

\* parseBond: a status belongs to the bond until the first slave, then to the
\* latest slave.
parseBond(file) ==
    FoldLeft(LAMBDA info, l :
                IF l = "slave" THEN [info EXCEPT !.slave = Append(@, "unset")]
                ELSE IF info.slave = <<>> THEN [info EXCEPT !.mii_status = l]
                ELSE [info EXCEPT !.slave = Front(@) \o <<l>>],
             [mii_status |-> "unset", slave |-> <<>>], file)

\* One turn of the loop.  Without a slave the number of slaves is never set:
\* whatever memory holds, none or a walk off a NULL array.
ReadBond ==
    /\ pc = "run"
    /\ bonding
    /\ todo # <<>>
    /\ todo' = Tail(todo)
    /\ \E file \in Files \cup {Missing} :
        /\ seen' = Append(seen, [bond |-> Head(todo), file |-> file])
        /\ IF file = Missing THEN status' = STATE_CRITICAL /\ UNCHANGED <<pc, code>>
           ELSE LET info == parseBond(file) IN
                \/ /\ info.mii_status = "down"
                   /\ status' = STATE_CRITICAL
                   /\ UNCHANGED <<pc, code>>
                \/ /\ info.mii_status = "up"
                   /\ \E k \in DOMAIN info.slave : info.slave[k] = "down"
                   /\ status' = IF status = STATE_OK THEN STATE_WARNING ELSE status
                   /\ UNCHANGED <<pc, code>>
                \/ /\ info.mii_status = "up"
                   /\ \A k \in DOMAIN info.slave : info.slave[k] = "up"
                   /\ UNCHANGED <<status, pc, code>>
                \/ /\ info.mii_status = "up"
                   /\ info.slave = <<>>
                   /\ Crash
                   /\ UNCHANGED status
    /\ UNCHANGED given

\* ok() is given no text if there is no bond, which only some C libraries print.
ReportBonds ==
    /\ bonding
    /\ pc = "run"
    /\ todo = <<>>
    /\ \/ Exit(status)
       \/ seen = <<>> /\ Crash
    /\ UNCHANGED <<given, todo, seen, status>>

-----------------------------------------------------------------------------
(* check_file                                                               *)

\* process_arguments wants a file.
file_arguments == given.file

\* lstat.
Stat ==
    /\ pc = "start"
    /\ Is("check_file")
    /\ \/ ~file_arguments /\ Leave("usage", STATE_UNKNOWN) /\ UNCHANGED <<todo, seen>>
       \/ file_arguments /\ Leave("failed", STATE_CRITICAL) /\ UNCHANGED <<todo, seen>>
       \/ /\ file_arguments
          /\ \E m \in Modes : seen' = [seen EXCEPT !.mode = m]
          /\ todo' = SelectSeq(<<"age", "size", "owner", "group">>,
                               LAMBDA c : c \in given.criteria)
          /\ pc' = "run"
          /\ UNCHANGED code
    /\ UNCHANGED <<given, status>>

\* get_status of age and size; owner and group are the right ones or critical,
\* as names that nobody has are.
Results(c) == IF c \in {"age", "size"} THEN {STATE_OK, STATE_WARNING, STATE_CRITICAL}
              ELSE {STATE_OK, STATE_CRITICAL}
Judge ==
    /\ pc = "run"
    /\ Is("check_file")
    /\ todo # <<>>
    /\ \E r \in Results(Head(todo)) :
        /\ status' = Worse(status, r)
        /\ seen' = [seen EXCEPT !.results = @ \cup {r}]
    /\ todo' = Tail(todo)
    /\ UNCHANGED <<given, pc, code>>

\* Does the file's mode agree with the masks of a clause?
Agrees(s, mode) ==
    LET subject == {b \in Who \X Perms : b[1] \in s.subject}
        access == {b \in subject : b[2] \in s.access}
    IN CASE s.op = "-" -> mode \cap access = {}
         [] s.op = "=" -> mode \cap subject = access
         [] s.op = "+" -> access \subseteq mode

Fresh == [state |-> 0, subject |-> {}, op |-> "=", access |-> {}, rc |-> 0]

\* Defect: the masks are not reset after a clause.
Char_keeps(mode, s, c) ==
    IF s.rc # 0 THEN s
    ELSE IF s.state = 1 /\ c \in Perms THEN [s EXCEPT !.access = @ \cup {c}]
    ELSE IF s.state = 1 /\ ~Agrees(s, mode) THEN [s EXCEPT !.rc = -1]
    ELSE LET f == [s EXCEPT !.state = 0] IN
         IF c \in Who THEN [f EXCEPT !.subject = @ \cup {c}]
         ELSE IF c \in {"-", "+", "="} THEN [f EXCEPT !.op = c, !.state = 1]
         ELSE [f EXCEPT !.rc = STATE_UNKNOWN]

\* One character of the loop of check_access; rc is 0, -1 for a clause that
\* does not hold and 3 for the exit of an illegal string.
Char(mode, s, c) ==
    IF s.rc # 0 THEN s
    ELSE IF s.state = 1 /\ c \in Perms THEN [s EXCEPT !.access = @ \cup {c}]
    ELSE IF s.state = 1 /\ ~Agrees(s, mode) THEN [s EXCEPT !.rc = -1]
    ELSE LET f == IF s.state = 1 THEN Fresh ELSE s IN
         IF c \in Who THEN [f EXCEPT !.subject = @ \cup {c}]
         ELSE IF c \in {"-", "+", "="} THEN [f EXCEPT !.op = c, !.state = 1]
         ELSE [f EXCEPT !.rc = STATE_UNKNOWN]

check_access(string, mode) ==
    LET s == FoldLeft(LAMBDA acc, c : Char(mode, acc, c), Fresh, string)
    IN IF s.rc = 0 /\ ~Agrees(s, mode) THEN -1 ELSE s.rc

\* The string the user writes for a sequence of clauses.
Text(clause) == clause.who \o <<clause.op>> \o clause.perms
accessstring == FlattenSeq([k \in DOMAIN given.clauses |-> Text(given.clauses[k])]) \o given.junk

check_file ==
    /\ pc = "run"
    /\ Is("check_file")
    /\ todo = <<>>
    /\ LET rc == check_access(accessstring, seen.mode) IN
        IF accessstring # <<>> /\ rc = STATE_UNKNOWN THEN Exit(STATE_UNKNOWN)
        ELSE IF accessstring # <<>> /\ rc = -1 THEN Exit(Worse(status, STATE_CRITICAL))
        ELSE Exit(status)
    /\ UNCHANGED <<given, todo, seen, status>>

-----------------------------------------------------------------------------
(* Options of the others                                                    *)

\* check_enforce: the severity of each state, by the one state that is asked for.
Wanted == [e |-> [enforcing |-> STATE_OK, permissive |-> STATE_WARNING, disabled |-> STATE_CRITICAL],
           p |-> [enforcing |-> STATE_WARNING, permissive |-> STATE_OK, disabled |-> STATE_CRITICAL],
           d |-> [enforcing |-> STATE_CRITICAL, permissive |-> STATE_WARNING, disabled |-> STATE_OK]]

enforce_arguments(options) ==
    IF Len(options) > 1 THEN "usage" ELSE IF options = <<>> THEN "e" ELSE options[1]

\* check_sebool: --on and --off push to two arrays, which are read one after the
\* other whatever the order of the options.
sebool_arguments(options) ==
    SelectSeq(options, LAMBDA o : o.want = 1) \o SelectSeq(options, LAMBDA o : o.want = 0)

\* Other options than these do not change what the plugin does, or end it.
process_arguments ==
    /\ pc = "start"
    /\ ~sockets /\ ~bonding /\ ~Is("check_file")
    /\ \/ Leave("usage", STATE_OK) /\ UNCHANGED todo
       \/ Leave("usage", STATE_UNKNOWN) /\ UNCHANGED todo
       \/ /\ Is("check_sebool") => given.options # <<>>
          /\ Is("check_enforce") => enforce_arguments(given.options) # "usage"
          /\ pc' = "run" /\ UNCHANGED code
          /\ todo' = CASE Is("check_sebool") -> sebool_arguments(given.options)
                       [] Is("check_nrped") /\ given.touch -> <<"open", "close", "utime">>
                       [] OTHER -> <<>>
    /\ UNCHANGED <<given, seen, status>>

-----------------------------------------------------------------------------
(* check_mem                                                                *)

readValue(v) ==
    v.n * CASE v.unit = "g" -> Kilo * Kilo * Kilo
            [] v.unit = "m" -> Kilo * Kilo
            [] v.unit = "k" -> Kilo
            [] OTHER -> 1

\* What no line names is 0.
Meminfo(lines) ==
    FoldLeft(LAMBDA m, l : IF l.key \in DOMAIN m THEN [m EXCEPT ![l.key] = readValue(l.value)] ELSE m,
             [MemTotal |-> 0, MemFree |-> 0, Buffers |-> 0, Cached |-> 0], lines)

\* A range from 0 to n in percent of max; nothing of nothing is no number, which
\* is in every range, and something of nothing is in none.
Outside(used, max, n) == IF max = 0 THEN used # 0 ELSE 100 * used < 0 \/ 100 * used > n * max

check_mem ==
    /\ pc = "run"
    /\ Is("check_mem")
    /\ IF given.meminfo = "unreadable" THEN Exit(STATE_UNKNOWN)
       ELSE LET m == Meminfo(given.lines)
                used == m.MemTotal - m.MemFree - m.Buffers - m.Cached
            IN  Exit(IF Outside(used, m.MemTotal, given.crit) THEN STATE_CRITICAL
                     ELSE IF Outside(used, m.MemTotal, given.warn) THEN STATE_WARNING
                     ELSE STATE_OK)
    /\ UNCHANGED <<given, todo, seen, status>>

-----------------------------------------------------------------------------
(* check_nrped                                                              *)

check_nrped ==
    /\ pc = "run"
    /\ Is("check_nrped")
    /\ \/ ~given.version /\ Exit(STATE_CRITICAL) /\ UNCHANGED todo
       \/ given.version /\ todo = <<>> /\ Exit(STATE_OK) /\ UNCHANGED todo
       \/ /\ given.version /\ todo # <<>>
          /\ \/ todo' = Tail(todo) /\ UNCHANGED <<pc, code>>
             \/ Exit(STATE_WARNING) /\ UNCHANGED todo
    /\ UNCHANGED <<given, seen, status>>

-----------------------------------------------------------------------------
(* SELinux                                                                  *)

\* Without SELinux there is no policy to be wrong.
check_enforce ==
    /\ pc = "run"
    /\ Is("check_enforce")
    /\ LET asked == Wanted[enforce_arguments(given.options)] IN
       CASE given.enabled < 0 -> Exit(STATE_CRITICAL)
         [] given.enabled = 0 -> Exit(asked.disabled)
         [] given.enabled > 0 /\ given.enforced < 0 -> Exit(STATE_CRITICAL)
         [] given.enabled > 0 /\ given.enforced >= 0 /\ given.policy = "other" -> Exit(STATE_CRITICAL)
         [] OTHER -> Exit(IF given.enforced > 0 THEN asked.enforcing ELSE asked.permissive)
    /\ UNCHANGED <<given, todo, seen, status>>

\* A boolean that is as asked; one that is not, or that nobody knows.
security_get_boolean_active ==
    /\ pc = "run"
    /\ Is("check_sebool")
    /\ given.enabled > 0
    /\ todo # <<>>
    /\ todo' = Tail(todo)
    /\ status' = IF given.active[Head(todo).bool] = Head(todo).want THEN status ELSE STATE_CRITICAL
    /\ UNCHANGED <<given, seen, pc, code>>

check_sebool ==
    /\ pc = "run"
    /\ Is("check_sebool")
    /\ \/ given.enabled <= 0 /\ Exit(STATE_CRITICAL)
       \/ given.enabled > 0 /\ todo = <<>> /\ Exit(status)
    /\ UNCHANGED <<given, todo, seen, status>>

-----------------------------------------------------------------------------
(* Dummies                                                                  *)

\* c is still 0: is_integer looks at the name of the program, and the state that is
\* asked for becomes the first word of the message.  Without any word the message
\* is terminated before its first byte.
check_dummy ==
    /\ pc = "run"
    /\ Is("check_dummy")
    /\ \/ Exit(STATE_WARNING)
       \/ given.words = <<>> /\ pc' = "crashed" /\ UNCHANGED code
    /\ UNCHANGED <<given, todo, seen, status>>

\* Sleeps twice the timeout: the end is reached only when no alarm was set.
check_timeout ==
    /\ pc = "run"
    /\ Is("check_timeout")
    /\ given.timeout = 0
    /\ Exit(STATE_OK)
    /\ UNCHANGED <<given, todo, seen, status>>

\* SIGALRM; alarm(0) sets none.
Alarm ==
    /\ pc = "run"
    /\ Is("check_timeout") => given.timeout > 0
    /\ Leave("alarmed", STATE_CRITICAL)
    /\ UNCHANGED <<given, todo, seen, status>>

Terminated == pc \in {"usage", "failed", "alarmed", "exited", "crashed"} /\ UNCHANGED vars

Next ==
    \/ sockets_arguments \/ ReadTable \/ ReportTables
    \/ ReadDir \/ ReadBond \/ ReportBonds
    \/ Stat \/ Judge \/ check_file
    \/ process_arguments \/ check_mem \/ check_nrped \/ check_enforce
    \/ security_get_boolean_active \/ check_sebool \/ check_dummy \/ check_timeout
    \/ Alarm \/ Terminated

Spec == Init /\ [][Next]_vars
-----------------------------------------------------------------------------
(* Properties                                                               *)

Found(s) == \E k \in DOMAIN seen : lstatus(seen[k].table, seen[k].content) = s
NoHeader == \E k \in DOMAIN seen : seen[k].content.file = "empty"

\* The tcp6 table is over the critical limit.
Tcp6IsCritical == \E k \in DOMAIN seen : /\ seen[k].table = "tcp6"
                                         /\ lstatus("tcp6", seen[k].content) = STATE_CRITICAL

\* Every table that was asked for is read, unless one without a header ends the
\* check, and the worst of them is the result whatever their order: a table over
\* a limit is never hidden by one that could not be read or by a lesser one.
\* Not so with a critical count of tcp6, which is named in the message and does
\* not change the status (the manual: "Return critical if socket count exceeds
\* limit."): nothing is claimed of the result then.
TablesAreJudged ==
    sockets /\ pc = "exited" =>
        \/ NoHeader /\ code = STATE_WARNING
        \/ /\ ~NoHeader
           /\ \A k \in DOMAIN Tables : Tabled(Tables[k]) => \E m \in DOMAIN seen : seen[m].table = Tables[k]
           /\ \/ Tcp6IsCritical
              \/ code = IF Found(STATE_CRITICAL) THEN STATE_CRITICAL
                        ELSE IF Found(STATE_WARNING) THEN STATE_WARNING
                        ELSE IF Found(STATE_UNKNOWN) THEN STATE_UNKNOWN ELSE STATE_OK

IsDown(file) == file = Missing \/ Head(file) = "down"
Lost(file) == \E k \in DOMAIN file : k > 1 /\ file[k] = "down"

\* A bond that is down or missing makes the check critical and a slave that is
\* down makes it a warning, wherever in the list and whatever was found before;
\* every bond named by -b is read.
BondsAreJudged ==
    bonding /\ pc = "exited" =>
        /\ \A k \in DOMAIN given.bonds : \E m \in DOMAIN seen : seen[m].bond = given.bonds[k]
        /\ code = IF \E k \in DOMAIN seen : IsDown(seen[k].file) THEN STATE_CRITICAL
                  ELSE IF \E k \in DOMAIN seen : Lost(seen[k].file) THEN STATE_WARNING
                  ELSE STATE_OK

\* What a clause says: who has at least, none of, or exactly the permissions.
Holds(clause) ==
    LET has(w) == {p \in Perms : <<w, p>> \in seen.mode}
        perms == ToSet(clause.perms)
    IN \A w \in ToSet(clause.who) :
            CASE clause.op = "+" -> perms \subseteq has(w)
              [] clause.op = "-" -> perms \cap has(w) = {}
              [] clause.op = "=" -> perms = has(w)

\* However many clauses there are and in whatever order their characters come,
\* the check is critical if and only if a clause does not hold of the mode or a
\* criterion is critical; only after clauses that hold is a character that
\* belongs to none UNKNOWN.
FileIsJudged ==
    Is("check_file") /\ pc = "exited" =>
        LET right == \A k \in DOMAIN given.clauses : Holds(given.clauses[k]) IN
        code = IF right /\ given.junk # <<>> THEN STATE_UNKNOWN
               ELSE IF ~right \/ STATE_CRITICAL \in seen.results THEN STATE_CRITICAL
               ELSE IF STATE_WARNING \in seen.results THEN STATE_WARNING ELSE STATE_OK

Bytes(k) ==
    LET named == {given.lines[j].value : j \in {i \in DOMAIN given.lines : given.lines[i].key = k}}
        powers == [u \in {"", "k", "m", "g"} |-> CASE u = "" -> 0 [] u = "k" -> 1 [] u = "m" -> 2 [] u = "g" -> 3]
    IN  IF named = {} THEN 0
        ELSE LET v == CHOOSE v \in named : TRUE IN v.n * Kilo ^ powers[v.unit]
Taken == Bytes("MemTotal") - Bytes("MemFree") - Bytes("Buffers") - Bytes("Cached")

\* check_mem compares what is used, whatever the units and the order of the lines;
\* check_nrped is OK only with its file touched; check_enforce only in the mode that
\* was asked for and with the policy that was; check_sebool if and only if every
\* boolean is as asked, whatever the order of the options; check_timeout never, with
\* a timeout.
LocalIsJudged ==
    pc = "exited" =>
        CASE given.plugin = "check_mem" /\ given.meminfo # "unreadable" ->
                /\ code = STATE_OK => 100 * Taken <= given.warn * Bytes("MemTotal")
                /\ Bytes("MemTotal") > 0 /\ 100 * Taken > given.crit * Bytes("MemTotal") => code = STATE_CRITICAL
          [] given.plugin = "check_nrped" ->
                code = STATE_OK => given.version /\ todo = <<>>
          [] given.plugin = "check_enforce" ->
                code = STATE_OK <=>
                    LET asked == IF given.options = <<>> THEN "e" ELSE given.options[1] IN
                    /\ asked = "d" <=> given.enabled = 0
                    /\ given.enabled >= 0
                    /\ given.enabled > 0 =>
                          /\ given.policy # "other"
                          /\ given.enforced = IF asked = "e" THEN 1 ELSE 0
          [] given.plugin = "check_sebool" ->
                code = STATE_OK <=>
                    /\ given.enabled = 1
                    /\ \A k \in DOMAIN given.options :
                            given.active[given.options[k].bool] = given.options[k].want
          [] given.plugin = "check_timeout" -> given.timeout = 0
          [] OTHER -> TRUE
=============================================================================
