---------------------------- MODULE QueryChecks ----------------------------
(***************************************************************************)
(* Checks that ask a server a few questions in a row and judge its answer:  *)
(* check_redis, check_redis_slave, check_pgsql_slave, check_buildbot_slave  *)
(* and check_rabbitmq, with the helpers of lib/ they ask through.  Any      *)
(* question may fail, and what comes back need not hold what is looked for. *)
(***************************************************************************)
EXTENDS Integers, Sequences

CONSTANT Questions  \* plugin, options and answer of the server, as a record

VARIABLES
    given,      \* one of Questions
    todo,       \* calls that are still to be made
    pc,         \* "start", "run", "exited", "crashed", or "usage", "failed", "alarmed"
                \* for those exits
    code        \* exit code, -1 while running

vars == <<given, todo, pc, code>>

STATE_OK == 0
STATE_WARNING == 1
STATE_CRITICAL == 2
STATE_UNKNOWN == 3
CRASH == -2
NONE == -1      \* a number that is not there

\* The calls main() makes, in their order.
redis_calls == <<"redisConnect", "PING", "INFO", "CONFIG GET maxmemory">>
redis_slave_calls == <<"redisConnect", "PING", "INFO">>
pgsql_slave_calls == <<"PQsetdbLogin", "PQexec">>
buildbot_slave_calls == <<"curl_easy_init", "curl_easy_perform", "json_tokener_parse">>
rabbitmq_calls == <<"curl_easy_init", "curl_easy_perform", "json_tokener_parse">>
Calls == [check_redis |-> redis_calls, check_redis_slave |-> redis_slave_calls,
          check_pgsql_slave |-> pgsql_slave_calls,
          check_buildbot_slave |-> buildbot_slave_calls, check_rabbitmq |-> rabbitmq_calls]

Init ==
    /\ given \in Questions
    /\ todo = Calls[given.plugin]
    /\ pc = "start"
    /\ code = -1

Leave(how, s) == pc' = how /\ code' = s

\* process_arguments: limits that are no ranges and a missing host end the plugin;
\* without any argument the checks that use curl print their help.
process_arguments ==
    /\ pc = "start"
    /\ \/ pc' = "run" /\ UNCHANGED code
       \/ Leave("usage", STATE_UNKNOWN)
       \/ given.plugin \in {"check_buildbot_slave", "check_rabbitmq"} /\ Leave("usage", STATE_OK)
    /\ UNCHANGED <<given, todo>>

\* A call that succeeds, or ends the plugin.
Ask(calls, failure) ==
    /\ pc = "run"
    /\ todo # <<>>
    /\ Head(todo) \in calls
    /\ \/ todo' = Tail(todo) /\ UNCHANGED <<pc, code>>
       \/ Leave("failed", failure) /\ UNCHANGED todo
    /\ UNCHANGED given

redisConnect == Ask({"redisConnect"}, STATE_CRITICAL)
\* No reply, or one that is an error.
mp_redisCommand == Ask({"PING", "INFO", "CONFIG GET maxmemory"}, STATE_CRITICAL)
mp_pgsql_init == Ask({"PQsetdbLogin"}, STATE_UNKNOWN)
mp_pgsql_exec == Ask({"PQexec"}, STATE_CRITICAL)
mp_curl_init == Ask({"curl_easy_init"}, STATE_CRITICAL)
\* An error of the library, or a response code that is not 200.
mp_curl_perform == Ask({"curl_easy_perform"}, STATE_CRITICAL)
mp_json_tokener_parse == Ask({"json_tokener_parse"}, STATE_CRITICAL)

\* get_status for ranges "N" (0 to N), NONE for a limit that is not given.
Outside(v, end) == end # NONE /\ (v < 0 \/ v > end)
get_status(v, t) == IF Outside(v, t.crit) THEN STATE_CRITICAL
                    ELSE IF Outside(v, t.warn) THEN STATE_WARNING ELSE STATE_OK
Worst(S) == CHOOSE s \in S : \A r \in S : r <= s

\* The last line of an INFO that has one of the keys: its text or, of a number, its value.
LastLine(info, keys) == CHOOSE k \in DOMAIN info : /\ info[k].key \in keys
                                                  /\ \A m \in DOMAIN info : info[m].key \in keys => m <= k
Has(info, keys) == \E k \in DOMAIN info : info[k].key \in keys
Value(info, keys) == IF Has(info, keys) THEN info[LastLine(info, keys)].value ELSE -1
Text(info, key) == IF Has(info, {key}) THEN info[LastLine(info, {key})].text ELSE "null"

\* Percentages of the limits are resolved by mp_perfdata_int2, which is called
\* only if performance data is shown, with 0 for an unknown maximum.
Resolved(g, end) ==
    IF end = NONE \/ ~g.percent \/ ~g.mp_showperfdata THEN end
    ELSE ((IF g.maxmemory = NONE THEN 0 ELSE g.maxmemory) * end) \div 100
check_redis(g) ==
    LET used == Value(g.info, {"used_memory"})
        memory == get_status(used, [warn |-> Resolved(g, g.memory.warn),
                                    crit |-> Resolved(g, g.memory.crit)])
    IN IF memory # STATE_OK THEN memory ELSE get_status(g.time, g.times)

\* Defect: the link is not looked at.
check_redis_slave_nolink(g) ==
    LET role == Text(g.info, "role")
        delay == Value(g.info, {"master_last_io_seconds_ago", "master_link_down_since_seconds"})
    IN IF role = "null" THEN CRASH ELSE IF role # "slave" THEN STATE_CRITICAL
       ELSE get_status(delay, g.times)

\* strcmp(NULL, ...) if there is no role, or no link status.
check_redis_slave(g) ==
    LET role == Text(g.info, "role")
        link == Text(g.info, "master_link_status")
        delay == Value(g.info, {"master_last_io_seconds_ago", "master_link_down_since_seconds"})
    IN IF role = "null" THEN CRASH
       ELSE IF role # "slave" THEN STATE_CRITICAL
       ELSE IF link = "null" THEN CRASH
       ELSE IF link # "up" THEN STATE_CRITICAL
       ELSE get_status(delay, g.times)

\* PostgreSQL writes an interval as "[-]hh:mm:ss" or "d day[s] hh:mm:ss".  The
\* number in front counts as hours, the next one as minutes and what stands
\* three characters on as seconds: of "1 day 02:..." the hours, of "2 days
\* 02:..." nothing.  -00 loses its sign.  Of a slave that has replayed nothing
\* yet the interval is NULL, an empty text behind which the code reads on.
delay(i) ==
    IF i.days = 0 THEN i.sign * i.h * 3600 + i.m * 60 + i.s
    ELSE i.days * 3600 + (IF i.days = 1 THEN i.h ELSE 0)
check_pgsql_slave(g) ==
    IF ~g.recovery THEN {STATE_CRITICAL}
    ELSE IF g.interval.null THEN {STATE_OK, STATE_WARNING, STATE_CRITICAL}
    ELSE {get_status(delay(g.interval), g.times)}

\* A slave of the document is good if "connected" is there and true; "error" is
\* looked at only for slaves that were named by -S.
Failed(g, s) == s \notin DOMAIN g.doc \/ g.doc[s] # "connected"
check_buildbot_slave(g) ==
    LET slaves == IF g.asked # {} THEN g.asked ELSE DOMAIN g.doc IN
    IF \E s \in slaves : Failed(g, s) THEN STATE_CRITICAL
    ELSE IF slaves # {} THEN STATE_OK ELSE STATE_WARNING

\* A counter that the document lacks is -1.
check_rabbitmq(g) ==
    IF ~g.queue_totals THEN STATE_CRITICAL
    ELSE Worst({get_status(g.counters[c], g.limits[c]) : c \in DOMAIN g.counters})

Verdicts(g) ==
    CASE g.plugin = "check_redis" -> {check_redis(g)}
      [] g.plugin = "check_redis_slave" -> {check_redis_slave(g)}
      [] g.plugin = "check_pgsql_slave" -> check_pgsql_slave(g)
      [] g.plugin = "check_buildbot_slave" -> {check_buildbot_slave(g)}
      [] g.plugin = "check_rabbitmq" -> {check_rabbitmq(g)}

Judge ==
    /\ pc = "run"
    /\ todo = <<>>
    /\ \E v \in Verdicts(given) :
        \/ v = CRASH /\ pc' = "crashed" /\ UNCHANGED code
        \/ v # CRASH /\ Leave("exited", v)
    /\ UNCHANGED <<given, todo>>

\* SIGALRM.
Alarm ==
    /\ pc = "run"
    /\ Leave("alarmed", STATE_CRITICAL)
    /\ UNCHANGED <<given, todo>>

Terminated == pc \notin {"start", "run"} /\ UNCHANGED vars

Next ==
    \/ process_arguments
    \/ redisConnect \/ mp_redisCommand
    \/ mp_pgsql_init \/ mp_pgsql_exec
    \/ mp_curl_init \/ mp_curl_perform \/ mp_json_tokener_parse
    \/ Judge
    \/ Alarm
    \/ Terminated
Spec == Init /\ [][Next]_vars
-----------------------------------------------------------------------------
(* Properties                                                               *)

Within(v, t) == v # NONE /\ (t.warn # NONE => v <= t.warn) /\ (t.crit # NONE => v <= t.crit)
Limited(t) == t.warn # NONE \/ t.crit # NONE
Lines(g, key) == {g.info[k] : k \in {m \in DOMAIN g.info : g.info[m].key = key}}

\* What OK stands for, from what the server said and not from what was read.
Fine(g) ==
    CASE g.plugin = "check_redis" ->
            /\ Within(g.time, g.times)
            /\ \A limit \in {g.memory.warn, g.memory.crit} \ {NONE} :
                    /\ Lines(g, "used_memory") # {}
                    /\ \A l \in Lines(g, "used_memory") :
                            IF g.percent THEN l.value * 100 <= limit * g.maxmemory ELSE l.value <= limit
      [] g.plugin = "check_redis_slave" ->
            /\ {l.text : l \in Lines(g, "role")} = {"slave"}
            /\ {l.text : l \in Lines(g, "master_link_status")} = {"up"}
            /\ Lines(g, "master_last_io_seconds_ago") # {}
            /\ \A l \in Lines(g, "master_last_io_seconds_ago") : l.value >= 0 /\ Within(l.value, g.times)
      [] g.plugin = "check_pgsql_slave" ->
            LET i == g.interval
                seconds == i.days * 86400 + i.h * 3600 + i.m * 60 + i.s
            IN g.recovery /\ ((i.sign = 1 \/ seconds < 3600) => Within(seconds, g.times))
                          /\ (i.sign = -1 => seconds < 3600)
      [] g.plugin = "check_buildbot_slave" ->
            /\ g.asked \subseteq DOMAIN g.doc
            /\ DOMAIN g.doc # {}
            /\ \A s \in DOMAIN g.doc : (g.asked = {} \/ s \in g.asked) => g.doc[s] = "connected"
      [] g.plugin = "check_rabbitmq" ->
            /\ g.queue_totals
            /\ \A c \in DOMAIN g.counters : Limited(g.limits[c]) => Within(g.counters[c], g.limits[c])

\* What the code misreads.  Percentages that are never resolved because
\* performance data is off or the maximum is unknown; no interval; and an interval
\* of days, of which one counts for an hour, against limits that are not below
\* that: a slave that is two days behind is OK for a limit of three hours.
Unclear(g) ==
    \/ g.plugin = "check_redis" /\ g.percent /\ (~g.mp_showperfdata \/ g.maxmemory = NONE)
    \/ /\ g.plugin = "check_pgsql_slave"
       /\ \/ g.interval.null
          \/ g.interval.days > 0 /\ g.times.warn >= 3600 /\ g.times.crit >= 3600

\* But for those, a check is OK if and only if its service is: an answer that lacks
\* a value that is judged is never OK, nor is a slave whose master is gone.
OkIsTrue == pc = "exited" /\ ~Unclear(given) => (code = STATE_OK <=> Fine(given))
-----------------------------------------------------------------------------
(* Why it holds                                                             *)

IsLimits(t) == t.warn \in Nat \cup {NONE} /\ t.crit \in Nat \cup {NONE}
OncePerKey(info) == \A k, m \in DOMAIN info : info[k].key = info[m].key => k = m

\* Limits are ranges "N".  A server writes a key once, and the seconds the link is
\* down only if it is.  PostgreSQL signs the hours only of an interval without
\* days.
Legal(g) ==
    g.plugin \in DOMAIN Calls /\
    CASE g.plugin = "check_redis" ->
            /\ DOMAIN g.info \subseteq Int /\ OncePerKey(g.info)
            /\ \A k \in DOMAIN g.info : g.info[k].value \in Nat
            /\ g.maxmemory \in Nat \cup {NONE} /\ g.time \in Nat
            /\ IsLimits(g.times) /\ IsLimits(g.memory)
      [] g.plugin = "check_redis_slave" ->
            /\ DOMAIN g.info \subseteq Int /\ OncePerKey(g.info)
            /\ \A k \in DOMAIN g.info : g.info[k].value \in Int /\ g.info[k].text # "null"
            /\ Lines(g, "master_link_down_since_seconds") # {} => ~\E l \in Lines(g, "master_link_status") : l.text = "up"
            /\ g.times.warn \in Nat /\ g.times.crit \in Nat
      [] g.plugin = "check_pgsql_slave" ->
            /\ g.interval.days \in Nat /\ g.interval.h \in Nat
            /\ g.interval.m \in 0 .. 59 /\ g.interval.s \in 0 .. 59
            /\ g.interval.sign \in {1, -1} /\ (g.interval.sign = -1 => g.interval.days = 0)
            /\ g.times.warn \in Nat /\ g.times.crit \in Nat
      [] g.plugin = "check_buildbot_slave" -> TRUE
      [] g.plugin = "check_rabbitmq" ->
            /\ DOMAIN g.counters # {}
            /\ \A c \in DOMAIN g.counters : g.counters[c] \in Nat \cup {NONE} /\ IsLimits(g.limits[c])

\* The exit code is what the answers make it.
IInv == given \in Questions /\ (pc = "exited" => code \in Verdicts(given) /\ code # CRASH)
=============================================================================
