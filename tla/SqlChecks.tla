----------------------------- MODULE SqlChecks -----------------------------
(***************************************************************************)
(* Directory and database servers: ldap/check_ldap.c, mysql/check_mysql.c   *)
(* and check_mysql_rows.c, pgsql/check_pgsql.c, with lib/ldap_utils.c,      *)
(* mysql_utils.c and pgsql_utils.c.  A plugin connects, asks once, and turns *)
(* the rows of the answer into perfdata.                                    *)
(***************************************************************************)
EXTENDS Integers, Sequences, SequencesExt

CONSTANT Worlds     \* plugin, options and answer of the server, as a record

VARIABLES
    given,      \* one of Worlds
    todo,       \* calls that are still to be made
    perfdata,   \* what was reported
    pc,         \* "start", "run", "exited", "crashed", or "usage", "failed", "alarmed"
                \* for those exits
    code        \* exit code, -1 while running

vars == <<given, todo, perfdata, pc, code>>

STATE_OK == 0
STATE_WARNING == 1
STATE_CRITICAL == 2
STATE_UNKNOWN == 3
NONE == -1      \* a limit that is not given
JUNK == "junk"  \* memory nobody wrote

Init ==
    /\ given \in Worlds
    /\ todo = <<>>
    /\ perfdata = <<>>
    /\ pc = "start"
    /\ code = -1

Leave(how, s) == pc' = how /\ code' = s

-----------------------------------------------------------------------------
(* Options: what each letter sets                                           *)

getopt_ldap == [H |-> "uri", D |-> "binddn", W |-> "pass", b |-> "basedn"]
getopt_mysql == [H |-> "host", u |-> "user", p |-> "pass", D |-> "db", P |-> "port", S |-> "socket"]
getopt_rows == [T |-> "table"] @@ getopt_mysql

Set(table) == {table[o] : o \in given.options \cap DOMAIN table}

ldap_arguments == "uri" \in Set(getopt_ldap)
mysql_rows_arguments == {"db", "table"} \subseteq Set(getopt_rows)

\* Grows the array to num elements and the names; what lies between its end and num
\* is not written.
mp_array_push(array, num, names) ==
    [k \in 1 .. num + Len(names) |->
        IF k > num THEN names[k - num] ELSE IF k <= Len(array) THEN array[k] ELSE JUNK]


\* --variable NAME,NAME:UNIT counts the names back by one and pushes a unit at the
\* place of the last name; the unit it pushes is the first name, and not the text
\* behind the colon.
Variable(v, o) ==
    LET names == mp_array_push(v.variable, Len(v.variable), o.names)
    IN  [variable |-> names,
         unit |-> mp_array_push(v.unit, Len(names) - 1, <<IF o.unit = "" THEN "" ELSE o.names[1]>>)]

\* Three of the thirteen.
Defaults == [variable |-> <<"Bytes_received", "Queries", "Threads_running">>, unit |-> <<"c", "c", "">>]

mysql_arguments ==
    IF given.variables = <<>> THEN Defaults
    ELSE FoldLeft(Variable, [variable |-> <<>>, unit |-> <<>>], given.variables)

-----------------------------------------------------------------------------
(* Calls, in order, and what a plugin does when one fails                   *)

mp_ldap_init == <<"ldap_initialize", "ldap_set_option", "ldap_sasl_bind_s">>
mp_ldap_search == <<"ldap_search_ext_s">>
mp_mysql_init == <<"mysql_init", "mysql_real_connect">>
mp_pgsql_init == <<"PQsetdbLogin">>

Calls ==
    CASE given.plugin = "check_ldap" -> mp_ldap_init \o mp_ldap_search
      [] given.plugin = "check_mysql" ->
            mp_mysql_init \o IF given.mp_showperfdata THEN <<"mysql_query", "mysql_store_result">> ELSE <<>>
      [] given.plugin = "check_mysql_rows" -> mp_mysql_init \o <<"mysql_query", "mysql_store_result">>
      [] given.plugin = "check_pgsql" ->
            mp_pgsql_init \o IF given.mp_showperfdata THEN <<"PQexec">> ELSE <<>>

Complete ==
    CASE given.plugin = "check_ldap" -> ldap_arguments
      [] given.plugin = "check_mysql_rows" -> mysql_rows_arguments
      [] OTHER -> TRUE

process_arguments ==
    /\ pc = "start"
    /\ \/ Leave("usage", STATE_OK) /\ UNCHANGED todo
       \/ Leave("usage", STATE_UNKNOWN) /\ UNCHANGED todo
       \/ Complete /\ pc' = "run" /\ todo' = Calls /\ UNCHANGED code
    /\ UNCHANGED <<given, perfdata>>

Call ==
    /\ pc = "run"
    /\ todo # <<>>
    /\ todo' = Tail(todo)
    /\ UNCHANGED <<given, perfdata, pc, code>>

\* A result that cannot be stored is not looked at before its rows are fetched.
Fail ==
    /\ pc = "run"
    /\ todo # <<>>
    /\ CASE Head(todo) \in {"mysql_init", "mysql_real_connect", "PQsetdbLogin"} -> Leave("failed", STATE_UNKNOWN)
         [] Head(todo) = "mysql_store_result" -> pc' = "crashed" /\ UNCHANGED code
         [] OTHER -> Leave("failed", STATE_CRITICAL)
    /\ UNCHANGED <<given, todo, perfdata>>

-----------------------------------------------------------------------------
(* Answers                                                                  *)

\* A range from 0 to the limit.
Above(v, limit) == limit # NONE /\ v > limit
get_status(v, limits) ==
    IF Above(v, limits.crit) THEN STATE_CRITICAL
    ELSE IF Above(v, limits.warn) THEN STATE_WARNING ELSE STATE_OK

Perf(l, v, u) == [label |-> l, value |-> v, unit |-> u]

\* An entry without a name or without a counter is skipped.
check_ldap ==
    /\ pc = "run"
    /\ given.plugin = "check_ldap"
    /\ todo = <<>>
    /\ LET counters == SelectSeq(given.entries, LAMBDA e : e.cn # "" /\ e.monitorCounter # NONE)
       IN  perfdata' = [k \in DOMAIN counters |-> Perf(counters[k].cn, counters[k].monitorCounter, "c")]
    /\ Leave("exited", get_status(given.time, given.limits))
    /\ UNCHANGED <<given, todo>>

\* The variables that are named like the row, as often as they are.
Matching(row, v) ==
    LET at == SelectSeq([k \in DOMAIN v.variable |-> k], LAMBDA k : v.variable[k] = row.name)
    IN  [k \in DOMAIN at |-> Perf(row.name, row.value, v.unit[at[k]])]

\* The version is printed after the connection that holds it is closed, and a unit
\* nobody wrote is followed: both may end the plugin.
check_mysql ==
    /\ pc = "run"
    /\ given.plugin = "check_mysql"
    /\ todo = <<>>
    /\ perfdata' = IF given.mp_showperfdata
                   THEN FlattenSeq([k \in DOMAIN given.rows |-> Matching(given.rows[k], mysql_arguments)])
                   ELSE <<>>
    /\ \/ Leave("exited", STATE_OK)
       \/ pc' = "crashed" /\ UNCHANGED code
    /\ UNCHANGED <<given, todo>>

check_mysql_rows ==
    /\ pc = "run"
    /\ given.plugin = "check_mysql_rows"
    /\ todo = <<>>
    /\ perfdata' = <<Perf("rows", given.rows, "c")>>
    /\ Leave("exited", get_status(given.rows, given.limits))
    /\ UNCHANGED <<given, todo>>

check_pgsql ==
    /\ pc = "run"
    /\ given.plugin = "check_pgsql"
    /\ todo = <<>>
    /\ perfdata' = IF given.mp_showperfdata THEN <<Perf("conn", given.rows, "c")>> ELSE <<>>
    /\ Leave("exited", STATE_OK)
    /\ UNCHANGED <<given, todo>>

\* SIGALRM.
Alarm ==
    /\ pc = "run"
    /\ Leave("alarmed", STATE_CRITICAL)
    /\ UNCHANGED <<given, todo, perfdata>>

Terminated == pc \in {"usage", "failed", "alarmed", "exited", "crashed"} /\ UNCHANGED vars

Next ==
    \/ process_arguments \/ Call \/ Fail
    \/ check_ldap \/ check_mysql \/ check_mysql_rows \/ check_pgsql
    \/ Alarm \/ Terminated

Spec == Init /\ [][Next]_vars
-----------------------------------------------------------------------------
(* Properties                                                               *)

Reported == ToSet(perfdata)

\* The unit of the last name of an option is the option's own place of the second
\* array, whatever the options before it have; the manual's "Variable, and unit, to
\* report to perfdata" is kept for an option without a unit only, for with one the
\* name is reported in its place.  The names before the last have no unit at all.
UnitOf(o, j) ==
    IF j < Len(o.names) THEN JUNK ELSE IF o.unit = "" THEN "" ELSE Head(o.names)
Wanted ==
    UNION {{Perf(p[1].name, p[1].value, UnitOf(given.variables[k], p[2])) :
              p \in {p \in ToSet(given.rows) \X DOMAIN given.variables[k].names :
                        p[1].name = given.variables[k].names[p[2]]}} : k \in DOMAIN given.variables}

\* A plugin ends by its answer only when it knew the server and all calls were
\* made.  check_ldap reports every named counter, and judges the time;
\* check_mysql_rows judges the rows; check_mysql reports the variables that were
\* asked for and that the server has and no other, each with its value and with the
\* unit of the option it comes from, however the names are spread over the options.
ServerIsJudged ==
    pc = "exited" =>
        /\ todo = <<>>
        /\ CASE given.plugin = "check_ldap" ->
                  /\ "H" \in given.options
                  /\ code = STATE_OK <=> given.time <= given.limits.warn /\ given.time <= given.limits.crit
                  /\ \A k \in DOMAIN given.entries :
                        given.entries[k].cn # "" /\ given.entries[k].monitorCounter # NONE =>
                            Perf(given.entries[k].cn, given.entries[k].monitorCounter, "c") \in Reported
             [] given.plugin = "check_mysql" /\ given.mp_showperfdata /\ given.variables # <<>> -> Reported = Wanted
             [] given.plugin = "check_mysql_rows" ->
                  /\ {"D", "T"} \subseteq given.options
                  /\ code = STATE_CRITICAL <=> given.limits.crit # NONE /\ given.rows > given.limits.crit
             [] OTHER -> TRUE
=============================================================================
