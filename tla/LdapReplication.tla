-------------------------- MODULE LdapReplication --------------------------
(***************************************************************************)
(* ldap/check_ldap_replication.c and lib/ldap_utils.c: for every database   *)
(* the slave replicates, the time of its latest change is compared with the *)
(* master's.  Both go on working meanwhile.                                 *)
(***************************************************************************)
EXTENDS Integers, Sequences, SequencesExt

CONSTANTS
    Databases,
    MaxTime,        \* bound on the times of changes
    Warn, Crit      \* ends of the ranges of -w and -c

VARIABLES
    csn,        \* contextCSN per database, on the slave and on the master
    given,      \* local_time, -1 before it is read
    todo,       \* databases still to be compared
    seen,       \* history: databases that changed, on either side, since the start,
                \* and those that were compared
    status,     \* which of out_warn and out_crit are set
    pc,         \* "start", "run", "master", "compare", "exited", or "failed",
                \* "alarmed" for those exits, "crashed"
    code        \* exit code, -1 while running

vars == <<csn, given, todo, seen, status, pc, code>>

STATE_OK == 0
STATE_WARNING == 1
STATE_CRITICAL == 2

Init ==
    /\ csn \in [Databases -> {c \in [slave : 0 .. MaxTime, master : 0 .. MaxTime] : c.slave <= c.master}]
    /\ given = -1
    /\ todo = <<>>
    /\ seen = [changed |-> {}, compared |-> {}]
    /\ status = {}
    /\ pc = "start"
    /\ code = -1

Leave(how, s) == pc' = how /\ code' = s

\* mp_ldap_init of the slave, and the search for what it replicates.
Search ==
    /\ pc = "start"
    /\ \E S \in SUBSET Databases : \E l \in SetToSeqs(S) : todo' = l
    /\ pc' = "run"
    /\ UNCHANGED <<csn, given, seen, status, code>>

\* The slave's contextCSN.
ReadLocal ==
    /\ pc = "run"
    /\ todo # <<>>
    /\ given' = csn[Head(todo)].slave
    /\ pc' = "master"
    /\ UNCHANGED <<csn, todo, seen, status, code>>

\* mp_ldap_init(updateRef).
ConnectMaster ==
    /\ pc = "master"
    /\ pc' = "compare"
    /\ UNCHANGED <<csn, given, todo, seen, status, code>>

\* The second mp_ldap_search uses `ld`, the connection to the slave.
remote_time == csn[Head(todo)].slave

lag == remote_time - given

get_status(v) == IF v < 0 \/ v > Crit THEN {"crit"} ELSE IF v > Warn THEN {"warn"} ELSE {}
Compare ==
    /\ pc = "compare"
    /\ status' = status \cup get_status(lag)
    /\ seen' = [seen EXCEPT !.compared = @ \cup {Head(todo)}]
    /\ todo' = Tail(todo)
    /\ pc' = "run"
    /\ UNCHANGED <<csn, given, code>>

\* Any call of the library may fail; an entry without contextCSN is a NULL that
\* is followed, and the text of a result takes more arguments than it is given.
Fails ==
    /\ pc \in {"start", "run", "master", "compare"}
    /\ pc = "run" => todo # <<>>
    /\ Leave("failed", STATE_CRITICAL)
    /\ UNCHANGED <<csn, given, todo, seen, status>>
Crash ==
    /\ \/ pc = "run" /\ todo # <<>>
       \/ pc = "compare"
    /\ pc' = "crashed"
    /\ UNCHANGED <<csn, given, todo, seen, status, code>>

Report ==
    /\ pc = "run"
    /\ todo = <<>>
    /\ Leave("exited", IF "crit" \in status THEN STATE_CRITICAL
                       ELSE IF "warn" \in status THEN STATE_WARNING ELSE STATE_OK)
    /\ UNCHANGED <<csn, given, todo, seen, status>>

\* SIGALRM.
Alarm ==
    /\ pc \in {"start", "run", "master", "compare"}
    /\ Leave("alarmed", STATE_CRITICAL)
    /\ UNCHANGED <<csn, given, todo, seen, status>>

\* The master takes a change, the slave follows; while the check runs.
Running == pc \in {"start", "run", "master", "compare"}
Change(d) ==
    /\ Running
    /\ \E t \in csn[d].master + 1 .. MaxTime : csn' = [csn EXCEPT ![d].master = t]
    /\ seen' = [seen EXCEPT !.changed = @ \cup {d}]
    /\ UNCHANGED <<given, todo, status, pc, code>>
Replicate(d) ==
    /\ Running
    /\ csn[d].slave < csn[d].master
    /\ csn' = [csn EXCEPT ![d].slave = csn[d].master]
    /\ seen' = [seen EXCEPT !.changed = @ \cup {d}]
    /\ UNCHANGED <<given, todo, status, pc, code>>

Terminated == ~Running /\ UNCHANGED vars

Next ==
    \/ Search \/ ReadLocal \/ ConnectMaster \/ Compare \/ Fails \/ Crash \/ Report \/ Alarm
    \/ \E d \in Databases : Change(d) \/ Replicate(d)
    \/ Terminated
Spec == Init /\ [][Next]_vars
-----------------------------------------------------------------------------
(* Properties                                                               *)

\* A slave that has all the master has, neither of them changing, is fine.
QuietIsOk ==
    pc = "exited" /\ seen.changed = {} /\ (\A d \in Databases : csn[d].slave = csn[d].master)
        => code = STATE_OK

\* doc/check_ldap_replication.xml: "Return critical if replication delay expire
\* time limit."  A slave that is behind by more than the limit all the time the
\* check runs is critical.
LateIsCritical ==
    pc = "exited" =>
        \A d \in seen.compared \ seen.changed :
            csn[d].master - csn[d].slave > Crit => code = STATE_CRITICAL
-----------------------------------------------------------------------------
(* Why it holds                                                             *)

\* While nothing changes, what was read of the slave is what it holds.
IInv ==
    /\ csn \in [Databases -> [slave : 0 .. MaxTime, master : 0 .. MaxTime]]
    /\ todo \in Seq(Databases)
    /\ seen \in [changed : SUBSET Databases, compared : SUBSET Databases]
    /\ pc \in {"master", "compare"} => todo # <<>> /\ given \in 0 .. MaxTime
    /\ seen.changed = {} => /\ status = {}
                            /\ pc \in {"master", "compare"} => given = csn[Head(todo)].slave
                            /\ pc = "exited" => code = STATE_OK
=============================================================================
