------------------------------- MODULE DnsSync -------------------------------
(***************************************************************************)
(* dns/check_dns_sync.c: the SOA records of the name servers of a zone are  *)
(* fetched one after the other and compared with the master's.  Meanwhile   *)
(* the zone may be changed on the master and transferred to the slaves.     *)
(***************************************************************************)
EXTENDS Integers, Sequences, SequencesExt, FiniteSets

CONSTANTS
    Servers,        \* name servers, the master among them
    Master,         \* where the zone is maintained
    MaxSerial       \* bound: serials of the zone

VARIABLES
    serial,         \* serial of the zone on every server
    lost,           \* servers that do not answer
    mname,          \* the server the SOA names as the master
    options,        \* hostname ("none" or a server) and hidden_master
    ns_name,        \* the name servers to look at
    ns_soa,         \* what they answered, NULL for the master
    master_soa,     \* the master's record, NULL before it is fetched
    pc,             \* "ns", "soa", "master", "compare", "exited", "crashed"
    code,           \* exit code, -1 while running
    begin           \* history: the master's serial when the check began

vars == <<serial, lost, mname, options, ns_name, ns_soa, master_soa, pc, code, begin>>
given == <<lost, mname, options, begin>>

STATE_OK == 0
STATE_WARNING == 1
STATE_CRITICAL == 2
STATE_UNKNOWN == 3
NULL == 0

\* With a host alone it is compared with the master; with --hidden-master the
\* host is the master, otherwise the SOA's name server is.
Init ==
    /\ serial \in [Servers -> 1 .. MaxSerial]
    /\ \A n \in Servers : serial[n] <= serial[Master]
    /\ lost \in {{}} \cup {{n} : n \in Servers}
    /\ \E host \in Servers \cup {"none"}, hidden \in BOOLEAN :
        /\ hidden => host = Master
        /\ options = [hostname |-> host, hidden_master |-> hidden]
    /\ mname \in IF options.hidden_master THEN Servers ELSE {Master}
    /\ ns_name = <<>>
    /\ ns_soa = <<>>
    /\ master_soa = NULL
    /\ pc = "ns"
    /\ code = -1
    /\ begin = serial[Master]

Running == pc \notin {"exited", "crashed"}
Exit(s) == pc' = "exited" /\ code' = s
single == options.hostname # "none" /\ ~options.hidden_master

\* The names to look at: the host, or what the NS query returns; that query
\* or the setup of the resolver may fail.  A zone may leave its master out.
GetNS ==
    /\ pc = "ns"
    /\ \/ /\ ns_name' \in IF single THEN {<<options.hostname>>}
                          ELSE SetToSeqs(Servers)
                               \cup SetToSeqs(Servers \ {Master})
          /\ pc' = "soa"
          /\ UNCHANGED code
       \/ Exit(STATE_UNKNOWN) /\ UNCHANGED ns_name
       \/ ~single /\ Exit(STATE_CRITICAL) /\ UNCHANGED ns_name
    /\ UNCHANGED <<serial, given, ns_soa, master_soa>>

At == ns_name[Len(ns_soa) + 1]

\* Defect: the zone's first name server is taken for the master.
IsMaster_first(n) == n = ns_name[1]

\* Only in the list of all servers one may be the master.
IsMaster(n) == ~single /\ n = mname

\* One SOA query of the loop; no answer, or NXDOMAIN, is critical.  An answer
\* without a SOA is used like one with it.
FetchSOA ==
    /\ pc = "soa"
    /\ Len(ns_soa) < Len(ns_name)
    /\ IF At \in lost
       THEN /\ Exit(STATE_CRITICAL) \/ (pc' = "crashed" /\ UNCHANGED code)
            /\ UNCHANGED <<ns_soa, master_soa>>
       ELSE IF IsMaster(At)
       THEN /\ master_soa' = serial[At]
            /\ ns_soa' = Append(ns_soa, NULL)
            /\ UNCHANGED <<pc, code>>
       ELSE /\ ns_soa' = Append(ns_soa, serial[At])
            /\ UNCHANGED <<pc, code, master_soa>>
    /\ UNCHANGED <<serial, given, ns_name>>

\* Behind the loop: the master is asked if it is not one of the list.
Fetched ==
    /\ pc = "soa"
    /\ Len(ns_soa) = Len(ns_name)
    /\ pc' = IF single \/ options.hidden_master THEN "master" ELSE "compare"
    /\ UNCHANGED <<serial, given, ns_name, ns_soa, master_soa, code>>

\* The master of the SOA, or the hidden one; here an answer without a SOA is
\* like no master.
FetchMaster ==
    /\ pc = "master"
    /\ LET master == IF single THEN mname ELSE options.hostname
       IN  IF master \in lost
           THEN \/ Exit(STATE_CRITICAL) /\ UNCHANGED master_soa
                \/ master_soa' = NULL /\ pc' = "compare" /\ UNCHANGED code
           ELSE master_soa' = serial[master] /\ pc' = "compare" /\ UNCHANGED code
    /\ UNCHANGED <<serial, given, ns_name, ns_soa>>

\* The resolver does not take the hidden master as its name server.
PushFails ==
    /\ pc = "master"
    /\ options.hidden_master
    /\ Exit(STATE_WARNING)
    /\ UNCHANGED <<serial, given, ns_name, ns_soa, master_soa>>

Differs(soa) == soa # master_soa

Compare ==
    /\ pc = "compare"
    /\ Exit(IF master_soa = NULL THEN STATE_UNKNOWN
            ELSE IF \E k \in DOMAIN ns_soa : ns_soa[k] # NULL /\ Differs(ns_soa[k])
            THEN STATE_CRITICAL ELSE STATE_OK)
    /\ UNCHANGED <<serial, given, ns_name, ns_soa, master_soa>>

\* SIGALRM.
Alarm ==
    /\ Running
    /\ Exit(STATE_CRITICAL)
    /\ UNCHANGED <<serial, given, ns_name, ns_soa, master_soa>>

\* The zone is changed on the master.
Update ==
    /\ Running
    /\ serial[Master] < MaxSerial
    /\ serial' = [serial EXCEPT ![Master] = @ + 1]
    /\ UNCHANGED <<given, ns_name, ns_soa, master_soa, pc, code>>

\* A slave transfers the zone, as it is or as another slave has it.
Transfer ==
    /\ Running
    /\ \E n, from \in Servers : serial[n] < serial[from] /\ serial' = [serial EXCEPT ![n] = serial[from]]
    /\ UNCHANGED <<given, ns_name, ns_soa, master_soa, pc, code>>

Terminated == ~Running /\ UNCHANGED vars

Next == GetNS \/ FetchSOA \/ Fetched \/ FetchMaster \/ PushFails \/ Compare \/ Alarm \/ Update \/ Transfer \/ Terminated
Spec == Init /\ [][Next]_vars
-----------------------------------------------------------------------------
(* Properties                                                               *)

Compared == {ns_name[k] : k \in {l \in DOMAIN ns_soa : ns_soa[l] # NULL}}

\* Although the records are fetched at different times, OK means that every
\* server that was compared has at least the zone the master had when the
\* check began.
OkIsCurrent == code = STATE_OK => \A n \in Compared : serial[n] >= begin

\* "All NS of %s are in sync with the master.": with --hidden-master too.
AllAreInSync ==
    code = STATE_OK => \A k \in DOMAIN ns_name : serial[ns_name[k]] >= begin

-----------------------------------------------------------------------------
(* Why they hold: the parts of the inductive invariant                      *)

TypeOK ==
    /\ serial \in [Servers -> Nat]
    /\ begin \in Nat
    /\ mname \in Servers
    /\ options \in [hostname : Servers \cup {"none"}, hidden_master : BOOLEAN]
    /\ ns_name \in Seq(Servers)
    /\ ns_soa \in Seq(Nat)
    /\ master_soa \in Nat
    /\ pc \in {"ns", "soa", "master", "compare", "exited", "crashed"}

\* Which server is the master, and that its zone does not grow older.
MasterIsKnown ==
    /\ options.hidden_master => options.hostname = Master
    /\ ~options.hidden_master => mname = Master
    /\ pc = "master" => single \/ options.hidden_master
    /\ begin <= serial[Master]

\* No record is newer than what its server has by now.
RecordsAreOld ==
    /\ Len(ns_soa) <= Len(ns_name)
    /\ pc = "ns" => ns_soa = <<>>
    /\ \A k \in DOMAIN ns_soa : ns_soa[k] <= serial[ns_name[k]]

\* What is compared with is the master's record, fetched after the beginning.
\* Before, with --hidden-master, it may be the one of the SOA's name server.
MasterIsCurrent ==
    pc = "compare" \/ ~options.hidden_master => master_soa = NULL \/ begin <= master_soa

OkWasCompared ==
    /\ Running => code = -1
    /\ code = STATE_OK => \A k \in DOMAIN ns_soa : ns_soa[k] # NULL => begin <= ns_soa[k]

IInv == TypeOK /\ MasterIsKnown /\ RecordsAreOld /\ MasterIsCurrent /\ OkWasCompared

=============================================================================
