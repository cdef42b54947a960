---------------------------- MODULE MCTransports ----------------------------
(* The conversations of the plugins with the world, one of them at a time:  *)
(* a DHCP server, a child process, a GSM modem, a server that sends lines,  *)
(* an SNMP agent asked for single objects.  The variables of the others are *)
(* idle.                                                                    *)
EXTENDS Integers, Sequences

CONSTANTS
    Timeouts, MaxPackets,                           \* of CheckDhcp
    Users, Outputs, Messages, Chatter, Capacity,    \* of MpSubprocess
    Plugins, Tries, MaxTimeouts,                    \* of AtModem
    Addresses, Streams, RLB_LEN,                    \* of MpNet
    Wanted, Versions, MaxChanges                    \* of SnmpQuery

ASSUME TransportsAssumption ==
    /\ Timeouts \subseteq Nat /\ MaxPackets \in Nat
    /\ Users \subseteq {"multipath", "clustat", "mail"}
    /\ Outputs \cup Messages \cup Chatter \subseteq Seq(STRING)
    /\ Capacity \in Nat
    /\ Plugins \subseteq {"notify_sms", "check_gsm_signal"}
    /\ Tries \in Nat /\ MaxTimeouts \in Nat
    /\ Addresses \subseteq Seq({"up", "down"})
    /\ Streams \subseteq Seq(STRING)
    /\ RLB_LEN \in Nat
    /\ Wanted \in Seq(STRING)
    /\ Versions \subseteq {1, 2, 3}
    /\ MaxChanges \in Nat

VARIABLES
    talk,           \* which conversation runs
    pc, code,
    options, now, since, arrived, accepted, failed,
    user, output, message, pipe, todo, writers, parent, handler, child, printed,
    received, got, status, said,
    plugin, modem, mp_sms_pin, queue, wire, step, rv, answer, answers, tried, timeouts,
    addrs, offered, stream, consumed, mp_recv_line_buffer, line, lines, time, sd,
    func, version, mib, changes, pdu, response, target, rc, steady, blamed

dhcpOnly == <<options, now, since, arrived, accepted, failed>>
childOnly == <<user, output, message, pipe, todo, writers, parent, handler, child, printed,
               received, got, status, said>>
modemOnly == <<plugin, modem, mp_sms_pin, queue, wire, step, rv, answer, answers, tried, timeouts>>
netOnly == <<addrs, offered, stream, consumed, mp_recv_line_buffer, line, lines, time, sd>>
queryOnly == <<func, version, mib, changes, pdu, response, target, rc, steady, blamed>>
vars == <<talk, pc, code, dhcpOnly, childOnly, modemOnly, netOnly, queryOnly>>

Dhcp == INSTANCE CheckDhcp
Child == INSTANCE MpSubprocess
Modem == INSTANCE AtModem
Net == INSTANCE MpNet
Query == INSTANCE SnmpQuery

NoDhcp == /\ options = 0 /\ now = 0 /\ since = 0 /\ arrived = 0 /\ accepted = 0 /\ failed = 0
NoChild == /\ user = 0 /\ output = 0 /\ message = 0 /\ pipe = 0 /\ todo = 0 /\ writers = 0
           /\ parent = "idle" /\ handler = 0 /\ child = 0 /\ printed = 0 /\ received = 0
           /\ got = 0 /\ status = 0 /\ said = 0
NoModem == /\ plugin = 0 /\ modem = 0 /\ mp_sms_pin = 0 /\ queue = 0 /\ wire = 0 /\ step = 0
           /\ rv = 0 /\ answer = 0 /\ answers = 0 /\ tried = 0 /\ timeouts = 0
NoNet == /\ addrs = 0 /\ offered = 0 /\ stream = 0 /\ consumed = 0 /\ mp_recv_line_buffer = 0
         /\ line = 0 /\ lines = 0 /\ time = 0 /\ sd = 0
NoQuery == /\ func = 0 /\ version = 0 /\ mib = 0 /\ changes = 0 /\ pdu = 0 /\ response = 0
           /\ target = 0 /\ rc = 0 /\ steady = 0 /\ blamed = 0

Init ==
    \/ talk = "dhcp" /\ Dhcp!Init /\ NoChild /\ NoModem /\ NoNet /\ NoQuery
    \/ talk = "child" /\ Child!Init /\ pc = "idle" /\ NoDhcp /\ NoModem /\ NoNet /\ NoQuery
    \/ talk = "modem" /\ Modem!Init /\ NoDhcp /\ NoChild /\ NoNet /\ NoQuery
    \/ talk = "net" /\ Net!Init /\ NoDhcp /\ NoChild /\ NoModem /\ NoQuery
    \/ talk = "query" /\ Query!Init /\ code = 0 /\ NoDhcp /\ NoChild /\ NoModem /\ NoNet

BesidesDhcp == UNCHANGED <<talk, childOnly, modemOnly, netOnly, queryOnly>>
BesidesChild == UNCHANGED <<talk, pc, dhcpOnly, modemOnly, netOnly, queryOnly>>
BesidesModem == UNCHANGED <<talk, dhcpOnly, childOnly, netOnly, queryOnly>>
BesidesNet == UNCHANGED <<talk, dhcpOnly, childOnly, modemOnly, queryOnly>>
BesidesQuery == UNCHANGED <<talk, code, dhcpOnly, childOnly, modemOnly, netOnly>>

Next ==
    \/ talk = "dhcp" /\ Dhcp!Next /\ BesidesDhcp
    \/ talk = "child" /\ Child!Next /\ BesidesChild
    \/ talk = "modem" /\ Modem!Next /\ BesidesModem
    \/ talk = "net" /\ Net!Next /\ BesidesNet
    \/ talk = "query" /\ Query!Next /\ BesidesQuery

\* The kernel delivers SIGALRM, snmp_synch_response returns after its last
\* repetition, and the loop around it does not wait.
Fairness ==
    /\ WF_vars(talk = "child" /\ Child!Alarm /\ BesidesChild)
    /\ WF_vars(talk = "net" /\ Net!Alarm /\ BesidesNet)
    /\ WF_vars(talk = "query" /\ Query!Client /\ BesidesQuery)
    /\ WF_vars(talk = "query" /\ Query!Reply /\ BesidesQuery)

Spec == Init /\ [][Next]_vars /\ Fairness
-----------------------------------------------------------------------------
(* Properties                                                               *)

\* check_dhcp with a timeout is OK only for an answer to its own request, of
\* the host that is named as long as it is found: silence is critical, for
\* alarm() comes before the end of select().
SilenceIsCritical == talk = "dhcp" => Dhcp!SilenceIsCritical

\* check_multipath is OK only if no line about a failed path was lost in the
\* pipe that parent and child share.
OkHasNoFailedPath == talk = "child" => Child!OkHasNoFailedPath

\* notify_mail says "Mail sent." only if sendmail took the notification.
SentIsComplete == talk = "child" => Child!SentIsComplete

\* notify_sms says "SMS Sent." only if the modem took the SMS, as long as no
\* command was given up.
SentIsAccepted == talk = "modem" => Modem!SentIsAccepted

\* The PIN is entered once at most, and only if the SIM asks for it.
PinIsAskedFor == talk = "modem" => Modem!PinIsAskedFor

\* mp_recv_line: however recv cuts the stream, its lines are returned, each
\* once and in order; check_memcached is OK only for a whole answer of a
\* server that was reached at its first address that answers.
LinesAreLines ==
    talk = "net" => Net!LinesAreLines /\ Net!ReachableIsReached /\ Net!OkIsComplete

\* mp_snmp_query and mp_snmp_values_fetch1: success means that every object
\* that was there all the time, and that no error named, is in its target.
SuccessHasValues == talk = "query" => Query!SuccessHasValues

\* copy_value: an object that is absent or mistyped leaves the plugin's default,
\* and a failed query writes nothing at all.
DefaultsAreKept == talk = "query" => Query!DefaultsAreKept

\* Whatever the child or the server does, also if both processes wait for each
\* other or recv returns 0 for ever, the plugin ends; and the retries of an SNMP
\* query end, for every one asks for less.
PluginEnds ==
    /\ talk = "child" ~> parent \in {"exited", "crashed"}
    /\ talk = "net" ~> pc \in {"exited", "crashed"}
    /\ talk = "query" ~> pc = "done"

-----------------------------------------------------------------------------
(* The instance that MCTransports.cfg checks                                *)

UpTo(S, n) == UNION {[1 .. k -> S] : k \in 0 .. n}

const_Outputs == UpTo({"path", "failed", "broken"}, 3)
const_Messages == UpTo({"line", "."}, 2) \cup {<<"open">>, <<"line", "open">>}
const_Chatter == {<<>>, <<"note">>}
const_Addresses == {<<"up">>, <<"down">>, <<"down", "up">>, <<"up", "down">>}
const_Streams == UpTo({"S", "E", "r", "n"}, 4)
const_Wanted == <<"o1", "o2", "o3">>
=============================================================================
