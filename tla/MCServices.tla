----------------------------- MODULE MCServices -----------------------------
(* Checks of network services and devices, one of them at a time: the name  *)
(* servers of a zone, the nodes of a cluster, RPC programs, ping, and the    *)
(* SNMP plugins.  Variables of the same name are shared, those of the others *)
(* are idle.                                                                *)
EXTENDS MCShared, Integers, Sequences, FiniteSets, TLC

CONSTANTS
    Servers, Master, MaxSerial,                                 \* of DnsSync
    Nodes, Groups, Priorities,                                  \* of Clustat
    RpcVersions, RpcTransports,                                 \* of RpcPlugins
    Packets, Latencies,                                         \* of Oping
    RtaWarning, RtaCritical, LostWarning, LostCritical,
    MaxRows,                                                    \* of SnmpTables
    Instances, Wildcards, Matches, MaxVrrpRows, MaxInstances,   \* of SnmpVrrp
    Outlets, Ports, Number, MaxOutlets, MaxPorts,               \* of SnmpPdu
    Positions, MaxSensors, Kinds, MaxLost,                      \* of SnmpAkcp
    Charges, Runtimes,                                          \* of SnmpUps
    WarningCharge, CriticalCharge, WarningRuntime, CriticalRuntime

\* A threshold of check_oping is below the loss of everything; a priority of a
\* failover domain is a small number; a name does not end in "*".
ASSUME ServicesAssumption ==
    /\ Master \in Servers /\ Servers \subseteq STRING /\ "none" \notin Servers /\ IsFiniteSet(Servers)
    /\ MaxSerial \in Nat
    /\ IsFiniteSet(Nodes) /\ "NULL" \notin Nodes
    /\ Priorities \subseteq 0 .. 999
    /\ RpcVersions \subseteq Seq(STRING) \ {<<>>} /\ RpcTransports \subseteq Seq(STRING) \ {<<>>}
    /\ Packets \subseteq Int /\ Latencies \subseteq Nat
    /\ RtaWarning \in Nat /\ RtaCritical \in Nat
    /\ LostWarning \in 0 .. 99 /\ LostCritical \in 0 .. 99
    /\ MaxRows \in Nat /\ MaxVrrpRows \in Nat /\ MaxInstances \in Nat
    /\ Instances \cap Wildcards = {} /\ "NULL" \notin Instances \cup Wildcards
    /\ MaxOutlets \in Nat /\ MaxPorts \in Nat
    /\ Positions \in Nat \ {0} /\ MaxSensors \in Nat /\ Kinds \subseteq SUBSET {"temp", "hum"}
    /\ Charges \subseteq Nat /\ CriticalCharge \in Nat /\ Runtimes \subseteq Nat /\ CriticalRuntime \in Nat

VARIABLES
    serial, lost, mname, options, ns_name, ns_soa, master_soa, begin,
    owner, conf, rgmanager, local, foreign, missing, verdict,
    plugin, rpcversion, rpctransport, i, j, step, client, failed, warn, world,
    asked, packets, quick, num, dropped, rta,
    device, table, rc, output, instance, mp_state, messages,
    pdu_psu1, pdu_psu2, outlets, listed,
    sensor, kind, found, sensor_found, state, judged,
    ups, value, mp_showperfdata, perfdata

Dns == INSTANCE DnsSync
Cluster == INSTANCE Clustat
Rpc == INSTANCE RpcPlugins WITH
            Plugins <- {"check_nfs", "check_rpc_ping"}, Versions <- RpcVersions, Transports <- RpcTransports
Ping == INSTANCE Oping
Tables == INSTANCE SnmpTables WITH
            Plugins <- {"check_qnap_vols", "check_qnap_disks", "check_arc_raid"}, Unreadable <- TRUE
Vrrp == INSTANCE SnmpVrrp WITH Names <- Instances, MaxRows <- MaxVrrpRows
Pdu == INSTANCE SnmpPdu WITH Names <- Outlets
Akcp == INSTANCE SnmpAkcp
Ups == INSTANCE SnmpUps

\* What one check alone uses, and what the others share.
dnsOnly == <<serial, mname, options, ns_name, ns_soa, master_soa, begin>>
clusterOnly == <<owner, conf, rgmanager, local, foreign, missing, verdict>>
rpcOnly == <<rpcversion, rpctransport, j, step, client, failed, warn, world>>
pingOnly == <<packets, quick, num, dropped, rta>>
vrrpOnly == <<instance, mp_state, messages>>
pduOnly == <<pdu_psu1, pdu_psu2, outlets, listed>>
akcpOnly == <<sensor, kind, found, sensor_found, judged>>
upsOnly == <<ups, value, mp_showperfdata, perfdata>>
shared == <<lost, todo, plugin, i, asked, device, table, rc, status, output, state>>
vars == <<check, pc, code, dnsOnly, clusterOnly, rpcOnly, pingOnly, vrrpOnly, pduOnly, akcpOnly, upsOnly, shared>>

NoDns == serial = 0 /\ mname = 0 /\ options = 0 /\ ns_name = 0 /\ ns_soa = 0 /\ master_soa = 0 /\ begin = 0
NoCluster == owner = 0 /\ conf = 0 /\ rgmanager = 0 /\ local = 0 /\ foreign = 0 /\ missing = 0 /\ verdict = 0
NoRpc == /\ rpcversion = 0 /\ rpctransport = 0 /\ j = 0 /\ step = 0 /\ client = 0 /\ failed = 0
         /\ warn = 0 /\ world = 0
NoPing == packets = 0 /\ quick = 0 /\ num = 0 /\ dropped = 0 /\ rta = 0
NoVrrp == instance = 0 /\ mp_state = 0 /\ messages = 0
NoPdu == pdu_psu1 = 0 /\ pdu_psu2 = 0 /\ outlets = 0 /\ listed = 0
NoAkcp == sensor = 0 /\ kind = 0 /\ found = 0 /\ sensor_found = 0 /\ judged = 0
NoUps == ups = 0 /\ value = 0 /\ mp_showperfdata = 0 /\ perfdata = 0
NoService == NoDns /\ NoCluster /\ NoRpc /\ NoPing
NoDevice == NoVrrp /\ NoPdu /\ NoAkcp /\ NoUps
NoTable == device = 0 /\ table = 0 /\ rc = 0 /\ status = 0 /\ output = 0 /\ state = 0

Init ==
    \/ /\ check = "dns" /\ Dns!Init
       /\ NoCluster /\ NoRpc /\ NoPing /\ NoDevice /\ NoTable /\ todo = 0 /\ plugin = 0 /\ i = 0 /\ asked = 0
    \/ /\ check = "cluster" /\ Cluster!Init
       /\ NoDns /\ NoRpc /\ NoPing /\ NoDevice /\ NoTable /\ lost = 0 /\ plugin = 0 /\ i = 0 /\ asked = 0
    \/ /\ check = "rpc" /\ Rpc!Init
       /\ NoDns /\ NoCluster /\ NoPing /\ NoDevice /\ NoTable /\ lost = 0 /\ todo = 0 /\ asked = 0
    \/ /\ check = "ping" /\ Ping!Init
       /\ NoDns /\ NoCluster /\ NoRpc /\ NoDevice /\ NoTable /\ lost = 0 /\ todo = 0 /\ plugin = 0 /\ i = 0
    \/ /\ check = "tables" /\ Tables!Init
       /\ NoService /\ NoDevice /\ lost = 0 /\ todo = 0 /\ asked = 0 /\ state = 0
    \/ /\ check = "vrrp" /\ Vrrp!Init
       /\ NoService /\ NoPdu /\ NoAkcp /\ NoUps
       /\ lost = 0 /\ todo = 0 /\ plugin = 0 /\ status = 0 /\ output = 0 /\ state = 0
    \/ /\ check = "pdu" /\ Pdu!Init
       /\ NoService /\ NoVrrp /\ NoAkcp /\ NoUps
       /\ lost = 0 /\ plugin = 0 /\ asked = 0 /\ device = 0 /\ table = 0 /\ rc = 0 /\ output = 0 /\ state = 0
    \/ /\ check = "akcp" /\ Akcp!Init
       /\ NoService /\ NoVrrp /\ NoPdu /\ NoUps
       /\ todo = 0 /\ plugin = 0 /\ table = 0 /\ rc = 0 /\ status = 0 /\ output = 0
    \/ /\ check = "ups" /\ Ups!Init
       /\ NoService /\ NoVrrp /\ NoPdu /\ NoAkcp
       /\ lost = 0 /\ todo = 0 /\ plugin = 0 /\ i = 0 /\ asked = 0
       /\ device = 0 /\ table = 0 /\ rc = 0 /\ status = 0 /\ output = 0

services == <<dnsOnly, clusterOnly, rpcOnly, pingOnly>>
besidesDns == <<check, clusterOnly, rpcOnly, pingOnly, vrrpOnly, pduOnly, akcpOnly, upsOnly,
                todo, plugin, i, asked, device, table, rc, status, output, state>>
besidesCluster == <<check, dnsOnly, rpcOnly, pingOnly, vrrpOnly, pduOnly, akcpOnly, upsOnly,
                    lost, plugin, i, asked, device, table, rc, status, output, state>>
besidesRpc == <<check, dnsOnly, clusterOnly, pingOnly, vrrpOnly, pduOnly, akcpOnly, upsOnly,
                lost, todo, asked, device, table, rc, status, output, state>>
besidesPing == <<check, dnsOnly, clusterOnly, rpcOnly, vrrpOnly, pduOnly, akcpOnly, upsOnly,
                 lost, todo, plugin, i, device, table, rc, status, output, state>>
besidesTables == <<check, services, vrrpOnly, pduOnly, akcpOnly, upsOnly, lost, todo, asked, state>>
besidesVrrp == <<check, services, pduOnly, akcpOnly, upsOnly, lost, todo, plugin, status, output, state>>
besidesPdu == <<check, services, vrrpOnly, akcpOnly, upsOnly,
                lost, plugin, asked, device, table, rc, output, state>>
besidesAkcp == <<check, services, vrrpOnly, pduOnly, upsOnly, todo, plugin, table, rc, status, output>>
besidesUps == <<check, services, vrrpOnly, pduOnly, akcpOnly,
                lost, todo, plugin, i, asked, device, table, rc, status, output>>

Next ==
    \/ check = "dns" /\ Dns!Next /\ UNCHANGED besidesDns
    \/ check = "cluster" /\ Cluster!Next /\ UNCHANGED besidesCluster
    \/ check = "rpc" /\ Rpc!Next /\ UNCHANGED besidesRpc
    \/ check = "ping" /\ Ping!Next /\ UNCHANGED besidesPing
    \/ check = "tables" /\ Tables!Next /\ UNCHANGED besidesTables
    \/ check = "vrrp" /\ Vrrp!Next /\ UNCHANGED besidesVrrp
    \/ check = "pdu" /\ Pdu!Next /\ UNCHANGED besidesPdu
    \/ check = "akcp" /\ Akcp!Next /\ UNCHANGED besidesAkcp
    \/ check = "ups" /\ Ups!Next /\ UNCHANGED besidesUps

Spec == Init /\ [][Next]_vars
-----------------------------------------------------------------------------
(* Properties                                                               *)

\* check_dns_sync, with a zone that changes while it runs: OK means that the
\* servers compared have what the master had when the check began.
OkIsCurrent == check = "dns" => Dns!OkIsCurrent

\* check_clustat: the nodes together find exactly the misplaced services.
NodesAgree == check = "cluster" => Cluster!NodesAgree

\* check_nfs and check_rpc_ping: every version over every transport counts.
EveryPairCounts == check = "rpc" => Rpc!EveryPairCounts

\* check_oping: a quick check gives up early only to be OK.
QuickIsSound == check = "ping" => Ping!QuickIsSound

\* check_dns_sync: "All NS of %s are in sync with the master."
AllAreInSync == check = "dns" => Dns!AllAreInSync

\* check_qnap_vols, check_qnap_disks, check_arc_raid: the worst row decides
\* wherever it is, and a row judged bad is not forgotten when the walk failed
\* or a later row cannot be read.
RowsAreJudged == check = "tables" => Tables!WorstRowWins /\ Tables!BadRowIsKept

\* check_keepalived_vrrp: whatever the order of rows and options, an instance
\* that is asked for is judged, a missing one is critical, and nothing is
\* made up.
InstancesAreJudged ==
    check = "vrrp" => Vrrp!AskedIsJudged /\ Vrrp!MissingIsCritical /\ Vrrp!NoFalseAlarm

\* check_apc_pdu: a fault outweighs an outlet that is not found, and a number
\* means the outlet in that place.  check_akcp: the worst reading decides, and a
\* listed sensor without one is never passed over.  check_snmp_ups: no judgement
\* takes back what a former one found, and a UPS that does not answer is never OK.
DevicesAreJudged ==
    /\ check = "pdu" => Pdu!WorstOutletWins /\ Pdu!NumbersAreOutlets
    /\ check = "akcp" => Akcp!WorstReadingWins /\ Akcp!ListedIsRead
    /\ check = "ups" => Ups!BatteryIsNeverFine /\ Ups!SilenceIsNotOk
-----------------------------------------------------------------------------
(* The instance that is checked                                             *)

const_RpcVersions == {<<"4">>, <<"3", "4">>}
const_RpcTransports == {<<"udp", "tcp">>, <<"tcp">>}
const_Packets == -1 .. 4
\* Three instances, two of which begin alike, and a wildcard for those two.
const_Matches == [w \in {"VI_*"} |-> {"VI_1", "VI_2"}]
\* Two outlets, listed by name and by number.
const_Number == [p \in {"web", "db"} |-> 0] @@ ("1" :> 1) @@ ("2" :> 2)
const_Kinds == SUBSET {"temp", "hum"}
=============================================================================
