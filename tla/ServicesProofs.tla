--------------------------- MODULE ServicesProofs ---------------------------
(***************************************************************************)
(* Proofs about the checks of services and devices that MCServices puts     *)
(* together, for every value of its constants: the name servers of a zone,  *)
(* ping, RPC programs, the nodes of a cluster, the rows of SNMP tables and   *)
(* the UPS, AKCP, APC PDU and VRRP devices.                                 *)
(* Each check has its inductive invariant, IInv of its module.              *)
(***************************************************************************)
EXTENDS MCServices, SeqFacts, FiniteSetTheorems

(* A check is not exchanged for another one, and its steps are those of its
   component. *)
LEMMA OneCheck ==
    ASSUME [Next]_vars
    PROVE  /\ check' = check
           /\ check = "dns" => [Dns!Next]_(Dns!vars)
           /\ check = "cluster" => [Cluster!Next]_(Cluster!vars)
           /\ check = "rpc" => [Rpc!Next]_(Rpc!vars)
           /\ check = "ping" => [Ping!Next]_(Ping!vars)
           /\ check = "tables" => [Tables!Next]_(Tables!vars)
           /\ check = "vrrp" => [Vrrp!Next]_(Vrrp!vars)
           /\ check = "pdu" => [Pdu!Next]_(Pdu!vars)
           /\ check = "akcp" => [Akcp!Next]_(Akcp!vars)
           /\ check = "ups" => [Ups!Next]_(Ups!vars)
  BY DEF Next, vars, dnsOnly, clusterOnly, rpcOnly, pingOnly, vrrpOnly, pduOnly, akcpOnly, upsOnly, shared, services,
         Dns!vars, Cluster!vars, Rpc!vars, Ping!vars, Tables!vars, Vrrp!vars, Pdu!vars, Akcp!vars, Ups!vars,
         besidesDns, besidesCluster, besidesRpc, besidesPing, besidesTables, besidesVrrp, besidesPdu,
         besidesAkcp, besidesUps

-----------------------------------------------------------------------------
(* check_dns_sync                                                           *)

LEMMA DnsInit ==
    ASSUME Dns!Init
    PROVE  Dns!IInv
  <1>1. /\ serial \in [Servers -> 1 .. MaxSerial] /\ ns_name = <<>> /\ ns_soa = <<>> /\ master_soa = 0
        /\ pc = "ns" /\ code = -1 /\ begin = serial[Master]
        /\ mname \in IF options.hidden_master THEN Servers ELSE {Master}
    BY DEF Dns!Init, Dns!NULL
  <1>2. PICK host \in Servers \cup {"none"}, hidden \in BOOLEAN :
           (hidden => host = Master) /\ options = [hostname |-> host, hidden_master |-> hidden]
    BY DEF Dns!Init
  <1>3. Master \in Servers /\ MaxSerial \in Nat
    BY ServicesAssumption
  <1>4. serial \in [Servers -> Nat]
    BY <1>1, <1>3
  <1>5. begin \in Nat /\ begin <= serial[Master]
    BY <1>1, <1>3, <1>4
  <1>6. Dns!TypeOK
    BY <1>1, <1>2, <1>3, <1>4, <1>5 DEF Dns!TypeOK
  <1>7. Dns!MasterIsKnown
    BY <1>1, <1>2, <1>5 DEF Dns!MasterIsKnown
  <1> QED
    BY <1>1, <1>6, <1>7
       DEF Dns!IInv, Dns!RecordsAreOld, Dns!MasterIsCurrent, Dns!OkWasCompared, Dns!NULL, Dns!STATE_OK

(* The name servers of a zone are a sequence of servers. *)
LEMMA NamesAreServers ==
    ASSUME NEW S \in SUBSET Servers, NEW s \in Dns!SetToSeqs(S)
    PROVE  s \in Seq(Servers)
  <1>1. IsFiniteSet(S)
    BY ServicesAssumption, FS_Subset
  <1>2. Cardinality(S) \in Nat
    BY <1>1, FS_CardinalityType
  <1>3. s \in [1 .. Cardinality(S) -> S]
    <2>1. Dns!Cardinality(S) = Cardinality(S)
      BY DEF Dns!Cardinality, Cardinality
    <2> QED
      BY <2>1 DEF Dns!SetToSeqs
  <1>4. s \in [1 .. Cardinality(S) -> Servers]
    BY <1>3
  <1> QED
    BY <1>2, <1>4

LEMMA DnsGetNS ==
    ASSUME Dns!IInv, Dns!GetNS
    PROVE  Dns!IInv'
  <1>1. /\ pc = "ns" /\ UNCHANGED <<serial, lost, mname, options, begin, ns_soa, master_soa>>
        /\ \/ pc' = "soa" /\ code' = code
           \/ pc' = "exited" /\ code' \in {2, 3}
    BY DEF Dns!GetNS, Dns!given, Dns!Exit, Dns!STATE_UNKNOWN, Dns!STATE_CRITICAL
  <1>2. ns_soa = <<>> /\ code = -1 /\ ns_name \in Seq(Servers)
        /\ options \in [hostname : Servers \cup {"none"}, hidden_master : BOOLEAN]
    BY <1>1 DEF Dns!IInv, Dns!RecordsAreOld, Dns!OkWasCompared, Dns!Running, Dns!TypeOK
  <1>3. ns_name' \in Seq(Servers)
    <2>1. CASE ns_name' = ns_name
      BY <1>2, <2>1
    <2>2. CASE Dns!single /\ ns_name' = <<options.hostname>>
      BY <1>2, <2>2 DEF Dns!single
    <2>3. CASE ns_name' \in Dns!SetToSeqs(Servers) \cup Dns!SetToSeqs(Servers \ {Master})
      BY <2>3, NamesAreServers
    <2> QED
      BY <2>1, <2>2, <2>3 DEF Dns!GetNS
  <1>4. Len(ns_name') \in Nat /\ Len(ns_soa') = 0 /\ DOMAIN ns_soa' = {}
    BY <1>1, <1>2, <1>3, TopFacts
  <1> QED
    BY <1>1, <1>2, <1>3, <1>4
       DEF Dns!IInv, Dns!TypeOK, Dns!MasterIsKnown, Dns!RecordsAreOld, Dns!MasterIsCurrent, Dns!OkWasCompared,
           Dns!Running, Dns!single, Dns!NULL, Dns!STATE_OK

(* A record is fetched: it is as old as what its server has now. *)
LEMMA DnsFetchSOA ==
    ASSUME Dns!IInv, Dns!FetchSOA
    PROVE  Dns!IInv'
  <1>1. /\ pc = "soa" /\ UNCHANGED <<serial, lost, mname, options, begin, ns_name>>
        /\ Len(ns_soa) < Len(ns_name)
        /\ \/ /\ (pc' = "exited" /\ code' = 2) \/ (pc' = "crashed" /\ code' = code)
              /\ UNCHANGED <<ns_soa, master_soa>>
           \/ /\ ~Dns!single /\ ns_name[Len(ns_soa) + 1] = mname
              /\ master_soa' = serial[mname] /\ ns_soa' = Append(ns_soa, 0) /\ UNCHANGED <<pc, code>>
           \/ /\ ns_soa' = Append(ns_soa, serial[ns_name[Len(ns_soa) + 1]])
              /\ UNCHANGED <<pc, code, master_soa>>
    BY DEF Dns!FetchSOA, Dns!given, Dns!Exit, Dns!STATE_CRITICAL, Dns!At, Dns!IsMaster, Dns!NULL
  <1>2. Dns!TypeOK /\ Dns!MasterIsKnown /\ Dns!RecordsAreOld /\ Dns!MasterIsCurrent /\ Dns!OkWasCompared
    BY DEF Dns!IInv
  <1>3. code = -1 /\ ns_soa \in Seq(Nat) /\ ns_name \in Seq(Servers) /\ serial \in [Servers -> Nat]
        /\ mname \in Servers
    BY <1>1, <1>2 DEF Dns!TypeOK, Dns!OkWasCompared, Dns!Running
  <1>4. CASE UNCHANGED <<ns_soa, master_soa>> /\ pc' \in {"exited", "crashed"} /\ code' \in {-1, 2}
    BY <1>1, <1>2, <1>4
       DEF Dns!IInv, Dns!TypeOK, Dns!MasterIsKnown, Dns!RecordsAreOld, Dns!MasterIsCurrent, Dns!OkWasCompared,
           Dns!Running, Dns!single, Dns!NULL, Dns!STATE_OK
  <1>5. ASSUME NEW v \in Nat, ns_soa' = Append(ns_soa, v), v <= serial[ns_name[Len(ns_soa) + 1]],
               UNCHANGED <<pc, code>>,
               master_soa' = master_soa \/ (~Dns!single /\ master_soa' = serial[mname])
        PROVE  Dns!IInv'
    <2>1. /\ ns_soa' \in Seq(Nat) /\ Len(ns_soa') = Len(ns_soa) + 1
          /\ \A k \in 1 .. Len(ns_soa) : ns_soa'[k] = ns_soa[k]
          /\ ns_soa'[Len(ns_soa) + 1] = v
      BY <1>3, <1>5, AppendFacts
    <2>2. Len(ns_soa) \in Nat /\ DOMAIN ns_soa = 1 .. Len(ns_soa) /\ Len(ns_name) \in Nat
      BY <1>3, TopFacts
    <2>3. DOMAIN ns_soa' = 1 .. Len(ns_soa) + 1
      BY <2>1, TopFacts
    <2>4. master_soa' \in Nat
      BY <1>2, <1>3, <1>5 DEF Dns!TypeOK
    <2>5. Dns!TypeOK'
      BY <1>1, <1>2, <1>5, <2>1, <2>4 DEF Dns!TypeOK
    <2>6. \A k \in DOMAIN ns_soa' : ns_soa'[k] <= serial[ns_name[k]]
      <3> SUFFICES ASSUME NEW k \in DOMAIN ns_soa' PROVE ns_soa'[k] <= serial[ns_name[k]]
        OBVIOUS
      <3>1. CASE k \in 1 .. Len(ns_soa)
        BY <1>2, <2>1, <2>2, <3>1 DEF Dns!RecordsAreOld
      <3>2. CASE k = Len(ns_soa) + 1
        BY <1>5, <2>1, <3>2
      <3> QED
        BY <2>2, <2>3, <3>1, <3>2
    <2>7. Dns!RecordsAreOld'
      BY <1>1, <1>5, <2>1, <2>2, <2>6 DEF Dns!RecordsAreOld
    <2>8. ~options.hidden_master => master_soa' = 0 \/ begin <= master_soa'
      BY <1>2, <1>5 DEF Dns!MasterIsCurrent, Dns!MasterIsKnown, Dns!NULL
    <2> QED
      BY <1>1, <1>2, <1>3, <1>5, <2>5, <2>7, <2>8
         DEF Dns!IInv, Dns!MasterIsKnown, Dns!MasterIsCurrent, Dns!OkWasCompared, Dns!Running, Dns!single, Dns!NULL, Dns!STATE_OK
  <1>6. ns_name[Len(ns_soa) + 1] \in Servers
    <2>1. Len(ns_soa) + 1 \in 1 .. Len(ns_name)
      BY <1>1, <1>3, TopFacts
    <2> QED
      BY <1>3, <2>1, TopFacts
  <1>7. serial[ns_name[Len(ns_soa) + 1]] \in Nat /\ 0 <= serial[ns_name[Len(ns_soa) + 1]]
    BY <1>3, <1>6
  <1> QED
    BY <1>1, <1>3, <1>4, <1>5, <1>7

(* Every other step of the plugin, and what happens to the zone. *)
LEMMA DnsStep ==
    ASSUME Dns!IInv, [Dns!Next]_(Dns!vars)
    PROVE  Dns!IInv'
  <1>1. Dns!TypeOK /\ Dns!MasterIsKnown /\ Dns!RecordsAreOld /\ Dns!MasterIsCurrent /\ Dns!OkWasCompared
    BY DEF Dns!IInv
  <1>2. CASE UNCHANGED Dns!vars
    BY <1>1, <1>2 DEF Dns!vars, Dns!IInv, Dns!TypeOK, Dns!MasterIsKnown, Dns!RecordsAreOld, Dns!MasterIsCurrent,
                      Dns!OkWasCompared, Dns!Running, Dns!single, Dns!NULL, Dns!STATE_OK
  <1>3. CASE Dns!Fetched \/ Dns!PushFails \/ Dns!Alarm
    <2>1. /\ UNCHANGED <<serial, lost, mname, options, begin, ns_name, ns_soa, master_soa>> /\ pc # "exited"
          /\ \/ pc' = "master" /\ code' = code /\ pc = "soa" /\ (Dns!single \/ options.hidden_master)
             \/ pc' = "compare" /\ code' = code /\ pc = "soa" /\ ~options.hidden_master
             \/ pc' = "exited" /\ code' \in {1, 2}
      BY <1>3 DEF Dns!Fetched, Dns!PushFails, Dns!Alarm, Dns!given, Dns!Exit, Dns!STATE_WARNING, Dns!STATE_CRITICAL,
                  Dns!single, Dns!Running
    <2> QED
      BY <1>1, <2>1 DEF Dns!IInv, Dns!TypeOK, Dns!MasterIsKnown, Dns!RecordsAreOld, Dns!MasterIsCurrent,
                        Dns!OkWasCompared, Dns!Running, Dns!single, Dns!NULL, Dns!STATE_OK
  <1>4. CASE Dns!FetchMaster
    <2>1. /\ UNCHANGED <<serial, lost, mname, options, begin, ns_name, ns_soa>> /\ pc = "master"
          /\ \/ pc' = "exited" /\ code' = 2 /\ UNCHANGED master_soa
             \/ pc' = "compare" /\ code' = code /\ master_soa' = 0
             \/ /\ pc' = "compare" /\ code' = code
                /\ master_soa' = serial[IF Dns!single THEN mname ELSE options.hostname]
      BY <1>4 DEF Dns!FetchMaster, Dns!given, Dns!Exit, Dns!STATE_CRITICAL, Dns!NULL
    <2>2. ASSUME pc' = "compare", master_soa' # 0
          PROVE  master_soa' \in Nat /\ begin <= master_soa'
      <3>1. CASE Dns!single
        BY <1>1, <2>1, <2>2, <3>1 DEF Dns!single, Dns!MasterIsKnown, Dns!TypeOK
      <3>2. CASE ~Dns!single /\ options.hidden_master
        BY <1>1, <2>1, <2>2, <3>2, ServicesAssumption DEF Dns!MasterIsKnown, Dns!TypeOK
      <3>3. CASE ~Dns!single /\ ~options.hidden_master
        BY <1>1, <2>1, <3>3 DEF Dns!MasterIsKnown
      <3> QED
        BY <3>1, <3>2, <3>3
    <2>3. master_soa' \in Nat
      BY <1>1, <2>1, <2>2 DEF Dns!TypeOK
    <2> QED
      BY <1>1, <2>1, <2>2, <2>3
         DEF Dns!IInv, Dns!TypeOK, Dns!MasterIsKnown, Dns!RecordsAreOld, Dns!MasterIsCurrent, Dns!OkWasCompared,
             Dns!Running, Dns!single, Dns!NULL, Dns!STATE_OK
  <1>5. CASE Dns!Compare
    <2>1. /\ UNCHANGED <<serial, lost, mname, options, begin, ns_name, ns_soa, master_soa>> /\ pc = "compare"
          /\ pc' = "exited"
          /\ code' = 0 => master_soa # 0 /\ \A k \in DOMAIN ns_soa : ns_soa[k] # 0 => ns_soa[k] = master_soa
      BY <1>5 DEF Dns!Compare, Dns!given, Dns!Exit, Dns!STATE_OK, Dns!STATE_CRITICAL, Dns!STATE_UNKNOWN, Dns!NULL,
                  Dns!Differs
    <2>2. code' = 0 => begin <= master_soa
      BY <1>1, <2>1 DEF Dns!MasterIsCurrent, Dns!NULL
    <2> QED
      BY <1>1, <2>1, <2>2
         DEF Dns!IInv, Dns!TypeOK, Dns!MasterIsKnown, Dns!RecordsAreOld, Dns!MasterIsCurrent, Dns!OkWasCompared,
             Dns!Running, Dns!single, Dns!NULL, Dns!STATE_OK
  <1>6. CASE Dns!Update \/ Dns!Transfer
    <2>1. /\ UNCHANGED <<lost, mname, options, begin, ns_name, ns_soa, master_soa, pc, code>>
          /\ \E n \in Servers : \E v \in Nat : serial[n] <= v /\ serial' = [serial EXCEPT ![n] = v]
      <3>1. CASE Dns!Update
        <4>1. serial[Master] \in Nat /\ Master \in Servers
          BY <1>1, ServicesAssumption DEF Dns!TypeOK
        <4>2. serial[Master] + 1 \in Nat /\ serial[Master] <= serial[Master] + 1
          BY <4>1
        <4> QED
          BY <3>1, <4>1, <4>2 DEF Dns!Update, Dns!given
      <3>2. CASE Dns!Transfer
        <4>1. PICK n, from \in Servers : serial[n] < serial[from] /\ serial' = [serial EXCEPT ![n] = serial[from]]
          BY <3>2 DEF Dns!Transfer
        <4>2. serial[from] \in Nat /\ serial[n] \in Nat
          BY <1>1 DEF Dns!TypeOK
        <4>3. serial[n] <= serial[from]
          BY <4>1, <4>2
        <4> QED
          BY <3>2, <4>1, <4>2, <4>3 DEF Dns!Transfer, Dns!given
      <3> QED
        BY <1>6, <3>1, <3>2
    <2>2. PICK n \in Servers, v \in Nat : serial[n] <= v /\ serial' = [serial EXCEPT ![n] = v]
      BY <2>1
    <2>3. serial \in [Servers -> Nat]
      BY <1>1 DEF Dns!TypeOK
    <2>4. serial' \in [Servers -> Nat] /\ \A m \in Servers : serial[m] <= serial'[m]
      BY <2>2, <2>3
    <2>5. begin <= serial'[Master]
      <3>1. Master \in Servers /\ begin <= serial[Master] /\ begin \in Nat
        BY <1>1, ServicesAssumption DEF Dns!MasterIsKnown, Dns!TypeOK
      <3> QED
        BY <2>3, <2>4, <3>1
    <2>6. \A k \in DOMAIN ns_soa : ns_soa[k] <= serial'[ns_name[k]]
      <3> SUFFICES ASSUME NEW k \in DOMAIN ns_soa PROVE ns_soa[k] <= serial'[ns_name[k]]
        OBVIOUS
      <3>1. ns_soa \in Seq(Nat) /\ ns_name \in Seq(Servers) /\ Len(ns_soa) <= Len(ns_name)
        BY <1>1 DEF Dns!TypeOK, Dns!RecordsAreOld
      <3>2. k \in 1 .. Len(ns_name) /\ ns_soa[k] \in Nat
        BY <3>1, TopFacts
      <3>3. ns_name[k] \in Servers
        BY <3>1, <3>2, TopFacts
      <3>4. ns_soa[k] <= serial[ns_name[k]]
        BY <1>1 DEF Dns!RecordsAreOld
      <3> QED
        BY <2>3, <2>4, <3>2, <3>3, <3>4
    <2> QED
      BY <1>1, <2>1, <2>4, <2>5, <2>6
         DEF Dns!IInv, Dns!TypeOK, Dns!MasterIsKnown, Dns!RecordsAreOld, Dns!MasterIsCurrent, Dns!OkWasCompared,
             Dns!Running, Dns!single, Dns!NULL, Dns!STATE_OK
  <1> QED
    BY <1>2, <1>3, <1>4, <1>5, <1>6, DnsGetNS, DnsFetchSOA DEF Dns!Next, Dns!Terminated

(* The invariant of check_dns_sync while the zone changes. *)
THEOREM DnsInvariant == Spec => [](check = "dns" => Dns!IInv)
  <1>1. Init => (check = "dns" => Dns!IInv)
    BY DnsInit DEF Init
  <1>2. (check = "dns" => Dns!IInv) /\ [Next]_vars => (check = "dns" => Dns!IInv)'
    BY OneCheck, DnsStep
  <1> QED
    BY <1>1, <1>2, PTL DEF Spec

(* check_dns_sync is OK only if every server it compared has by now the zone the
   master had when the check began, however the zone was changed and
   transferred between the queries. *)
THEOREM OkWasCurrent == Spec => []OkIsCurrent
  <1>1. ASSUME Dns!IInv, code = 0, NEW k \in DOMAIN ns_soa, ns_soa[k] # 0
        PROVE  serial[ns_name[k]] >= begin
    <2>1. ns_soa \in Seq(Nat) /\ ns_name \in Seq(Servers) /\ serial \in [Servers -> Nat] /\ begin \in Nat
          /\ Len(ns_soa) <= Len(ns_name) /\ ns_soa[k] <= serial[ns_name[k]] /\ begin <= ns_soa[k]
      BY <1>1 DEF Dns!IInv, Dns!TypeOK, Dns!RecordsAreOld, Dns!OkWasCompared, Dns!STATE_OK, Dns!NULL
    <2>2. k \in 1 .. Len(ns_name) /\ ns_soa[k] \in Nat
      BY <2>1, TopFacts
    <2>3. serial[ns_name[k]] \in Nat
      BY <2>1, <2>2, TopFacts
    <2> QED
      BY <2>1, <2>2, <2>3
  <1>2. (check = "dns" => Dns!IInv) => OkIsCurrent
    BY <1>1 DEF OkIsCurrent, Dns!OkIsCurrent, Dns!Compared, Dns!STATE_OK, Dns!NULL
  <1> QED
    BY <1>2, DnsInvariant, PTL

-----------------------------------------------------------------------------
(* check_oping                                                              *)

LEMMA PingInit ==
    ASSUME Ping!Init
    PROVE  Ping!IInv
  BY ServicesAssumption DEF Ping!Init, Ping!IInv, Ping!TypeOK, Ping!PacketsAreCounted, Ping!QuickIsSound

(* A loss of everything is above every threshold. *)
LEMMA AllLost ==
    ASSUME NEW n \in Nat, n > 0
    PROVE  (n * 100) \div n = 100
  OBVIOUS

LEMMA PingStep ==
    ASSUME Ping!IInv, [Ping!Next]_(Ping!vars)
    PROVE  Ping!IInv'
  <1>1. Ping!TypeOK /\ Ping!PacketsAreCounted /\ Ping!QuickIsSound
    BY DEF Ping!IInv
  <1>2. CASE UNCHANGED Ping!vars
    BY <1>1, <1>2 DEF Ping!vars, Ping!IInv, Ping!TypeOK, Ping!PacketsAreCounted, Ping!QuickIsSound, Ping!SoFarFine,
                      Ping!STATE_OK, Ping!STATE_WARNING
  <1>3. CASE Ping!Setup \/ Ping!Done \/ Ping!Alarm
    <2>1. /\ UNCHANGED <<asked, packets, quick, num, dropped, rta>> /\ pc # "exited"
          /\ \/ pc = "setup" /\ pc' = "send" /\ code' = code
             \/ pc = "send" /\ pc' = "report" /\ code' = code /\ packets <= 0
             \/ pc' = "exited" /\ code' \in {2, 3}
      BY <1>3 DEF Ping!Setup, Ping!Done, Ping!Alarm, Ping!Exit, Ping!counts, Ping!STATE_CRITICAL, Ping!STATE_UNKNOWN
    <2> QED
      BY <1>1, <2>1 DEF Ping!IInv, Ping!TypeOK, Ping!PacketsAreCounted, Ping!QuickIsSound,
                        Ping!STATE_OK, Ping!STATE_WARNING
  <1>4. CASE Ping!Ping
    <2>1. /\ pc = "send" /\ packets > 0 /\ UNCHANGED <<asked, quick>>
      BY <1>4 DEF Ping!Ping
    <2>2. packets + num = asked /\ code = -1 /\ packets \in Int /\ num \in Nat /\ dropped \in 0 .. num /\ rta \in Int
          /\ asked \in Int
      BY <1>1, <2>1 DEF Ping!TypeOK, Ping!PacketsAreCounted
    <2>3. CASE pc' = "exited" /\ code' \in {2, 3} /\ UNCHANGED <<packets, num, dropped, rta>>
      BY <1>1, <2>1, <2>3 DEF Ping!IInv, Ping!TypeOK, Ping!PacketsAreCounted, Ping!QuickIsSound,
                              Ping!STATE_OK, Ping!STATE_WARNING
    <2>4. ASSUME NEW rt \in Latencies \cup {-1}, num' = num + 1, rta' = rta + rt, code' = code,
                 dropped' = dropped + 1 \/ dropped' = dropped,
                 \/ pc' = pc /\ packets' = packets - 1
                 \/ pc' = "report" /\ packets' = packets /\ quick /\ Ping!Fine
          PROVE  Ping!IInv'
      <3>1. num' \in Nat /\ num' > 0 /\ dropped' \in 0 .. num' /\ rta' \in Int /\ packets' \in Int /\ ~(packets' < 0)
        <4>1. rt \in Int
          BY ServicesAssumption
        <4> QED
          BY <2>1, <2>2, <2>4, <4>1
      <3>2. pc' = "send" => packets' + num' = asked
        BY <2>1, <2>2, <2>4
      <3>3. pc' = "report" => quick' /\ Ping!SoFarFine'
        <4> SUFFICES ASSUME pc' = "report" PROVE quick' /\ Ping!SoFarFine'
          OBVIOUS
        <4>1. quick' /\ Ping!Fine
          BY <2>1, <2>4
        <4> DEFINE loss == (dropped' * 100) \div num'
        <4>2. RtaCritical * num' \in Int /\ RtaWarning * num' \in Int /\ loss \in Int
          BY <3>1, ServicesAssumption
        <4>3. ~(rta' > RtaCritical * num') /\ ~(rta' > RtaWarning * num')
              /\ ~(loss > LostCritical) /\ ~(loss > LostWarning)
          BY <4>1 DEF Ping!Fine, Ping!rta_status, Ping!lost_status, Ping!Lost, Ping!STATE_OK, Ping!STATE_WARNING,
                      Ping!STATE_CRITICAL
        <4>4. LostCritical \in Nat /\ LostWarning \in Nat
          BY ServicesAssumption
        <4>5. PICK rc1, rw1, l1 \in Int : rc1 = RtaCritical * num' /\ rw1 = RtaWarning * num' /\ l1 = loss
          BY <4>2
        <4> HIDE DEF loss
        <4>6. ~(rta' > rc1) /\ ~(rta' > rw1) /\ ~(l1 > LostCritical) /\ ~(l1 > LostWarning)
          BY <4>3, <4>5
        <4>7. rta' <= rc1 /\ rta' <= rw1 /\ l1 <= LostCritical /\ l1 <= LostWarning
          BY <3>1, <4>4, <4>6
        <4> QED
          BY <3>1, <4>1, <4>5, <4>7 DEF Ping!SoFarFine, loss
      <3> QED
        BY <1>1, <2>1, <2>2, <2>4, <3>1, <3>2, <3>3
           DEF Ping!IInv, Ping!TypeOK, Ping!PacketsAreCounted, Ping!QuickIsSound
    <2> QED
      BY <1>4, <2>3, <2>4 DEF Ping!Ping, Ping!Exit, Ping!counts, Ping!LOST, Ping!STATE_CRITICAL, Ping!STATE_UNKNOWN
  <1>5. CASE Ping!Report
    <2>1. /\ pc = "report" /\ pc' = "exited" /\ UNCHANGED <<asked, packets, quick, num, dropped, rta>>
      BY <1>5 DEF Ping!Report, Ping!Exit, Ping!counts
    <2>2. /\ asked \in Int /\ packets \in Int /\ num \in Nat /\ dropped \in 0 .. num /\ rta \in Int
          /\ quick \in BOOLEAN /\ (packets < 0 => num = 0)
          /\ (packets <= 0 /\ packets + num = asked) \/ (quick /\ Ping!SoFarFine)
      BY <1>1, <2>1 DEF Ping!TypeOK, Ping!PacketsAreCounted
    <2> DEFINE loss == (dropped * 100) \div num
    <2>3. code' = IF num = 0 THEN 2
                  ELSE IF Ping!rta_status > Ping!lost_status THEN Ping!rta_status ELSE Ping!lost_status
      BY <1>5 DEF Ping!Report, Ping!Exit, Ping!STATE_CRITICAL
    <2>4. /\ Ping!rta_status = IF rta > RtaCritical * num THEN 2 ELSE IF rta > RtaWarning * num THEN 1 ELSE 0
          /\ Ping!lost_status = IF loss > LostCritical THEN 2 ELSE IF loss > LostWarning THEN 1 ELSE 0
      BY <2>1 DEF Ping!rta_status, Ping!lost_status, Ping!Lost, Ping!STATE_OK, Ping!STATE_WARNING, Ping!STATE_CRITICAL
    <2>5. ASSUME num # 0
          PROVE  /\ loss \in Int /\ RtaCritical * num \in Int /\ RtaWarning * num \in Int
                 /\ dropped = num => loss = 100
      BY <2>2, <2>5, AllLost, ServicesAssumption
    <2>6. LostCritical \in 0 .. 99 /\ LostWarning \in 0 .. 99
      BY ServicesAssumption
    <2>7. ASSUME code' = 0
          PROVE  dropped < num
      <3>1. num # 0
        BY <2>3, <2>7
      <3>2. Ping!lost_status = 0
        BY <2>3, <2>4, <2>7, <3>1
      <3>3. ~(loss > LostWarning)
        BY <2>4, <3>2
      <3>4. dropped # num
        BY <2>5, <2>6, <3>1, <3>3
      <3> QED
        BY <2>2, <3>4
    <2>8. ASSUME quick, Ping!SoFarFine
          PROVE  code' = 0
      <3>1. num # 0 /\ rta <= RtaCritical * num /\ rta <= RtaWarning * num /\ loss <= LostCritical /\ loss <= LostWarning
        BY <2>2, <2>8 DEF Ping!SoFarFine
      <3> HIDE DEF loss
      <3>2. PICK a, b \in Int : a = RtaCritical * num /\ b = RtaWarning * num
        BY <2>5, <3>1
      <3>3. ~(rta > a) /\ ~(rta > b) /\ ~(loss > LostCritical) /\ ~(loss > LostWarning)
        BY <2>2, <2>5, <2>6, <3>1, <3>2
      <3>4. Ping!rta_status = 0 /\ Ping!lost_status = 0
        BY <2>4, <3>2, <3>3
      <3> QED
        BY <2>3, <3>1, <3>4
    <2>9. ASSUME ~(quick /\ Ping!SoFarFine), num # 0
          PROVE  num = asked
      BY <2>2, <2>9
    <2>10. Ping!QuickIsSound'
      BY <2>1, <2>3, <2>7, <2>8, <2>9 DEF Ping!QuickIsSound, Ping!STATE_OK, Ping!STATE_WARNING
    <2> QED
      BY <1>1, <2>1, <2>10 DEF Ping!IInv, Ping!TypeOK, Ping!PacketsAreCounted
  <1> QED
    BY <1>2, <1>3, <1>4, <1>5 DEF Ping!Next, Ping!Terminated

(* The invariant of check_oping. *)
THEOREM PingInvariant == Spec => [](check = "ping" => Ping!IInv)
  <1>1. Init => (check = "ping" => Ping!IInv)
    BY PingInit DEF Init
  <1>2. (check = "ping" => Ping!IInv) /\ [Next]_vars => (check = "ping" => Ping!IInv)'
    BY OneCheck, PingStep
  <1> QED
    BY <1>1, <1>2, PTL DEF Spec

(* A quick check_oping gives up early only to be OK, and a host that lost every
   packet is never OK, for all thresholds below 100 percent. *)
THEOREM QuickWasSound == Spec => []QuickIsSound
  <1>1. (check = "ping" => Ping!IInv) => QuickIsSound
    BY DEF QuickIsSound, Ping!IInv
  <1> QED
    BY <1>1, PingInvariant, PTL

-----------------------------------------------------------------------------
(* check_nfs and check_rpc_ping                                             *)

LEMMA RpcInit ==
    ASSUME Rpc!Init
    PROVE  Rpc!IInv
  <1>1. /\ plugin \in {"check_nfs", "check_rpc_ping"} /\ i = 1 /\ j = 1 /\ step = Rpc!First /\ pc = "start"
        /\ rpcversion \in Seq(STRING) \ {<<>>} /\ rpctransport \in Seq(STRING) \ {<<>>}
        /\ failed = {} /\ warn = {} /\ world = {} /\ code = -1
    BY ServicesAssumption DEF Rpc!Init
  <1>2. /\ Len(rpcversion) \in Nat /\ Len(rpcversion) # 0 /\ DOMAIN rpcversion = 1 .. Len(rpcversion)
        /\ Len(rpctransport) \in Nat /\ Len(rpctransport) # 0 /\ DOMAIN rpctransport = 1 .. Len(rpctransport)
    BY <1>1, TopFacts
  <1>3. Rpc!TypeOK
    BY <1>1, <1>2 DEF Rpc!TypeOK, Rpc!First, Rpc!Steps
  <1>4. Rpc!PastIsNoted
    <2>1. ASSUME NEW a \in DOMAIN rpcversion, NEW b \in DOMAIN rpctransport, NEW s \in Rpc!Steps
          PROVE  ~Rpc!Past(a, b, s)
      <3>1. ~(a < i) /\ ~(b < j)
        BY <1>1, <1>2
      <3>2. ~(s = "export" /\ step = "ping")
        BY <1>1 DEF Rpc!First, Rpc!Steps
      <3> QED
        BY <3>1, <3>2 DEF Rpc!Past
    <2> QED
      BY <2>1 DEF Rpc!PastIsNoted
  <1> QED
    BY <1>1, <1>2, <1>3, <1>4
       DEF Rpc!IInv, Rpc!NotedIsJudged, Rpc!ExitIsRight, Rpc!STATE_OK, Rpc!STATE_WARNING

(* The loops leave nothing out: what is past after a step was past before it or
   is what the step did. *)
LEMMA NothingSkipped ==
    ASSUME Rpc!TypeOK, i <= Len(rpcversion), Rpc!Advance, UNCHANGED <<plugin, rpcversion, rpctransport>>,
           NEW a \in DOMAIN rpcversion, NEW b \in DOMAIN rpctransport, NEW s \in Rpc!Steps, Rpc!Past(a, b, s)'
    PROVE  Rpc!Past(a, b, s) \/ (a = i /\ b = j /\ s = step)
  <1>1. /\ i \in Nat /\ j \in Nat /\ a \in Nat /\ b \in Nat /\ b <= Len(rpctransport) /\ 1 <= b
        /\ Len(rpctransport) \in Nat /\ j <= Len(rpctransport)
    <2>1. rpcversion \in Seq(STRING) /\ rpctransport \in Seq(STRING)
      BY DEF Rpc!TypeOK
    <2>2. /\ Len(rpcversion) \in Nat /\ DOMAIN rpcversion = 1 .. Len(rpcversion)
          /\ Len(rpctransport) \in Nat /\ DOMAIN rpctransport = 1 .. Len(rpctransport)
      BY <2>1, TopFacts
    <2> QED
      BY <2>2 DEF Rpc!TypeOK
  <1>2. s \in {"export", "ping"} /\ step \in {"export", "ping"}
    BY DEF Rpc!TypeOK, Rpc!Steps
  <1>3. CASE step = "export"
    <2>1. i' = i /\ j' = j
      BY <1>3 DEF Rpc!Advance
    <2> QED
      BY <1>2, <1>3, <2>1 DEF Rpc!Past
  <1>4. CASE step = "ping"
    <2>1. step' = Rpc!First
      BY <1>4 DEF Rpc!Advance
    <2>2. ~(s = "export" /\ step' = "ping")
      BY <2>1 DEF Rpc!First, Rpc!Steps
    <2>3. a < i' \/ (a = i' /\ b < j')
      BY <2>2 DEF Rpc!Past
    <2>4. CASE j < Len(rpctransport)
      <3>1. i' = i /\ j' = j + 1
        BY <1>4, <2>4 DEF Rpc!Advance
      <3>2. a < i \/ (a = i /\ b < j) \/ (a = i /\ b = j)
        BY <1>1, <2>3, <3>1
      <3> QED
        BY <1>2, <1>4, <3>2 DEF Rpc!Past
    <2>5. CASE ~(j < Len(rpctransport))
      <3>1. i' = i + 1 /\ j' = 1
        BY <1>4, <2>5 DEF Rpc!Advance
      <3>2. a < i \/ (a = i /\ b < j) \/ (a = i /\ b = j)
        BY <1>1, <2>3, <2>5, <3>1
      <3> QED
        BY <1>2, <1>4, <3>2 DEF Rpc!Past
    <2> QED
      BY <2>4, <2>5
  <1> QED
    BY <1>2, <1>3, <1>4

(* The loops stay within the lists and end with a report. *)
LEMMA LoopsGoOn ==
    ASSUME Rpc!TypeOK, i <= Len(rpcversion), Rpc!Advance
    PROVE  /\ i' \in 1 .. Len(rpcversion) + 1 /\ j' \in 1 .. Len(rpctransport) /\ step' \in Rpc!Steps
           /\ \/ pc' = "create" /\ code' = code /\ i' <= Len(rpcversion)
              \/ pc' = "exited" /\ Rpc!Report /\ i' > Len(rpcversion)
  <1>1. /\ i \in Nat /\ j \in Nat /\ 1 <= i /\ 1 <= j /\ j <= Len(rpctransport)
        /\ Len(rpcversion) \in Nat /\ Len(rpctransport) \in Nat
        /\ step \in {"export", "ping"} /\ ("export" = step => plugin = "check_nfs")
        /\ plugin \in {"check_nfs", "check_rpc_ping"}
    <2>1. rpcversion \in Seq(STRING) /\ rpctransport \in Seq(STRING)
      BY DEF Rpc!TypeOK
    <2>2. Len(rpcversion) \in Nat /\ Len(rpctransport) \in Nat
      BY <2>1, TopFacts
    <2>3. i \in 1 .. Len(rpcversion) + 1 /\ j \in 1 .. Len(rpctransport)
      BY DEF Rpc!TypeOK
    <2>4. /\ step \in {"export", "ping"} /\ ("export" = step => plugin = "check_nfs")
          /\ plugin \in {"check_nfs", "check_rpc_ping"}
      BY DEF Rpc!TypeOK, Rpc!Steps
    <2> QED
      BY <2>2, <2>3, <2>4
  <1>2. /\ i' \in 1 .. Len(rpcversion) + 1 /\ j' \in 1 .. Len(rpctransport) /\ step' \in Rpc!Steps
        /\ \/ pc' = "create" /\ code' = code /\ i' <= Len(rpcversion)
           \/ pc' = "exited" /\ Rpc!Report /\ i' > Len(rpcversion)
    <2>1. CASE step = "export"
      <3>1. step' = "ping" /\ pc' = "create" /\ i' = i /\ j' = j /\ code' = code
        BY <2>1 DEF Rpc!Advance
      <3>2. step' \in Rpc!Steps
        BY <1>1, <2>1, <3>1 DEF Rpc!Steps
      <3>3. i' \in 1 .. Len(rpcversion) + 1 /\ j' \in 1 .. Len(rpctransport) /\ i' <= Len(rpcversion)
        BY <1>1, <3>1
      <3> QED
        BY <3>1, <3>2, <3>3
    <2>2. CASE step = "ping"
      <3>1. /\ step' = Rpc!First
            /\ j' = IF j < Len(rpctransport) THEN j + 1 ELSE 1
            /\ i' = IF j < Len(rpctransport) THEN i ELSE i + 1
            /\ \/ j = Len(rpctransport) /\ i = Len(rpcversion) /\ Rpc!Report
               \/ ~(j = Len(rpctransport) /\ i = Len(rpcversion)) /\ pc' = "create" /\ code' = code
        BY <2>2 DEF Rpc!Advance
      <3>2. step' \in Rpc!Steps
        BY <1>1, <3>1 DEF Rpc!First, Rpc!Steps
      <3>3. Rpc!Report => pc' = "exited"
        BY DEF Rpc!Report, Rpc!Exit
      <3>4. j' \in 1 .. Len(rpctransport) /\ i' \in 1 .. Len(rpcversion) + 1
        BY <1>1, <3>1
      <3>5. CASE j = Len(rpctransport) /\ i = Len(rpcversion)
        <4>1. i' > Len(rpcversion)
          BY <1>1, <3>1, <3>5
        <4> QED
          BY <3>1, <3>2, <3>3, <3>4, <3>5, <4>1
      <3>6. CASE ~(j = Len(rpctransport) /\ i = Len(rpcversion))
        <4>1. i' <= Len(rpcversion)
          BY <1>1, <3>1, <3>6
        <4> QED
          BY <3>1, <3>2, <3>4, <3>6, <4>1
      <3> QED
        BY <3>5, <3>6
    <2> QED
      BY <1>1, <2>1, <2>2
  <1> QED
    BY <1>2

(* A bad result that is noted is reported. *)
LEMMA ReportIsRight ==
    ASSUME Rpc!Report
    PROVE  (code' \in {0, 1} => failed' = {}) /\ (code' = 0 => warn' = {})
  BY DEF Rpc!Report, Rpc!Exit, Rpc!STATE_OK, Rpc!STATE_WARNING, Rpc!STATE_CRITICAL

(* What has not ended has no verdict. *)
LEMMA StillRunning ==
    ASSUME code = -1
    PROVE  code \notin {0, 1}
  OBVIOUS

(* A result is noted and judged, and the loops go on. *)
LEMMA RpcAdvance ==
    ASSUME Rpc!IInv, pc \in {"create", "call"}, Rpc!Advance, UNCHANGED <<plugin, rpcversion, rpctransport>>,
           NEW r \in {"fast", "slow", "real slow", "failed"}, Rpc!Note(r),
           failed \subseteq failed', warn \subseteq warn',
           r \in {"failed", "real slow"} => Rpc!Pair \in failed', r = "slow" => Rpc!Pair \in warn'
    PROVE  Rpc!IInv'
  <1>1. Rpc!TypeOK /\ Rpc!PastIsNoted /\ Rpc!NotedIsJudged /\ Rpc!ExitIsRight
    BY DEF Rpc!IInv
  <1>2. i <= Len(rpcversion) /\ code = -1
    BY <1>1 DEF Rpc!ExitIsRight
  <1>3. world' = world \cup {<<Rpc!Called(i, j, step), step, r>>}
    BY DEF Rpc!Note
  <1>4. Rpc!PastIsNoted'
    <2>1. ASSUME NEW a \in DOMAIN rpcversion, NEW b \in DOMAIN rpctransport, NEW s \in Rpc!Steps, Rpc!Past(a, b, s)'
          PROVE  \E q \in Rpc!Results : <<Rpc!Called(a, b, s), s, q>> \in world'
      <3>1. CASE Rpc!Past(a, b, s)
        BY <1>1, <1>3, <3>1 DEF Rpc!PastIsNoted
      <3>2. CASE a = i /\ b = j /\ s = step
        BY <1>3, <3>2 DEF Rpc!Results
      <3> QED
        BY <1>1, <1>2, <2>1, <3>1, <3>2, NothingSkipped
    <2>2. rpcversion' = rpcversion /\ rpctransport' = rpctransport /\ Rpc!Steps' = Rpc!Steps
      BY DEF Rpc!Steps
    <2> QED
      BY <2>1, <2>2 DEF Rpc!PastIsNoted, Rpc!Past, Rpc!Called
  <1>5. Rpc!NotedIsJudged'
    <2> SUFFICES ASSUME NEW e \in world'
                 PROVE  (e[3] \in {"failed", "real slow"} => failed' # {}) /\ (e[3] = "slow" => warn' # {})
      BY DEF Rpc!NotedIsJudged
    <2>1. CASE e \in world
      BY <1>1, <2>1 DEF Rpc!NotedIsJudged
    <2>2. CASE e = <<Rpc!Called(i, j, step), step, r>>
      <3>1. e[3] = r
        BY <2>2
      <3> QED
        BY <3>1
    <2> QED
      BY <1>3, <2>1, <2>2
  <1>7. /\ i' \in 1 .. Len(rpcversion) + 1 /\ j' \in 1 .. Len(rpctransport) /\ step' \in Rpc!Steps
        /\ \/ pc' = "create" /\ code' = code /\ i' <= Len(rpcversion)
           \/ pc' = "exited" /\ Rpc!Report /\ i' > Len(rpcversion)
    BY <1>1, <1>2, LoopsGoOn
  <1>8. Rpc!TypeOK'
    <2>1. pc' \in {"start", "create", "call", "exited", "crashed"}
      BY <1>7
    <2>2. Rpc!Steps' = Rpc!Steps
      BY DEF Rpc!Steps
    <2> QED
      BY <1>1, <1>7, <2>1, <2>2 DEF Rpc!TypeOK
  <1>9. Rpc!ExitIsRight'
    <2>1. CASE pc' = "create" /\ code' = code /\ i' <= Len(rpcversion)
      <3>1. code' = -1 /\ pc' = "create" /\ i' <= Len(rpcversion) /\ rpcversion' = rpcversion
        BY <1>2, <2>1
      <3>2. code' \notin {0, 1}
        BY <1>2, <2>1, StillRunning
      <3> QED
        BY <3>1, <3>2 DEF Rpc!ExitIsRight, Rpc!STATE_OK, Rpc!STATE_WARNING
    <2>2. CASE pc' = "exited" /\ Rpc!Report /\ i' > Len(rpcversion)
      <3>1. (code' \in {0, 1} => failed' = {}) /\ (code' = 0 => warn' = {})
        BY <2>2, ReportIsRight
      <3> QED
        BY <2>2, <3>1 DEF Rpc!ExitIsRight, Rpc!STATE_OK, Rpc!STATE_WARNING
    <2> QED
      BY <1>7, <2>1, <2>2
  <1> QED
    BY <1>4, <1>5, <1>8, <1>9 DEF Rpc!IInv

LEMMA RpcStep ==
    ASSUME Rpc!IInv, [Rpc!Next]_(Rpc!vars)
    PROVE  Rpc!IInv'
  <1>1. Rpc!TypeOK /\ Rpc!PastIsNoted /\ Rpc!NotedIsJudged /\ Rpc!ExitIsRight
    BY DEF Rpc!IInv
  <1>2. ASSUME UNCHANGED <<plugin, rpcversion, rpctransport, i, j, step, failed, warn, world>>,
               \/ UNCHANGED <<pc, code>>
               \/ pc \in {"start", "create", "call"} /\ pc' \in {"create", "call", "crashed"} /\ code' = code
               \/ pc' = "exited" /\ code' \in {2, 3}
        PROVE  Rpc!IInv'
    <2>1. Rpc!TypeOK'
      <3>1. pc' \in {"start", "create", "call", "exited", "crashed"}
        BY <1>1, <1>2 DEF Rpc!TypeOK
      <3>2. Rpc!Steps' = Rpc!Steps
        BY <1>2 DEF Rpc!Steps
      <3> QED
        BY <1>1, <1>2, <3>1, <3>2 DEF Rpc!TypeOK
    <2>2. Rpc!PastIsNoted'
      <3>1. Rpc!Steps' = Rpc!Steps
        BY <1>2 DEF Rpc!Steps
      <3> QED
        BY <1>1, <1>2, <3>1 DEF Rpc!PastIsNoted, Rpc!Past, Rpc!Called
    <2>3. Rpc!NotedIsJudged'
      BY <1>1, <1>2 DEF Rpc!NotedIsJudged
    <2>4. Rpc!ExitIsRight'
      BY <1>1, <1>2 DEF Rpc!ExitIsRight, Rpc!STATE_OK, Rpc!STATE_WARNING
    <2> QED
      BY <2>1, <2>2, <2>3, <2>4 DEF Rpc!IInv
  <1>3. CASE UNCHANGED Rpc!vars
    BY <1>2, <1>3 DEF Rpc!vars
  <1>4. CASE Rpc!rpc_getrpcent \/ Rpc!Alarm
    BY <1>2, <1>4 DEF Rpc!rpc_getrpcent, Rpc!Alarm, Rpc!Exit, Rpc!given, Rpc!judged, Rpc!STATE_UNKNOWN,
                      Rpc!STATE_CRITICAL
  <1>5. CASE Rpc!clnt_create
    <2>1. CASE client' = "live" /\ pc' = "call" /\ UNCHANGED <<i, j, step, Rpc!judged, code>>
      BY <1>2, <1>5, <2>1 DEF Rpc!clnt_create, Rpc!given, Rpc!judged
    <2>2. CASE failed' = failed \cup {Rpc!Pair} /\ Rpc!Note("failed") /\ Rpc!Advance /\ UNCHANGED warn
      BY <1>5, <2>2, RpcAdvance DEF Rpc!clnt_create, Rpc!given
    <2> QED
      BY <1>5, <2>1, <2>2 DEF Rpc!clnt_create
  <1>6. CASE Rpc!clnt_call
    <2>1. PICK r \in {"fast", "failed", "slow", "real slow"} :
             /\ Rpc!Note(r)
             /\ failed' = IF r \in {"failed", "real slow"} THEN failed \cup {Rpc!Pair} ELSE failed
             /\ warn' = IF r = "slow" THEN warn \cup {Rpc!Pair} ELSE warn
      BY <1>6 DEF Rpc!clnt_call
    <2>2. pc = "call" /\ Rpc!Advance /\ UNCHANGED <<plugin, rpcversion, rpctransport>>
      BY <1>6 DEF Rpc!clnt_call, Rpc!given
    <2> QED
      BY <2>1, <2>2, RpcAdvance
  <1> QED
    BY <1>3, <1>4, <1>5, <1>6 DEF Rpc!Next, Rpc!Terminated

(* The invariant of the loops over versions and transports. *)
THEOREM RpcInvariant == Spec => [](check = "rpc" => Rpc!IInv)
  <1>1. Init => (check = "rpc" => Rpc!IInv)
    BY RpcInit DEF Init
  <1>2. (check = "rpc" => Rpc!IInv) /\ [Next]_vars => (check = "rpc" => Rpc!IInv)'
    BY OneCheck, RpcStep
  <1> QED
    BY <1>1, <1>2, PTL DEF Spec

(* check_nfs and check_rpc_ping are OK or a warning only after every version was
   called over every transport, for check_nfs also version 3 of mountd for its
   exports, and no bad result is made up for by another, for all lists of
   versions and transports. *)
THEOREM EveryPairCounted == Spec => []EveryPairCounts
  <1>1. ASSUME Rpc!IInv
        PROVE  Rpc!EveryPairCounts
    <2> SUFFICES ASSUME code \in {0, 1}, NEW v \in Rpc!ToSet(rpcversion), NEW t \in Rpc!ToSet(rpctransport),
                        NEW s \in Rpc!Steps
                 PROVE  LET call == <<IF s = "export" THEN "3" ELSE v, t>>
                        IN  /\ \E q \in Rpc!Results : <<call, s, q>> \in world
                            /\ \A q \in Rpc!Results : <<call, s, q>> \in world =>
                                  q \in IF code = 0 THEN {"fast"} ELSE {"fast", "slow"}
      BY DEF Rpc!EveryPairCounts, Rpc!STATE_OK, Rpc!STATE_WARNING
    <2> DEFINE call == <<IF s = "export" THEN "3" ELSE v, t>>
    <2>1. PICK a \in DOMAIN rpcversion, b \in DOMAIN rpctransport : v = rpcversion[a] /\ t = rpctransport[b]
      BY DEF Rpc!ToSet
    <2>2. i > Len(rpcversion) /\ failed = {} /\ (code = 0 => warn = {})
      BY <1>1 DEF Rpc!IInv, Rpc!ExitIsRight, Rpc!STATE_OK, Rpc!STATE_WARNING
    <2>3. a < i
      <3>1. rpcversion \in Seq(STRING) /\ i \in 1 .. Len(rpcversion) + 1
        BY <1>1 DEF Rpc!IInv, Rpc!TypeOK
      <3>2. Len(rpcversion) \in Nat /\ DOMAIN rpcversion = 1 .. Len(rpcversion)
        BY <3>1, TopFacts
      <3> QED
        BY <2>2, <3>1, <3>2
    <2>4. \E q \in Rpc!Results : <<call, s, q>> \in world
      <3>1. call = Rpc!Called(a, b, s)
        BY <2>1 DEF Rpc!Called
      <3> HIDE DEF call
      <3> QED
        BY <1>1, <2>3, <3>1 DEF Rpc!IInv, Rpc!PastIsNoted, Rpc!Past
    <2> HIDE DEF call
    <2>5. ASSUME NEW q \in Rpc!Results, <<call, s, q>> \in world
          PROVE  q \in IF code = 0 THEN {"fast"} ELSE {"fast", "slow"}
      <3>1. PICK e \in world : e = <<call, s, q>>
        BY <2>5
      <3>2. e[3] = q
        BY <3>1
      <3>3. (e[3] \in {"failed", "real slow"} => failed # {}) /\ (e[3] = "slow" => warn # {})
        BY <1>1, <3>1 DEF Rpc!IInv, Rpc!NotedIsJudged
      <3> QED
        BY <2>2, <3>2, <3>3 DEF Rpc!Results
    <2> QED
      BY <2>4, <2>5 DEF call
  <1>2. (check = "rpc" => Rpc!IInv) => EveryPairCounts
    BY <1>1 DEF EveryPairCounts
  <1> QED
    BY <1>2, RpcInvariant, PTL

-----------------------------------------------------------------------------
(* check_clustat                                                            *)

(* A domain with members has a best node, and nobody is better than it. *)
LEMMA BestNode ==
    ASSUME Cluster!TypeOK, NEW g \in Groups, Cluster!Bound(g)
    PROVE  /\ \E b \in Nodes : Cluster!prio(g, b) = Cluster!bestprio(g)
           /\ Cluster!bestprio(g) \in 0 .. 999
           /\ \A n : Cluster!prio(g, n) \in 0 .. 1000 /\ Cluster!bestprio(g) <= Cluster!prio(g, n)
           /\ Cluster!prio(g, "NULL") = 1000
  <1> DEFINE f == Cluster!node(g)
             T == {f[n] : n \in DOMAIN f}
  <1>1. f \in Cluster!Domains \cup {<<>>} /\ DOMAIN f # {}
    BY DEF Cluster!TypeOK, Cluster!Bound, Cluster!node
  <1>3. \A n : Cluster!prio(g, n) = IF n \in DOMAIN f THEN f[n] ELSE 1000
    BY DEF Cluster!prio, Cluster!INT_MAX
  <1>4. Cluster!bestprio(g) = Cluster!Min(T \cup {1000})
    BY DEF Cluster!bestprio, Cluster!INT_MAX
  <1> HIDE DEF f, T
  <1>2. DOMAIN f \subseteq Nodes /\ \A n \in DOMAIN f : f[n] \in 0 .. 999
    <2>1. f # <<>>
      <3>1. DOMAIN <<>> = {}
        OBVIOUS
      <3> QED
        BY <1>1, <3>1
    <2>2. PICK S \in SUBSET Nodes : f \in [S -> Priorities]
      BY <1>1, <2>1 DEF Cluster!Domains
    <2>3. Priorities \subseteq 0 .. 999
      BY ServicesAssumption
    <2>4. DOMAIN f = S /\ \A n \in S : f[n] \in Priorities
      BY <2>2
    <2> QED
      BY <2>3, <2>4
  <1>5. "NULL" \notin Nodes
    BY ServicesAssumption
  <1>6. T \subseteq Nat /\ T # {} /\ (\A x \in T : x <= 999)
    <2>1. PICK n \in DOMAIN f : TRUE
      BY <1>1
    <2>2. f[n] \in T
      BY <2>1 DEF T
    <2>3. ASSUME NEW x \in T
          PROVE  x \in Nat /\ x <= 999
      <3>1. PICK m \in DOMAIN f : x = f[m]
        BY DEF T
      <3>2. x \in 0 .. 999
        BY <1>2, <3>1
      <3> QED
        BY <3>2
    <2> QED
      BY <2>2, <2>3
  <1>7. PICK b \in DOMAIN f : \A n \in DOMAIN f : f[b] <= f[n]
    <2>1. PICK x \in T : \A y \in T : x <= y
      BY <1>6, LeastNat
    <2> QED
      BY <2>1 DEF T
  <1>8. Cluster!bestprio(g) = f[b]
    <2>1. f[b] \in T \cup {1000} /\ \A x \in T \cup {1000} : f[b] <= x
      BY <1>2, <1>6, <1>7 DEF T
    <2>2. \A x \in T \cup {1000} : x \in Int
      BY <1>6
    <2>3. \A x \in T \cup {1000} : (\A y \in T \cup {1000} : x <= y) => x = f[b]
      BY <2>1, <2>2
    <2> QED
      BY <1>4, <2>1, <2>3 DEF Cluster!Min
  <1>9. \A n : Cluster!prio(g, n) \in 0 .. 1000 /\ f[b] <= Cluster!prio(g, n)
    BY <1>2, <1>3, <1>7
  <1> QED
    BY <1>2, <1>3, <1>5, <1>7, <1>8, <1>9

(* A service is misplaced exactly when one of the nodes finds so. *)
LEMMA SomeNodeKnows ==
    ASSUME Cluster!TypeOK, NEW g \in Groups
    PROVE  Cluster!Misplaced(g) <=> \E n \in Nodes : Cluster!Warns(n, g)
  <1>1. CASE ~Cluster!Bound(g)
    BY <1>1 DEF Cluster!Misplaced, Cluster!Warns
  <1>2. CASE Cluster!Bound(g)
    <2> DEFINE o == owner[g]
               p(n) == Cluster!prio(g, n)
               best == Cluster!bestprio(g)
    <2>1. /\ \E b \in Nodes : p(b) = best
          /\ best \in 0 .. 999
          /\ \A n : p(n) \in 0 .. 1000 /\ best <= p(n)
          /\ p("NULL") = 1000
      BY <1>2, BestNode
    <2>2. Cluster!Misplaced(g) <=> p(o) # best
      BY <1>2 DEF Cluster!Misplaced
    <2>3. \A n : Cluster!Warns(n, g) <=> \/ o = n /\ p(n) > best
                                         \/ o # n /\ p(n) < p(o)
                                         \/ o = "NULL" /\ p(n) = best /\ conf[g].autostart
      BY <1>2 DEF Cluster!Warns
    <2> HIDE DEF o, p, best
    <2>4. ASSUME p(o) # best
          PROVE  \E n \in Nodes : Cluster!Warns(n, g)
      <3>1. PICK b \in Nodes : p(b) = best
        BY <2>1
      <3>2. o # b /\ p(b) < p(o)
        BY <2>1, <2>4, <3>1
      <3> QED
        BY <2>3, <3>2
    <2>5. ASSUME NEW n \in Nodes, Cluster!Warns(n, g)
          PROVE  p(o) # best
      <3>1. CASE o = n /\ p(n) > best
        BY <2>1, <3>1
      <3>2. CASE o # n /\ p(n) < p(o)
        BY <2>1, <3>2
      <3>3. CASE o = "NULL"
        <4>1. p(o) = 1000
          BY <2>1, <3>3
        <4> QED
          BY <2>1, <4>1
      <3> QED
        BY <2>3, <2>5, <3>1, <3>2, <3>3
    <2> QED
      BY <2>2, <2>4, <2>5
  <1> QED
    BY <1>1, <1>2

(* What a node finds is a matter of the cluster, which the plugin does not
   change. *)
LEMMA WarnsStay ==
    ASSUME UNCHANGED <<owner, conf>>, NEW n
    PROVE  /\ \A g \in Groups : Cluster!Warns(n, g)' <=> Cluster!Warns(n, g)
           /\ Cluster!NodeWarns(n)' <=> Cluster!NodeWarns(n)
  <1>1. ASSUME NEW g \in Groups
        PROVE  Cluster!Warns(n, g)' <=> Cluster!Warns(n, g)
    BY DEF Cluster!Warns, Cluster!Bound, Cluster!prio, Cluster!bestprio, Cluster!node
  <1>2. Cluster!NodeWarns(n)' <=> Cluster!NodeWarns(n)
    BY DEF Cluster!NodeWarns, Cluster!Warns, Cluster!Bound, Cluster!prio, Cluster!bestprio, Cluster!node
  <1> QED
    BY <1>1, <1>2

LEMMA ClusterInit ==
    ASSUME Cluster!Init
    PROVE  Cluster!IInv
  <1>1. Cluster!TypeOK
    BY DEF Cluster!Init, Cluster!TypeOK
  <1>2. DOMAIN verdict = Nodes /\ (\A n \in Nodes : verdict[n] = -1)
    BY DEF Cluster!Init, Cluster!NONE
  <1>3. \A n \in Nodes : verdict[n] \notin {0, 1}
    BY <1>2
  <1>4. pc = "parse" /\ code = -1 /\ todo = Groups /\ foreign = {} /\ missing = {}
    BY DEF Cluster!Init
  <1> QED
    BY <1>1, <1>2, <1>3, <1>4
       DEF Cluster!IInv, Cluster!LoopIsRight, Cluster!ExitIsRight, Cluster!VerdictsAreRight,
           Cluster!STATE_OK, Cluster!STATE_WARNING

(* The verdicts of the nodes that ran hold on while the plugin runs on another. *)
LEMMA VerdictsStay ==
    ASSUME Cluster!VerdictsAreRight, UNCHANGED <<owner, conf, verdict>>
    PROVE  Cluster!VerdictsAreRight'
  <1> SUFFICES ASSUME NEW n \in Nodes, verdict[n] \in {0, 1}
               PROVE  verdict[n] = 1 <=> Cluster!NodeWarns(n)'
    BY DEF Cluster!VerdictsAreRight, Cluster!STATE_OK, Cluster!STATE_WARNING
  <1>1. verdict[n] = 1 <=> Cluster!NodeWarns(n)
    BY DEF Cluster!VerdictsAreRight, Cluster!STATE_OK, Cluster!STATE_WARNING
  <1> QED
    BY <1>1, WarnsStay

(* The loop looks at one group. *)
LEMMA GroupStep ==
    ASSUME Cluster!IInv, Cluster!Group
    PROVE  Cluster!LoopIsRight'
  <1>1. /\ pc = "groups" /\ code = -1 /\ local \in Nodes /\ todo \subseteq Groups
        /\ \A g \in foreign \cup missing : g \in Groups \ todo /\ Cluster!Warns(local, g)
        /\ \A g \in Groups \ todo : Cluster!Warns(local, g) => g \in foreign \cup missing
    BY DEF Cluster!IInv, Cluster!LoopIsRight, Cluster!TypeOK, Cluster!Group
  <1>2. PICK h \in todo :
           /\ todo' = todo \ {h}
           /\ IF conf[h].service /\ ~conf[h].bound
              THEN pc' = "crashed" /\ UNCHANGED <<foreign, missing>>
              ELSE /\ foreign' = IF Cluster!Bound(h) /\ Cluster!Foreign(h) THEN foreign \cup {h} ELSE foreign
                   /\ missing' = IF Cluster!Bound(h) /\ Cluster!Missing(h) THEN missing \cup {h} ELSE missing
                   /\ UNCHANGED pc
    BY DEF Cluster!Group
  <1>3. local' = local /\ code' = code /\ UNCHANGED <<owner, conf>>
    BY DEF Cluster!Group, Cluster!cluster
  <1>4. CASE conf[h].service /\ ~conf[h].bound
    BY <1>2, <1>4 DEF Cluster!LoopIsRight
  <1>5. CASE ~(conf[h].service /\ ~conf[h].bound)
    <2>1. Cluster!Warns(local, h) <=> Cluster!Bound(h) /\ (Cluster!Foreign(h) \/ Cluster!Missing(h))
      BY DEF Cluster!Warns, Cluster!Foreign, Cluster!Missing
    <2>2. /\ foreign' = IF Cluster!Bound(h) /\ Cluster!Foreign(h) THEN foreign \cup {h} ELSE foreign
          /\ missing' = IF Cluster!Bound(h) /\ Cluster!Missing(h) THEN missing \cup {h} ELSE missing
          /\ pc' = "groups" /\ todo' = todo \ {h} /\ h \in Groups
      BY <1>1, <1>2, <1>5
    <2>3. foreign' \cup missing' = foreign \cup missing \cup IF Cluster!Warns(local, h) THEN {h} ELSE {}
      BY <2>1, <2>2
    <2>4. ASSUME NEW g \in foreign' \cup missing'
          PROVE  g \in Groups \ todo' /\ Cluster!Warns(local, g)
      BY <1>1, <2>2, <2>3
    <2>5. ASSUME NEW g \in Groups \ todo', Cluster!Warns(local, g)
          PROVE  g \in foreign' \cup missing'
      BY <1>1, <2>2, <2>3, <2>5
    <2>6. \A g \in Groups : Cluster!Warns(local, g)' <=> Cluster!Warns(local, g)
      <3>1. PICK n : n = local /\ n = local'
        BY <1>3
      <3>2. \A g \in Groups : Cluster!Warns(n, g)' <=> Cluster!Warns(n, g)
        BY <1>3, WarnsStay
      <3> QED
        BY <3>1, <3>2 DEF Cluster!Warns
    <2> QED
      BY <1>1, <1>3, <2>2, <2>4, <2>5, <2>6 DEF Cluster!LoopIsRight
  <1> QED
    BY <1>4, <1>5

LEMMA ClusterStep ==
    ASSUME Cluster!IInv, [Cluster!Next]_(Cluster!vars)
    PROVE  Cluster!IInv'
  <1>1. /\ Cluster!TypeOK /\ DOMAIN verdict = Nodes /\ Cluster!LoopIsRight /\ Cluster!ExitIsRight
        /\ Cluster!VerdictsAreRight
    BY DEF Cluster!IInv
  <1>2. ASSUME UNCHANGED <<owner, conf, local>>
        PROVE  /\ \A g \in Groups : Cluster!Warns(local, g)' <=> Cluster!Warns(local, g)
               /\ Cluster!NodeWarns(local)' <=> Cluster!NodeWarns(local)
    <2>1. PICK n : n = local /\ n = local'
      BY <1>2
    <2>2. /\ \A g \in Groups : Cluster!Warns(n, g)' <=> Cluster!Warns(n, g)
          /\ Cluster!NodeWarns(n)' <=> Cluster!NodeWarns(n)
      BY <1>2, WarnsStay
    <2> QED
      BY <2>1, <2>2 DEF Cluster!Warns, Cluster!NodeWarns
  <1>3. CASE UNCHANGED Cluster!vars
    <2>1. UNCHANGED <<owner, conf, local, todo, foreign, missing, pc, code, verdict>>
      BY <1>3 DEF Cluster!vars
    <2>2. Cluster!TypeOK'
      BY <1>1, <2>1 DEF Cluster!TypeOK
    <2>3. Cluster!LoopIsRight' /\ Cluster!ExitIsRight'
      BY <1>1, <1>2, <2>1 DEF Cluster!LoopIsRight, Cluster!ExitIsRight, Cluster!STATE_OK, Cluster!STATE_WARNING
    <2> QED
      BY <1>1, <2>1, <2>2, <2>3, VerdictsStay DEF Cluster!IInv
  <1>4. CASE Cluster!Parse
    <2>1. UNCHANGED <<owner, conf, local, todo, foreign, missing, verdict>>
      BY <1>4 DEF Cluster!Parse, Cluster!cluster
    <2>2. pc = "parse" /\ ((pc' \in {"groups", "crashed"} /\ code' = code) \/ (pc' = "exited" /\ code' \in {2, 3}))
      <3>1. \/ pc' = "groups" /\ code' = code
            \/ pc' = "exited" /\ code' = 2
            \/ pc' = "exited" /\ code' = 3
            \/ pc' = "crashed" /\ code' = code
        BY <1>4 DEF Cluster!Parse, Cluster!Exit, Cluster!STATE_CRITICAL, Cluster!STATE_UNKNOWN
      <3>2. pc = "parse"
        BY <1>4 DEF Cluster!Parse
      <3> QED
        BY <3>1, <3>2
    <2>3. Cluster!TypeOK'
      BY <1>1, <2>1, <2>2 DEF Cluster!TypeOK
    <2>4. Cluster!LoopIsRight'
      BY <1>1, <1>2, <2>1, <2>2 DEF Cluster!LoopIsRight
    <2>5. Cluster!ExitIsRight'
      BY <2>2 DEF Cluster!ExitIsRight, Cluster!STATE_OK, Cluster!STATE_WARNING
    <2> QED
      BY <1>1, <2>1, <2>3, <2>4, <2>5, VerdictsStay DEF Cluster!IInv
  <1>5. CASE Cluster!Group
    <2>1. UNCHANGED <<owner, conf, local, code, verdict>> /\ pc' \in {"groups", "crashed"} /\ todo' \subseteq todo
      BY <1>5 DEF Cluster!Group, Cluster!cluster
    <2>2. Cluster!TypeOK'
      BY <1>1, <2>1 DEF Cluster!TypeOK
    <2>3. Cluster!ExitIsRight'
      BY <2>1 DEF Cluster!ExitIsRight
    <2> QED
      BY <1>1, <1>5, <2>1, <2>2, <2>3, GroupStep, VerdictsStay DEF Cluster!IInv
  <1>6. CASE Cluster!Report
    <2>1. /\ UNCHANGED <<owner, conf, local, todo, foreign, missing, verdict>> /\ todo = {} /\ pc = "groups"
          /\ pc' = "exited" /\ code' = IF foreign = {} /\ missing = {} THEN 0 ELSE 1
      BY <1>6 DEF Cluster!Report, Cluster!cluster, Cluster!Exit, Cluster!STATE_OK, Cluster!STATE_WARNING
    <2>2. Cluster!TypeOK'
      BY <1>1, <2>1 DEF Cluster!TypeOK
    <2>3. Cluster!LoopIsRight'
      BY <2>1 DEF Cluster!LoopIsRight
    <2>4. foreign \cup missing # {} <=> Cluster!NodeWarns(local)
      BY <1>1, <2>1 DEF Cluster!LoopIsRight, Cluster!NodeWarns
    <2>5. code' = 1 <=> Cluster!NodeWarns(local)
      <3>1. code' = 1 <=> foreign \cup missing # {}
        BY <2>1
      <3> QED
        BY <2>4, <3>1
    <2>6. Cluster!ExitIsRight'
      BY <1>2, <2>1, <2>5 DEF Cluster!ExitIsRight, Cluster!STATE_WARNING
    <2> QED
      BY <1>1, <2>1, <2>2, <2>3, <2>6, VerdictsStay DEF Cluster!IInv
  <1>7. CASE Cluster!Alarm
    <2>1. /\ UNCHANGED <<owner, conf, local, todo, foreign, missing, verdict>>
          /\ pc' = "exited" /\ code' = 2
      BY <1>7 DEF Cluster!Alarm, Cluster!cluster, Cluster!Exit, Cluster!STATE_CRITICAL
    <2>2. Cluster!TypeOK'
      BY <1>1, <2>1 DEF Cluster!TypeOK
    <2>3. Cluster!LoopIsRight'
      BY <2>1 DEF Cluster!LoopIsRight
    <2>4. Cluster!ExitIsRight'
      BY <2>1 DEF Cluster!ExitIsRight, Cluster!STATE_OK, Cluster!STATE_WARNING
    <2> QED
      BY <1>1, <2>1, <2>2, <2>3, <2>4, VerdictsStay DEF Cluster!IInv
  <1>8. CASE Cluster!NextNode
    <2>1. /\ pc \in {"exited", "crashed"} /\ pc' \in {"parse", "done"} /\ local' \in Nodes
          /\ verdict' = [verdict EXCEPT ![local] = IF pc = "crashed" THEN -2 ELSE code]
          /\ todo' = Groups /\ foreign' = {} /\ missing' = {} /\ code' = -1 /\ UNCHANGED <<owner, conf>>
      BY <1>1, <1>8 DEF Cluster!NextNode, Cluster!cluster, Cluster!TypeOK, Cluster!CRASHED
    <2>2. Cluster!TypeOK'
      BY <1>1, <2>1 DEF Cluster!TypeOK
    <2>3. Cluster!LoopIsRight'
      BY <2>1 DEF Cluster!LoopIsRight
    <2>4. Cluster!ExitIsRight'
      BY <2>1 DEF Cluster!ExitIsRight
    <2>5. Cluster!VerdictsAreRight'
      <3> SUFFICES ASSUME NEW n \in Nodes, verdict'[n] \in {0, 1}
                   PROVE  verdict'[n] = 1 <=> Cluster!NodeWarns(n)'
        BY DEF Cluster!VerdictsAreRight, Cluster!STATE_OK, Cluster!STATE_WARNING
      <3>1. verdict'[n] = 1 <=> Cluster!NodeWarns(n)
        <4>1. CASE n = local
          <5>1. verdict'[n] = IF pc = "crashed" THEN -2 ELSE code
            BY <1>1, <2>1, <4>1
          <5>2. pc = "exited" /\ code \in {0, 1} /\ verdict'[n] = code
            BY <2>1, <5>1
          <5> QED
            BY <1>1, <4>1, <5>2 DEF Cluster!ExitIsRight, Cluster!STATE_OK, Cluster!STATE_WARNING
        <4>2. CASE n # local
          <5>1. verdict'[n] = verdict[n]
            BY <1>1, <2>1, <4>2
          <5> QED
            BY <1>1, <5>1 DEF Cluster!VerdictsAreRight, Cluster!STATE_OK, Cluster!STATE_WARNING
        <4> QED
          BY <4>1, <4>2
      <3> QED
        BY <2>1, <3>1, WarnsStay
    <2>6. DOMAIN verdict' = Nodes
      BY <1>1, <2>1
    <2> QED
      BY <2>2, <2>3, <2>4, <2>5, <2>6 DEF Cluster!IInv
  <1> QED
    BY <1>3, <1>4, <1>5, <1>6, <1>7, <1>8 DEF Cluster!Next, Cluster!Terminated

(* The invariant of check_clustat on one node after the other. *)
THEOREM ClusterInvariant == Spec => [](check = "cluster" => Cluster!IInv)
  <1>1. Init => (check = "cluster" => Cluster!IInv)
    BY ClusterInit DEF Init
  <1>2. (check = "cluster" => Cluster!IInv) /\ [Next]_vars => (check = "cluster" => Cluster!IInv)'
    BY OneCheck, ClusterStep
  <1> QED
    BY <1>1, <1>2, PTL DEF Spec

(* The nodes of a cluster together find exactly the misplaced services, though
   every node looks at its own priority only, for all nodes, groups and failover
   domains. *)
THEOREM NodesAgreed == Spec => []NodesAgree
  <1>1. ASSUME Cluster!IInv
        PROVE  Cluster!NodesAgree
    <2> SUFFICES ASSUME \A n \in Nodes : verdict[n] \in {0, 1}
                 PROVE  (\E g \in Groups : Cluster!Misplaced(g)) <=> (\E n \in Nodes : verdict[n] = 1)
      BY DEF Cluster!NodesAgree, Cluster!Judged, Cluster!STATE_OK, Cluster!STATE_WARNING
    <2>1. \A n \in Nodes : verdict[n] = 1 <=> \E g \in Groups : Cluster!Warns(n, g)
      BY <1>1 DEF Cluster!IInv, Cluster!VerdictsAreRight, Cluster!NodeWarns, Cluster!STATE_OK, Cluster!STATE_WARNING
    <2>2. \A g \in Groups : Cluster!Misplaced(g) <=> \E n \in Nodes : Cluster!Warns(n, g)
      BY <1>1, SomeNodeKnows DEF Cluster!IInv
    <2> QED
      BY <2>1, <2>2
  <1>2. (check = "cluster" => Cluster!IInv) => NodesAgree
    BY <1>1 DEF NodesAgree
  <1> QED
    BY <1>2, ClusterInvariant, PTL

-----------------------------------------------------------------------------
(* check_qnap_vols, check_qnap_disks and check_arc_raid                     *)

LEMMA TablesInit ==
    ASSUME Tables!Init
    PROVE  Tables!IInv
  <1>1. /\ plugin \in {"check_qnap_vols", "check_qnap_disks", "check_arc_raid"}
        /\ table = <<>> /\ rc = 0 /\ pc = "fetch" /\ i = 0 /\ status = 0 /\ output = <<>> /\ code = -1
    BY DEF Tables!Init, Tables!STAT_SUCCESS, Tables!STATE_OK
  <1>2. device \in Seq(Tables!Cells(plugin))
    <2>1. PICK n \in 0 .. MaxRows : device \in [1 .. n -> Tables!Cells(plugin)]
      BY DEF Tables!Init
    <2>2. n \in Nat
      BY <2>1, ServicesAssumption
    <2> QED
      BY <2>1, <2>2, SeqDef
  <1>3. table \in Seq(Tables!Cells(plugin)) /\ Len(table) = 0 /\ output \in Seq(Nat) /\ DOMAIN output = {}
    BY <1>1
  <1>4. Tables!TypeOK
    BY <1>1, <1>2, <1>3
       DEF Tables!TypeOK, Tables!STATE_OK, Tables!STATE_WARNING, Tables!STATE_CRITICAL, Tables!STAT_SUCCESS
  <1>5. 1 .. i = {}
    BY <1>1
  <1>6. Tables!RowsBehind
    BY <1>1, <1>3, <1>5 DEF Tables!RowsBehind, Tables!STATE_OK
  <1> QED
    BY <1>1, <1>4, <1>6 DEF Tables!IInv, Tables!Fetched, Tables!LoopEnds, Tables!ExitIsRight

(* The rows that can be read are good, a warning or critical. *)
LEMMA CellFacts ==
    ASSUME NEW p \in {"check_qnap_vols", "check_qnap_disks", "check_arc_raid"},
           NEW c \in Tables!Cells(p), c # "unreadable"
    PROVE  /\ Tables!Severity[c] \in {0, 1, 2}
           /\ p = "check_qnap_vols" =>
                 /\ c \in {"Ready", "In degraded mode", "Synchronizing"}
                 /\ Tables!Severity[c] = IF c = "Ready" THEN 0 ELSE IF c = "Synchronizing" THEN 1 ELSE 2
           /\ p = "check_qnap_disks" =>
                 /\ c \in {"HDD_Ready", "HDD_NoDisk", "HDD_RWError"}
                 /\ Tables!Severity[c] = IF c = "HDD_Ready" THEN 0 ELSE 2
           /\ p = "check_arc_raid" =>
                 /\ c \in {"Normal", "Checking", "Rebuilding", "Failed"}
                 /\ Tables!Severity[c] = IF c \in {"Normal", "Checking"} THEN 0 ELSE IF c = "Rebuilding" THEN 1 ELSE 2
  <1>1. \/ p = "check_qnap_vols" /\ c \in {"Ready", "In degraded mode", "Synchronizing"}
        \/ p = "check_qnap_disks" /\ c \in {"HDD_Ready", "HDD_NoDisk", "HDD_RWError"}
        \/ p = "check_arc_raid" /\ c \in {"Normal", "Checking", "Rebuilding", "Failed"}
    BY DEF Tables!Cells
  <1>2. CASE p = "check_qnap_vols" /\ c \in {"Ready", "In degraded mode", "Synchronizing"}
    BY <1>2 DEF Tables!Severity, Tables!STATE_OK, Tables!STATE_WARNING, Tables!STATE_CRITICAL
  <1>3. CASE p = "check_qnap_disks" /\ c \in {"HDD_Ready", "HDD_NoDisk", "HDD_RWError"}
    BY <1>3 DEF Tables!Severity, Tables!STATE_OK, Tables!STATE_WARNING, Tables!STATE_CRITICAL
  <1>4. CASE p = "check_arc_raid" /\ c \in {"Normal", "Checking", "Rebuilding", "Failed"}
    BY <1>4 DEF Tables!Severity, Tables!STATE_OK, Tables!STATE_WARNING, Tables!STATE_CRITICAL
  <1> QED
    BY <1>1, <1>2, <1>3, <1>4

(* What one row does, whichever plugin reads it. *)
LEMMA RowFacts ==
    ASSUME Tables!TypeOK, NEW p, NEW good, NEW worse, Tables!Row(p, good, worse)
    PROVE  /\ pc = "rows" /\ plugin = p /\ i \in Nat /\ i < Len(table) /\ i + 1 \in 1 .. Len(table) /\ i' = i + 1
           /\ table[i + 1] \in Tables!Cells(plugin) /\ table[i + 1] # "unreadable"
           /\ IF table[i + 1] \in good THEN UNCHANGED <<status, output>>
              ELSE status' = worse[table[i + 1]] /\ output' = Append(output, i + 1)
           /\ UNCHANGED <<plugin, device, table, rc, pc, code>>
  <1>1. table \in Seq(Tables!Cells(plugin)) /\ i \in 0 .. Len(table)
    BY DEF Tables!TypeOK
  <1>2. Len(table) \in Nat /\ \A k \in 1 .. Len(table) : table[k] \in Tables!Cells(plugin)
    BY <1>1, TopFacts
  <1>3. i < Len(table) /\ table[i + 1] # "unreadable"
    BY DEF Tables!Row, Tables!mp_snmp_subtree_get_value
  <1>4. Tables!mp_snmp_subtree_get_value(i)[1] = table[i + 1]
    BY <1>3 DEF Tables!mp_snmp_subtree_get_value
  <1>5. i \in Nat /\ i + 1 \in 1 .. Len(table)
    BY <1>1, <1>2, <1>3
  <1> QED
    BY <1>2, <1>3, <1>4, <1>5 DEF Tables!Row

(* A row makes the status the worse of what it was and what the row is, and is
   named exactly when it is not well. *)
LEMMA RowIsJudged ==
    ASSUME Tables!TypeOK, Tables!VolumeRow \/ Tables!DiskRow \/ Tables!RaidRow
    PROVE  /\ pc = "rows" /\ i \in Nat /\ i < Len(table) /\ i + 1 \in 1 .. Len(table) /\ i' = i + 1
           /\ table[i + 1] # "unreadable"
           /\ Tables!Severity[table[i + 1]] \in {0, 1, 2}
           /\ status' = IF status < Tables!Severity[table[i + 1]] THEN Tables!Severity[table[i + 1]] ELSE status
           /\ output' = IF Tables!Severity[table[i + 1]] = 0 THEN output ELSE Append(output, i + 1)
           /\ UNCHANGED <<plugin, device, table, rc, pc, code>>
  <1> DEFINE c == table[i + 1]
  <1>1. status \in {0, 1, 2} /\ plugin \in {"check_qnap_vols", "check_qnap_disks", "check_arc_raid"}
    BY DEF Tables!TypeOK, Tables!STATE_OK, Tables!STATE_WARNING, Tables!STATE_CRITICAL
  <1>2. CASE Tables!VolumeRow
    <2>1. /\ pc = "rows" /\ plugin = "check_qnap_vols" /\ i \in Nat /\ i < Len(table) /\ i + 1 \in 1 .. Len(table)
          /\ i' = i + 1 /\ c \in Tables!Cells(plugin) /\ c # "unreadable"
          /\ IF c \in {"Ready"} THEN UNCHANGED <<status, output>>
             ELSE /\ status' = [s \in {"In degraded mode", "Synchronizing"} |->
                                 IF status = 2 \/ s = "In degraded mode" THEN 2 ELSE 1][c]
                  /\ output' = Append(output, i + 1)
          /\ UNCHANGED <<plugin, device, table, rc, pc, code>>
      BY <1>2, RowFacts DEF Tables!VolumeRow, Tables!STATE_WARNING, Tables!STATE_CRITICAL
    <2> HIDE DEF c
    <2>2. /\ c \in {"Ready", "In degraded mode", "Synchronizing"}
          /\ Tables!Severity[c] = IF c = "Ready" THEN 0 ELSE IF c = "Synchronizing" THEN 1 ELSE 2
      BY <1>1, <2>1, CellFacts
    <2>3. /\ status' = IF status < Tables!Severity[c] THEN Tables!Severity[c] ELSE status
          /\ output' = IF Tables!Severity[c] = 0 THEN output ELSE Append(output, i + 1)
      <3>1. CASE c = "Ready"
        BY <1>1, <2>1, <2>2, <3>1
      <3>2. CASE c = "In degraded mode"
        <4>1. status' = 2 /\ output' = Append(output, i + 1)
          BY <2>1, <3>2
        <4>2. Tables!Severity[c] = 2
          BY <2>2, <3>2
        <4> QED
          BY <1>1, <4>1, <4>2
      <3>3. CASE c = "Synchronizing"
        BY <1>1, <2>1, <2>2, <3>3
      <3> QED
        BY <2>2, <3>1, <3>2, <3>3
    <2> QED
      BY <2>1, <2>2, <2>3 DEF c
  <1>3. CASE Tables!DiskRow
    <2>1. /\ pc = "rows" /\ plugin = "check_qnap_disks" /\ i \in Nat /\ i < Len(table) /\ i + 1 \in 1 .. Len(table)
          /\ i' = i + 1 /\ c \in Tables!Cells(plugin) /\ c # "unreadable"
          /\ IF c \in {"HDD_Ready"} THEN UNCHANGED <<status, output>>
             ELSE /\ status' = [s \in {"HDD_NoDisk", "HDD_RWError"} |-> 2][c]
                  /\ output' = Append(output, i + 1)
          /\ UNCHANGED <<plugin, device, table, rc, pc, code>>
      BY <1>3, RowFacts DEF Tables!DiskRow, Tables!STATE_CRITICAL
    <2> HIDE DEF c
    <2>2. /\ c \in {"HDD_Ready", "HDD_NoDisk", "HDD_RWError"}
          /\ Tables!Severity[c] = IF c = "HDD_Ready" THEN 0 ELSE 2
      BY <1>1, <2>1, CellFacts
    <2>3. /\ status' = IF status < Tables!Severity[c] THEN Tables!Severity[c] ELSE status
          /\ output' = IF Tables!Severity[c] = 0 THEN output ELSE Append(output, i + 1)
      <3>1. CASE c = "HDD_Ready"
        BY <1>1, <2>1, <2>2, <3>1
      <3>2. CASE c \in {"HDD_NoDisk", "HDD_RWError"}
        BY <1>1, <2>1, <2>2, <3>2
      <3> QED
        BY <2>2, <3>1, <3>2
    <2> QED
      BY <2>1, <2>2, <2>3 DEF c
  <1>4. CASE Tables!RaidRow
    <2>1. /\ pc = "rows" /\ plugin = "check_arc_raid" /\ i \in Nat /\ i < Len(table) /\ i + 1 \in 1 .. Len(table)
          /\ i' = i + 1 /\ c \in Tables!Cells(plugin) /\ c # "unreadable"
          /\ IF c \in {"Normal", "Checking"} THEN UNCHANGED <<status, output>>
             ELSE /\ status' = [s \in {"Rebuilding", "Failed"} |->
                                 IF status = 2 \/ s # "Rebuilding" THEN 2 ELSE 1][c]
                  /\ output' = Append(output, i + 1)
          /\ UNCHANGED <<plugin, device, table, rc, pc, code>>
      BY <1>4, RowFacts DEF Tables!RaidRow, Tables!STATE_WARNING, Tables!STATE_CRITICAL
    <2> HIDE DEF c
    <2>2. /\ c \in {"Normal", "Checking", "Rebuilding", "Failed"}
          /\ Tables!Severity[c] = IF c \in {"Normal", "Checking"} THEN 0 ELSE IF c = "Rebuilding" THEN 1 ELSE 2
      BY <1>1, <2>1, CellFacts
    <2>3. /\ status' = IF status < Tables!Severity[c] THEN Tables!Severity[c] ELSE status
          /\ output' = IF Tables!Severity[c] = 0 THEN output ELSE Append(output, i + 1)
      <3>1. CASE c \in {"Normal", "Checking"}
        BY <1>1, <2>1, <2>2, <3>1
      <3>2. CASE c = "Rebuilding"
        BY <1>1, <2>1, <2>2, <3>2
      <3>3. CASE c = "Failed"
        BY <1>1, <2>1, <2>2, <3>3
      <3> QED
        BY <2>2, <3>1, <3>2, <3>3
    <2> QED
      BY <2>1, <2>2, <2>3 DEF c
  <1> QED
    BY <1>2, <1>3, <1>4

LEMMA RowStep ==
    ASSUME Tables!IInv, Tables!VolumeRow \/ Tables!DiskRow \/ Tables!RaidRow
    PROVE  Tables!IInv'
  <1> DEFINE sev == Tables!Severity[table[i + 1]]
  <1>1. Tables!TypeOK /\ Tables!Fetched /\ Tables!RowsBehind /\ Tables!LoopEnds /\ Tables!ExitIsRight
    BY DEF Tables!IInv
  <1>2. /\ pc = "rows" /\ i \in Nat /\ i < Len(table) /\ i + 1 \in 1 .. Len(table) /\ i' = i + 1
        /\ table[i + 1] # "unreadable" /\ sev \in {0, 1, 2}
        /\ status' = IF status < sev THEN sev ELSE status
        /\ output' = IF sev = 0 THEN output ELSE Append(output, i + 1)
        /\ UNCHANGED <<plugin, device, table, rc, pc, code>>
    BY <1>1, RowIsJudged
  <1>3. status \in {0, 1, 2} /\ output \in Seq(Nat) /\ table \in Seq(Tables!Cells(plugin))
    BY <1>1 DEF Tables!TypeOK, Tables!STATE_OK, Tables!STATE_WARNING, Tables!STATE_CRITICAL
  <1>4. Len(table) \in Nat
    BY <1>3, TopFacts
  <1>5. PICK s \in {0, 1, 2} : s = Tables!Severity[table[i + 1]]
    BY <1>2
  <1>6. status' \in {0, 1, 2} /\ status <= status' /\ s <= status' /\ status' \in {status, s}
    BY <1>2, <1>3, <1>5
  <1>7. output' \in Seq(Nat)
    BY <1>2, <1>3, AppendFacts
  <1>8. Tables!TypeOK'
    <2>1. i' \in 0 .. Len(table)
      BY <1>2, <1>4
    <2> QED
      BY <1>1, <1>2, <1>6, <1>7, <2>1
         DEF Tables!TypeOK, Tables!STATE_OK, Tables!STATE_WARNING, Tables!STATE_CRITICAL, Tables!Cells,
             Tables!STAT_SUCCESS, Tables!STAT_ERROR
  <1> HIDE DEF sev
  <1>9. Tables!RowsBehind'
    <2>1. \A k \in 1 .. i' : k \in 1 .. i \/ k = i + 1
      BY <1>2
    <2>2. i + 1 \in 1 .. i' /\ i + 1 \in Nat /\ 1 .. i \subseteq 1 .. i'
      BY <1>2
    <2>3. ASSUME NEW k \in 1 .. i'
          PROVE  table[k] # "unreadable" /\ Tables!Severity[table[k]] <= status'
      <3>1. CASE k \in 1 .. i
        <4>1. /\ table[k] # "unreadable" /\ Tables!Severity[table[k]] <= status
          BY <1>1, <3>1 DEF Tables!RowsBehind
        <4>2. Tables!Severity[table[k]] \in {0, 1, 2}
          <5>1. k \in 1 .. Len(table)
            BY <1>2, <1>4, <3>1
          <5>2. table[k] \in Tables!Cells(plugin)
            BY <1>3, <5>1, TopFacts
          <5> QED
            BY <1>1, <4>1, <5>2, CellFacts DEF Tables!TypeOK
        <4> QED
          BY <1>3, <1>6, <4>1, <4>2
      <3>2. CASE k = i + 1
        BY <1>2, <1>5, <1>6, <3>2
      <3> QED
        BY <2>1, <3>1, <3>2
    <2>4. status' = 0 \/ \E k \in 1 .. i' : Tables!Severity[table[k]] = status'
      <3>1. CASE status' = s
        BY <1>5, <2>2, <3>1
      <3>2. CASE status' = status
        <4>1. status = 0 \/ \E k \in 1 .. i : Tables!Severity[table[k]] = status
          BY <1>1 DEF Tables!RowsBehind, Tables!STATE_OK
        <4> QED
          BY <2>2, <3>2, <4>1
      <3> QED
        BY <1>6, <3>1, <3>2
    <2>5. /\ \A k \in 1 .. i : Tables!Contains(output, k) <=> Tables!Severity[table[k]] # 0
          /\ \A l \in DOMAIN output : output[l] <= i
      BY <1>1 DEF Tables!RowsBehind, Tables!STATE_OK
    <2>6. DOMAIN output = 1 .. Len(output) /\ Len(output) \in Nat /\ \A l \in 1 .. Len(output) : output[l] \in Nat
      BY <1>3, TopFacts
    <2>7. ~Tables!Contains(output, i + 1)
      <3>1. ASSUME NEW l \in 1 .. Len(output)
            PROVE  output[l] # i + 1
        BY <1>2, <2>5, <2>6
      <3> QED
        BY <3>1 DEF Tables!Contains
    <2>8. /\ \A k \in 1 .. i' : Tables!Contains(output', k) <=> Tables!Severity[table[k]] # 0
          /\ \A l \in DOMAIN output' : output'[l] <= i'
      <3>1. CASE s = 0
        <4>1. output' = output
          BY <1>2, <1>5, <3>1 DEF sev
        <4>2. ASSUME NEW l \in DOMAIN output'
              PROVE  output'[l] <= i'
          <5>1. output[l] \in Nat /\ output[l] <= i
            BY <2>5, <2>6, <4>1
          <5> QED
            BY <1>2, <4>1, <5>1
        <4>3. ASSUME NEW k \in 1 .. i'
              PROVE  Tables!Contains(output, k) <=> Tables!Severity[table[k]] # 0
          <5>1. CASE k \in 1 .. i
            BY <2>5, <5>1
          <5>2. CASE k = i + 1
            BY <1>5, <2>7, <3>1, <5>2
          <5> QED
            BY <2>1, <5>1, <5>2
        <4> QED
          BY <4>1, <4>2, <4>3
      <3>2. CASE s # 0
        <4>1. output' = Append(output, i + 1)
          BY <1>2, <1>5, <3>2 DEF sev
        <4>2. /\ Len(output') = Len(output) + 1 /\ output'[Len(output) + 1] = i + 1 /\ output' \in Seq(Nat)
              /\ \A l \in 1 .. Len(output) : output'[l] = output[l]
          BY <1>3, <2>2, <4>1, AppendFacts
        <4>3. \A k : Tables!Contains(output', k) <=> Tables!Contains(output, k) \/ k = i + 1
          <5>1. 1 .. Len(output') = 1 .. Len(output) \cup {Len(output) + 1}
            BY <2>6, <4>2
          <5> QED
            BY <4>2, <5>1 DEF Tables!Contains
        <4>4. ASSUME NEW l \in DOMAIN output'
              PROVE  output'[l] <= i'
          <5>1. DOMAIN output' = 1 .. Len(output')
            BY <4>2, TopFacts
          <5>2. l \in 1 .. Len(output) \/ l = Len(output) + 1
            BY <2>6, <4>2, <5>1
          <5>3. CASE l \in 1 .. Len(output)
            BY <1>2, <2>5, <2>6, <4>2, <5>3
          <5>4. CASE l = Len(output) + 1
            BY <1>2, <4>2, <5>4
          <5> QED
            BY <5>2, <5>3, <5>4
        <4>5. ASSUME NEW k \in 1 .. i'
              PROVE  Tables!Contains(output', k) <=> Tables!Severity[table[k]] # 0
          <5>1. CASE k \in 1 .. i
            <6>1. k # i + 1
              BY <1>2, <5>1
            <6> QED
              BY <2>5, <4>3, <5>1, <6>1
          <5>2. CASE k = i + 1
            BY <1>5, <3>2, <4>3, <5>2
          <5> QED
            BY <2>1, <5>1, <5>2
        <4> QED
          BY <4>4, <4>5
      <3> QED
        BY <3>1, <3>2
    <2>9. Tables!Severity' = Tables!Severity
      BY DEF Tables!Severity, Tables!STATE_OK, Tables!STATE_WARNING, Tables!STATE_CRITICAL
    <2> QED
      BY <1>2, <2>3, <2>4, <2>8, <2>9 DEF Tables!RowsBehind, Tables!STATE_OK
  <1>10. Tables!Fetched' /\ Tables!LoopEnds' /\ Tables!ExitIsRight'
    BY <1>1, <1>2 DEF Tables!Fetched, Tables!LoopEnds, Tables!ExitIsRight
  <1> QED
    BY <1>8, <1>9, <1>10 DEF Tables!IInv

LEMMA TablesStep ==
    ASSUME Tables!IInv, [Tables!Next]_(Tables!vars)
    PROVE  Tables!IInv'
  <1>1. Tables!TypeOK /\ Tables!Fetched /\ Tables!RowsBehind /\ Tables!LoopEnds /\ Tables!ExitIsRight
    BY DEF Tables!IInv
  <1>2. table \in Seq(Tables!Cells(plugin)) /\ Len(table) \in Nat /\ DOMAIN table = 1 .. Len(table) /\ i \in 0 .. Len(table)
    <2>1. table \in Seq(Tables!Cells(plugin)) /\ i \in 0 .. Len(table)
      BY <1>1 DEF Tables!TypeOK
    <2> QED
      BY <2>1, TopFacts
  <1>3. Tables!Severity' = Tables!Severity
    BY DEF Tables!Severity, Tables!STATE_OK, Tables!STATE_WARNING, Tables!STATE_CRITICAL
  <1>4. ASSUME UNCHANGED <<plugin, device, table, rc, i, status, output>>, pc' \in {"fetch", "rows", "report", "exited"}
        PROVE  Tables!TypeOK' /\ Tables!RowsBehind'
    BY <1>1, <1>3, <1>4 DEF Tables!TypeOK, Tables!RowsBehind, Tables!Cells, Tables!STATE_OK, Tables!STATE_WARNING,
                            Tables!STATE_CRITICAL, Tables!STAT_SUCCESS, Tables!STAT_ERROR
  <1>5. CASE UNCHANGED Tables!vars
    <2>1. UNCHANGED <<plugin, device, table, rc, pc, i, status, output, code>>
      BY <1>5 DEF Tables!vars
    <2>2. pc' \in {"fetch", "rows", "report", "exited"}
      BY <1>1, <2>1 DEF Tables!TypeOK
    <2>3. Tables!Fetched' /\ Tables!LoopEnds' /\ Tables!ExitIsRight'
      BY <1>1, <2>1 DEF Tables!Fetched, Tables!LoopEnds, Tables!ExitIsRight, Tables!STAT_SUCCESS, Tables!STATE_UNKNOWN
    <2> QED
      BY <1>4, <2>1, <2>2, <2>3 DEF Tables!IInv
  <1>6. CASE Tables!Fetch
    <2>1. /\ pc = "fetch" /\ i = 0 /\ code = -1 /\ UNCHANGED <<plugin, device, i, status, output>>
          /\ \/ table' = device /\ rc' = 0 /\ pc' = "rows" /\ code' = code
             \/ /\ \E n \in 0 .. Len(device) : table' = SubSeq(device, 1, n)
                /\ rc' = 1
                /\ \/ pc' = "rows" /\ code' = code
                   \/ pc' = "exited" /\ code' = 3
      BY <1>1, <1>6 DEF Tables!Fetch, Tables!Fetched, Tables!ExitIsRight, Tables!STAT_SUCCESS, Tables!STAT_ERROR,
                        Tables!STATE_UNKNOWN
    <2>2. device \in Seq(Tables!Cells(plugin))
      BY <1>1 DEF Tables!TypeOK
    <2>3. table' \in Seq(Tables!Cells(plugin))
      <3>1. CASE table' = device
        BY <2>2, <3>1
      <3>2. CASE \E n \in 0 .. Len(device) : table' = SubSeq(device, 1, n)
        <4>1. PICK n \in 0 .. Len(device) : table' = SubSeq(device, 1, n)
          BY <3>2
        <4>2. Len(device) \in Nat /\ \A k \in 1 .. Len(device) : device[k] \in Tables!Cells(plugin)
          BY <2>2, TopFacts
        <4>3. \A k \in 1 .. n : device[k] \in Tables!Cells(plugin)
          BY <4>1, <4>2
        <4>4. 1 \in Int /\ n \in Int
          BY <4>1, <4>2
        <4> QED
          BY <2>2, <4>1, <4>3, <4>4, SubSeqProperties
      <3> QED
        BY <2>1, <3>1, <3>2
    <2>4. Len(table') \in Nat
      BY <2>3, TopFacts
    <2>5. Tables!TypeOK'
      <3>1. i' \in 0 .. Len(table') /\ pc' \in {"fetch", "rows", "report", "exited"} /\ rc' \in {0, 1}
        BY <2>1, <2>4
      <3>2. Tables!Cells(plugin)' = Tables!Cells(plugin)
        BY <2>1 DEF Tables!Cells
      <3> QED
        BY <1>1, <2>1, <2>3, <3>1, <3>2
           DEF Tables!TypeOK, Tables!STATE_OK, Tables!STATE_WARNING, Tables!STATE_CRITICAL, Tables!STAT_SUCCESS,
               Tables!STAT_ERROR
    <2>6. Tables!RowsBehind'
      <3>1. 1 .. i = {} /\ 1 .. i' = {}
        BY <2>1
      <3>2. status = 0 /\ (\A l \in DOMAIN output : output[l] <= i)
        BY <1>1, <3>1 DEF Tables!RowsBehind, Tables!STATE_OK
      <3> QED
        BY <2>1, <3>1, <3>2 DEF Tables!RowsBehind, Tables!STATE_OK
    <2>7. Tables!Fetched'
      BY <2>1 DEF Tables!Fetched, Tables!STAT_SUCCESS
    <2>8. Tables!LoopEnds'
      BY <2>1 DEF Tables!LoopEnds, Tables!STAT_SUCCESS
    <2>9. Tables!ExitIsRight'
      BY <2>1 DEF Tables!ExitIsRight, Tables!STATE_UNKNOWN
    <2> QED
      BY <2>5, <2>6, <2>7, <2>8, <2>9 DEF Tables!IInv
  <1>7. CASE Tables!NoRow
    <2>1. /\ pc = "rows" /\ pc' = "report" /\ UNCHANGED <<plugin, device, table, rc, i, status, output, code>>
          /\ ~(i < Len(table) /\ table[i + 1] # "unreadable")
      <3>1. <<table[i + 1]>> # <<>>
        OBVIOUS
      <3> QED
        BY <1>7, <3>1 DEF Tables!NoRow, Tables!mp_snmp_subtree_get_value
    <2>2. Tables!LoopEnds'
      <3>1. CASE i < Len(table)
        <4>1. i + 1 \in DOMAIN table /\ table[i + 1] = "unreadable"
          BY <1>2, <2>1, <3>1
        <4> QED
          BY <2>1, <4>1 DEF Tables!LoopEnds
      <3>2. CASE ~(i < Len(table))
        <4>1. Len(table) \in Nat /\ i \in 0 .. Len(table)
          BY <1>2
        <4>2. i = Len(table)
          BY <3>2, <4>1
        <4> QED
          BY <2>1, <4>2 DEF Tables!LoopEnds
      <3> QED
        BY <3>1, <3>2
    <2>3. Tables!Fetched' /\ Tables!ExitIsRight'
      BY <1>1, <2>1 DEF Tables!Fetched, Tables!ExitIsRight, Tables!STAT_SUCCESS
    <2> QED
      BY <1>4, <2>1, <2>2, <2>3 DEF Tables!IInv
  <1>8. CASE Tables!VolumeRow \/ Tables!DiskRow \/ Tables!RaidRow
    BY <1>8, RowStep
  <1>9. CASE Tables!Report
    <2>1. /\ pc = "report" /\ pc' = "exited" /\ code' = IF i = 0 THEN 3 ELSE status
          /\ UNCHANGED <<plugin, device, table, rc, i, status, output>>
      BY <1>9 DEF Tables!Report, Tables!STATE_UNKNOWN
    <2>2. Tables!Fetched' /\ Tables!LoopEnds' /\ Tables!ExitIsRight'
      BY <1>1, <2>1 DEF Tables!Fetched, Tables!LoopEnds, Tables!ExitIsRight, Tables!STAT_SUCCESS, Tables!STATE_UNKNOWN
    <2> QED
      BY <1>4, <2>1, <2>2 DEF Tables!IInv
  <1> QED
    BY <1>5, <1>6, <1>7, <1>8, <1>9 DEF Tables!Next, Tables!Terminated

(* The invariant of the loop over the rows of a table. *)
THEOREM TablesInvariant == Spec => [](check = "tables" => Tables!IInv)
  <1>1. Init => (check = "tables" => Tables!IInv)
    BY TablesInit DEF Init
  <1>2. (check = "tables" => Tables!IInv) /\ [Next]_vars => (check = "tables" => Tables!IInv)'
    BY OneCheck, TablesStep
  <1> QED
    BY <1>1, <1>2, PTL DEF Spec

(* The worst row of a QNAP or Areca table decides wherever it is, the message
   names exactly the rows that are not well, and a row judged bad is not
   forgotten when the walk failed or a later row cannot be read, for tables of
   any length. *)
THEOREM RowsWereJudged == Spec => []RowsAreJudged
  <1>1. ASSUME Tables!IInv
        PROVE  Tables!WorstRowWins /\ Tables!BadRowIsKept
    <2>1. Tables!TypeOK /\ Tables!Fetched /\ Tables!RowsBehind /\ Tables!LoopEnds /\ Tables!ExitIsRight
      BY <1>1 DEF Tables!IInv
    <2>2. /\ table \in Seq(Tables!Cells(plugin)) /\ i \in 0 .. Len(table) /\ status \in {0, 1, 2}
          /\ plugin \in {"check_qnap_vols", "check_qnap_disks", "check_arc_raid"}
      BY <2>1 DEF Tables!TypeOK, Tables!STATE_OK, Tables!STATE_WARNING, Tables!STATE_CRITICAL
    <2>3. /\ Len(table) \in Nat /\ DOMAIN table = 1 .. Len(table) /\ (table = <<>> <=> Len(table) = 0)
          /\ \A k \in 1 .. Len(table) : table[k] \in Tables!Cells(plugin)
      BY <2>2, TopFacts
    <2>4. ASSUME NEW k \in 1 .. i
          PROVE  Tables!Severity[table[k]] \in {0, 1, 2} /\ Tables!Severity[table[k]] <= status
      <3>1. k \in 1 .. Len(table)
        BY <2>2, <2>3
      <3>2. table[k] # "unreadable" /\ Tables!Severity[table[k]] <= status
        BY <2>1 DEF Tables!RowsBehind
      <3> QED
        BY <2>2, <2>3, <3>1, <3>2, CellFacts
    <2>5. Tables!BadRowIsKept
      <3> SUFFICES ASSUME pc = "exited", code \in {0, 3}, NEW k \in 1 .. i
                   PROVE  Tables!Severity[table[k]] = 0
        BY DEF Tables!BadRowIsKept, Tables!STATE_OK, Tables!STATE_UNKNOWN
      <3>1. code = IF i = 0 THEN 3 ELSE status
        BY <2>1 DEF Tables!ExitIsRight, Tables!STATE_UNKNOWN
      <3>2. status = 0
        BY <2>2, <2>3, <3>1
      <3>3. PICK s \in {0, 1, 2} : s = Tables!Severity[table[k]] /\ s <= status
        BY <2>4
      <3> QED
        BY <3>2, <3>3
    <2>6. Tables!WorstRowWins
      <3> SUFFICES ASSUME pc = "exited", rc = 0, Tables!Readable
                   PROVE  /\ device = <<>> <=> code = 3
                          /\ device # <<>> => /\ \A k \in DOMAIN device : Tables!Severity[device[k]] <= code
                                              /\ \/ code = 0
                                                 \/ \E k \in DOMAIN device : Tables!Severity[device[k]] = code
                          /\ \A k \in DOMAIN device :
                                Tables!Contains(output, k) <=> Tables!Severity[device[k]] # 0
        BY DEF Tables!WorstRowWins, Tables!Judged, Tables!STATE_OK, Tables!STATE_UNKNOWN, Tables!STAT_SUCCESS
      <3>1. table = device
        BY <2>1 DEF Tables!Fetched, Tables!STAT_SUCCESS
      <3>2. i = Len(table)
        BY <2>1, <3>1 DEF Tables!LoopEnds, Tables!Readable, Tables!STAT_SUCCESS
      <3>3. code = IF i = 0 THEN 3 ELSE status
        BY <2>1 DEF Tables!ExitIsRight, Tables!STATE_UNKNOWN
      <3>4. 1 .. i = DOMAIN device
        BY <2>3, <3>1, <3>2
      <3>5. /\ \A k \in DOMAIN device : Tables!Severity[device[k]] <= status
            /\ status = 0 \/ \E k \in DOMAIN device : Tables!Severity[device[k]] = status
            /\ \A k \in DOMAIN device : Tables!Contains(output, k) <=> Tables!Severity[device[k]] # 0
        BY <2>1, <3>1, <3>4 DEF Tables!RowsBehind, Tables!STATE_OK
      <3>6. CASE i = 0
        <4>1. device = <<>> /\ code = 3
          BY <2>3, <3>1, <3>2, <3>3, <3>6
        <4> QED
          BY <3>5, <4>1
      <3>7. CASE i # 0
        <4>1. device # <<>> /\ code = status
          BY <2>3, <3>1, <3>2, <3>3, <3>7
        <4>2. code # 3
          BY <2>2, <4>1
        <4> QED
          BY <3>5, <4>1, <4>2
      <3> QED
        BY <3>6, <3>7
    <2> QED
      BY <2>5, <2>6
  <1>2. (check = "tables" => Tables!IInv) => RowsAreJudged
    BY <1>1 DEF RowsAreJudged
  <1> QED
    BY <1>2, TablesInvariant, PTL

-----------------------------------------------------------------------------
(* check_snmp_ups                                                           *)

LEMMA UpsInit ==
    ASSUME Ups!Init
    PROVE  Ups!IInv
  <1>1. ups \in Ups!UPS /\ value = Ups!Nothing /\ pc = "query" /\ state = 0
    BY DEF Ups!Init, Ups!STATE_OK
  <1>2. value.runtime = -1 /\ value.charge = -1
    BY <1>1 DEF Ups!Nothing, Ups!LONG_MIN
  <1>3. pc \notin Ups!AfterBattery /\ pc \notin Ups!AfterRuntime /\ pc \notin Ups!AfterCharge
        /\ pc \notin Ups!AfterStatus /\ pc \notin Ups!AfterSource
    BY <1>1 DEF Ups!AfterBattery, Ups!AfterRuntime, Ups!AfterCharge, Ups!AfterStatus, Ups!AfterSource
  <1>4. Ups!TypeOK
    BY <1>1, <1>2 DEF Ups!TypeOK, Ups!LONG_MIN, Ups!STATE_OK
  <1>5. Ups!JudgedIsKept
    BY <1>1, <1>3 DEF Ups!JudgedIsKept, Ups!STATE_OK, Ups!STATE_CRITICAL
  <1> QED
    BY <1>1, <1>4, <1>5 DEF Ups!IInv, Ups!Exited

(* What is fetched of the runtime and of the charge is a value of the UPS or
   nothing. *)
LEMMA UpsFetched ==
    ASSUME Ups!TypeOK, Ups!Query
    PROVE  value'.runtime \in Runtimes \cup {-1} /\ value'.charge \in Charges \cup {-1}
  <1>1. ups \in Ups!UPS
    BY DEF Ups!TypeOK
  <1>2. ups.runtime \in Runtimes /\ ups.charge \in Charges
    BY <1>1 DEF Ups!UPS
  <1>3. CASE value' = ups
    BY <1>2, <1>3
  <1>4. CASE \E f \in DOMAIN Ups!Nothing : value' = [ups EXCEPT ![f] = -1]
    BY <1>1, <1>2, <1>4 DEF Ups!UPS, Ups!Nothing
  <1>5. CASE value' = Ups!Nothing
    BY <1>5 DEF Ups!Nothing, Ups!LONG_MIN
  <1> QED
    BY <1>3, <1>4, <1>5 DEF Ups!Query, Ups!LONG_MIN

(* A threshold makes the state critical for a low value only, and nothing
   better. *)
LEMMA ThresholdFacts ==
    ASSUME NEW v \in Nat \cup {-1}, NEW w, NEW c \in Nat, state \in {0, 1, 2, 3}
    PROVE  /\ Ups!Threshold(v, w, c) \in {0, 1, 2, 3}
           /\ Ups!Threshold(v, w, c) = 2 <=> Ups!Below(v, c) \/ state = 2
           /\ Ups!Threshold(v, w, c) = 0 => state = 0
           /\ state \in {1, 2} => Ups!Threshold(v, w, c) \in {1, 2}
  <1>1. Ups!get_status(v, w, c) \in {0, 1, 2} /\ (Ups!get_status(v, w, c) = 2 <=> v \in 0 .. c)
    BY DEF Ups!get_status, Ups!STATE_OK, Ups!STATE_WARNING, Ups!STATE_CRITICAL
  <1>2. Ups!Below(v, c) <=> v \in 0 .. c
    BY DEF Ups!Below, Ups!LONG_MIN
  <1>3. v = -1 => v \notin 0 .. c
    OBVIOUS
  <1>4. Ups!Threshold(v, w, c) = IF v = -1 \/ Ups!get_status(v, w, c) = 0 THEN state
                                 ELSE IF Ups!get_status(v, w, c) = 2 THEN 2
                                 ELSE IF state = 0 THEN 1 ELSE state
    BY DEF Ups!Threshold, Ups!Worse, Ups!STATE_OK, Ups!STATE_WARNING, Ups!STATE_CRITICAL, Ups!LONG_MIN
  <1> QED
    BY <1>1, <1>2, <1>3, <1>4

(* What is known of the state when a judgement comes. *)
LEMMA UpsKnown ==
    ASSUME Ups!IInv
    PROVE  /\ state \in {0, 1, 2, 3} /\ value.runtime \in Nat \cup {-1} /\ value.charge \in Nat \cup {-1}
           /\ CriticalRuntime \in Nat /\ CriticalCharge \in Nat
           /\ Ups!OnBattery /\ pc \in Ups!AfterBattery => state \in {1, 2}
           /\ state = 2 <=> \/ pc \in Ups!AfterRuntime /\ Ups!Below(value.runtime, CriticalRuntime)
                            \/ pc \in Ups!AfterCharge /\ Ups!Below(value.charge, CriticalCharge)
                            \/ pc \in Ups!AfterStatus /\ value.battery \in {3, 4}
                            \/ pc \in Ups!AfterSource /\ value.source = 2
           /\ state = 0 => /\ pc \in Ups!AfterStatus => value.battery = 2
                           /\ pc \in Ups!AfterSource => value.source = 3
  <1>1. Ups!TypeOK /\ Ups!JudgedIsKept
    BY DEF Ups!IInv
  <1>2. /\ state \in {0, 1, 2, 3} /\ value.runtime \in Runtimes \cup {-1} /\ value.charge \in Charges \cup {-1}
    BY <1>1 DEF Ups!TypeOK, Ups!STATE_OK, Ups!STATE_WARNING, Ups!STATE_CRITICAL, Ups!STATE_UNKNOWN, Ups!LONG_MIN
  <1>3. Runtimes \subseteq Nat /\ Charges \subseteq Nat /\ CriticalRuntime \in Nat /\ CriticalCharge \in Nat
    BY ServicesAssumption
  <1>4. value.runtime \in Nat \cup {-1} /\ value.charge \in Nat \cup {-1}
    BY <1>2, <1>3
  <1> QED
    BY <1>1, <1>2, <1>3, <1>4
       DEF Ups!JudgedIsKept, Ups!STATE_OK, Ups!STATE_WARNING, Ups!STATE_CRITICAL, Ups!BATTERY_LOW,
           Ups!BATTERY_DEPLETED, Ups!BATTERY_NORMAL, Ups!OUTPUT_NONE, Ups!OUTPUT_NORMAL

(* A judgement that makes nothing better and is right about what it judges
   keeps the invariant. *)
LEMMA UpsJudge ==
    ASSUME Ups!IInv, NEW here, NEW next \in Ups!AfterBattery \ {"exited"}, NEW s \in {0, 1, 2, 3},
           Ups!Judge(here, next, s),
           Ups!OnBattery => s \in {1, 2},
           s = 2 <=> \/ next \in Ups!AfterRuntime /\ Ups!Below(value.runtime, CriticalRuntime)
                     \/ next \in Ups!AfterCharge /\ Ups!Below(value.charge, CriticalCharge)
                     \/ next \in Ups!AfterStatus /\ value.battery \in {3, 4}
                     \/ next \in Ups!AfterSource /\ value.source = 2,
           s = 0 => /\ next \in Ups!AfterStatus => value.battery = 2
                    /\ next \in Ups!AfterSource => value.source = 3
    PROVE  Ups!IInv'
  <1>1. pc' = next /\ state' = s /\ UNCHANGED <<ups, value>>
    BY DEF Ups!Judge
  <1>2. Ups!TypeOK'
    BY <1>1 DEF Ups!IInv, Ups!TypeOK, Ups!STATE_OK, Ups!STATE_WARNING, Ups!STATE_CRITICAL, Ups!STATE_UNKNOWN,
                Ups!LONG_MIN, Ups!UPS
  <1>3. Ups!OnBattery' = Ups!OnBattery
    BY <1>1 DEF Ups!OnBattery
  <1>4. Ups!JudgedIsKept'
    BY <1>1, <1>3
       DEF Ups!JudgedIsKept, Ups!STATE_OK, Ups!STATE_WARNING, Ups!STATE_CRITICAL, Ups!BATTERY_LOW,
           Ups!BATTERY_DEPLETED, Ups!BATTERY_NORMAL, Ups!OUTPUT_NONE, Ups!OUTPUT_NORMAL, Ups!Below
  <1> QED
    BY <1>1, <1>2, <1>4 DEF Ups!IInv, Ups!Exited

(* The places of the judgements. *)
LEMMA UpsStages ==
    /\ "query" \notin Ups!AfterBattery /\ "battery" \notin Ups!AfterBattery
    /\ "alarms" \in Ups!AfterBattery /\ "runtime" \in Ups!AfterBattery
    /\ \A p \in {"query", "battery", "alarms", "runtime"} : p \notin Ups!AfterRuntime
    /\ "charge" \in Ups!AfterRuntime /\ "charge" \notin Ups!AfterCharge
    /\ "status" \in Ups!AfterCharge /\ "status" \notin Ups!AfterStatus
    /\ "source" \in Ups!AfterStatus /\ "source" \notin Ups!AfterSource
    /\ "perfdata" \in Ups!AfterSource /\ "report" \in Ups!AfterSource /\ "exited" \in Ups!AfterSource
    /\ Ups!AfterSource \subseteq Ups!AfterStatus /\ Ups!AfterStatus \subseteq Ups!AfterCharge
    /\ Ups!AfterCharge \subseteq Ups!AfterRuntime /\ Ups!AfterRuntime \subseteq Ups!AfterBattery
  BY DEF Ups!AfterBattery, Ups!AfterRuntime, Ups!AfterCharge, Ups!AfterStatus, Ups!AfterSource

LEMMA UpsStep ==
    ASSUME Ups!IInv, [Ups!Next]_(Ups!vars)
    PROVE  Ups!IInv'
  <1>1. Ups!TypeOK /\ Ups!JudgedIsKept /\ (Ups!Exited => code = state)
    BY DEF Ups!IInv
  <1> DEFINE lowRuntime == Ups!Below(value.runtime, CriticalRuntime)
             lowCharge == Ups!Below(value.charge, CriticalCharge)
             badBattery == value.battery \in {3, 4}
             noSource == value.source = 2
  <1>2. CASE UNCHANGED Ups!vars
    BY <1>1, <1>2
       DEF Ups!vars, Ups!IInv, Ups!TypeOK, Ups!JudgedIsKept, Ups!Exited, Ups!OnBattery, Ups!Below
  <1>3. CASE Ups!Query
    <2>1. pc = "query" /\ pc' = "battery" /\ UNCHANGED <<ups, state, code>>
      BY <1>3 DEF Ups!Query
    <2>2. state \notin {2} /\ state \in {0, 1, 2, 3}
      BY <2>1, UpsKnown, UpsStages
    <2>3. Ups!TypeOK'
      BY <1>1, <1>3, <2>1, UpsFetched
         DEF Ups!TypeOK, Ups!STATE_OK, Ups!STATE_WARNING, Ups!STATE_CRITICAL, Ups!STATE_UNKNOWN, Ups!LONG_MIN, Ups!UPS
    <2>4. Ups!JudgedIsKept'
      BY <2>1, <2>2, UpsStages DEF Ups!JudgedIsKept, Ups!STATE_OK, Ups!STATE_CRITICAL
    <2> QED
      BY <2>1, <2>3, <2>4 DEF Ups!IInv, Ups!Exited
  <1>4. CASE Ups!Battery
    <2>1. pc = "battery" /\ Ups!Judge("battery", "alarms", IF Ups!OnBattery THEN 1 ELSE state)
      BY <1>4 DEF Ups!Battery, Ups!Judge, Ups!STATE_WARNING
    <2>2. state \in {0, 1, 3}
      BY <2>1, UpsKnown, UpsStages
    <2> QED
      BY <2>1, <2>2, UpsJudge, UpsStages
  <1>5. CASE Ups!Alarms
    <2>1. PICK s : s \in {state, 1} /\ (state = 2 => s = 2) /\ Ups!Judge("alarms", "runtime", s)
      BY <1>5 DEF Ups!Alarms, Ups!STATE_WARNING, Ups!STATE_CRITICAL
    <2>2. pc = "alarms"
      BY <1>5 DEF Ups!Alarms, Ups!Judge
    <2>3. state \in {0, 1, 3} /\ (Ups!OnBattery => state = 1)
      BY <2>2, UpsKnown, UpsStages
    <2> QED
      BY <2>1, <2>3, UpsJudge, UpsStages
  <1>6. CASE Ups!Runtime
    <2>1. pc = "runtime" /\ Ups!Judge("runtime", "charge", Ups!Threshold(value.runtime, WarningRuntime, CriticalRuntime))
      BY <1>6 DEF Ups!Runtime, Ups!Judge
    <2>2. PICK s : s = Ups!Threshold(value.runtime, WarningRuntime, CriticalRuntime)
      OBVIOUS
    <2>3. state \in {0, 1, 3} /\ (Ups!OnBattery => state = 1)
      BY <2>1, UpsKnown, UpsStages
    <2>4. s \in {0, 1, 2, 3} /\ (s = 2 <=> lowRuntime) /\ (Ups!OnBattery => s \in {1, 2})
      BY <2>2, <2>3, ThresholdFacts, UpsKnown
    <2> QED
      BY <2>1, <2>2, <2>4, UpsJudge, UpsStages
  <1>7. CASE Ups!Charge
    <2>1. pc = "charge" /\ Ups!Judge("charge", "status", Ups!Threshold(value.charge, WarningCharge, CriticalCharge))
      BY <1>7 DEF Ups!Charge, Ups!Judge
    <2>2. PICK s : s = Ups!Threshold(value.charge, WarningCharge, CriticalCharge)
      OBVIOUS
    <2>3. state \in {0, 1, 2, 3} /\ (state = 2 <=> lowRuntime) /\ (Ups!OnBattery => state \in {1, 2})
      BY <2>1, UpsKnown, UpsStages
    <2>4. s \in {0, 1, 2, 3} /\ (s = 2 <=> lowCharge \/ state = 2) /\ (Ups!OnBattery => s \in {1, 2})
      BY <2>2, <2>3, ThresholdFacts, UpsKnown
    <2> QED
      BY <2>1, <2>2, <2>3, <2>4, UpsJudge, UpsStages
  <1>8. CASE Ups!BatteryStatus
    <2>1. PICK s : /\ s = IF value.battery = 2 THEN state
                          ELSE IF badBattery THEN 2 ELSE IF state = 0 THEN 3 ELSE state
                   /\ Ups!Judge("status", "source", s)
      BY <1>8 DEF Ups!BatteryStatus, Ups!Worse, Ups!STATE_OK, Ups!STATE_CRITICAL, Ups!STATE_UNKNOWN, Ups!BATTERY_NORMAL,
                  Ups!BATTERY_LOW, Ups!BATTERY_DEPLETED
    <2>2. pc = "status"
      BY <1>8 DEF Ups!BatteryStatus, Ups!Judge
    <2>3. /\ state \in {0, 1, 2, 3} /\ (state = 2 <=> lowRuntime \/ lowCharge) /\ (Ups!OnBattery => state \in {1, 2})
      BY <2>2, UpsKnown, UpsStages
    <2>4. /\ s \in {0, 1, 2, 3} /\ (s = 2 <=> state = 2 \/ badBattery) /\ (state \in {1, 2} => s \in {1, 2})
          /\ s = 0 => value.battery = 2
      BY <2>1, <2>3
    <2> QED
      BY <2>1, <2>3, <2>4, UpsJudge, UpsStages
  <1>9. CASE Ups!OutputSource
    <2>1. PICK s : /\ s = IF value.source = 3 THEN state
                          ELSE IF noSource THEN 2
                          ELSE IF value.source = -1 THEN IF state = 0 THEN 3 ELSE state
                          ELSE IF state # 2 THEN 1 ELSE state
                   /\ Ups!Judge("source", "perfdata", s)
      BY <1>9 DEF Ups!OutputSource, Ups!Worse, Ups!STATE_OK, Ups!STATE_CRITICAL, Ups!STATE_UNKNOWN, Ups!STATE_WARNING,
                  Ups!OUTPUT_NORMAL, Ups!OUTPUT_NONE, Ups!LONG_MIN
    <2>2. pc = "source"
      BY <1>9 DEF Ups!OutputSource, Ups!Judge
    <2>3. /\ state \in {0, 1, 2, 3} /\ (state = 2 <=> lowRuntime \/ lowCharge \/ badBattery)
          /\ Ups!OnBattery => state \in {1, 2}
          /\ state = 0 => value.battery = 2
      BY <2>2, UpsKnown, UpsStages
    <2>4. /\ s \in {0, 1, 2, 3} /\ (s = 2 <=> state = 2 \/ noSource) /\ (state \in {1, 2} => s \in {1, 2})
          /\ s = 0 => value.source = 3 /\ state = 0
      BY <2>1, <2>3
    <2> QED
      BY <2>1, <2>3, <2>4, UpsJudge, UpsStages
  <1>10. ASSUME UNCHANGED <<ups, value, state>>, pc \in Ups!AfterSource, pc' \in Ups!AfterSource
         PROVE  Ups!TypeOK' /\ Ups!JudgedIsKept'
    <2>1. Ups!TypeOK'
      BY <1>1, <1>10, UpsStages
         DEF Ups!TypeOK, Ups!STATE_OK, Ups!STATE_WARNING, Ups!STATE_CRITICAL, Ups!STATE_UNKNOWN, Ups!LONG_MIN, Ups!UPS
    <2>2. Ups!OnBattery' = Ups!OnBattery
      BY <1>10 DEF Ups!OnBattery
    <2> QED
      BY <1>1, <1>10, <2>1, <2>2, UpsStages
         DEF Ups!JudgedIsKept, Ups!STATE_OK, Ups!STATE_WARNING, Ups!STATE_CRITICAL, Ups!BATTERY_LOW,
             Ups!BATTERY_DEPLETED, Ups!BATTERY_NORMAL, Ups!OUTPUT_NONE, Ups!OUTPUT_NORMAL, Ups!Below
  <1>11. CASE Ups!Perfdata
    <2>1. pc = "perfdata" /\ pc' = "report" /\ UNCHANGED <<ups, value, state>>
      BY <1>11 DEF Ups!Perfdata
    <2> QED
      BY <1>10, <2>1, UpsStages DEF Ups!IInv, Ups!Exited
  <1>12. CASE Ups!Report
    <2>1. pc = "report" /\ pc' = "exited" /\ code' = state /\ UNCHANGED <<ups, value, state>>
      BY <1>12 DEF Ups!Report
    <2> QED
      BY <1>10, <2>1, UpsStages DEF Ups!IInv, Ups!Exited
  <1> QED
    BY <1>2, <1>3, <1>4, <1>5, <1>6, <1>7, <1>8, <1>9, <1>11, <1>12 DEF Ups!Next, Ups!Terminated

(* The invariant of the judgements of a UPS. *)
THEOREM UpsInvariant == Spec => [](check = "ups" => Ups!IInv)
  <1>1. Init => (check = "ups" => Ups!IInv)
    BY UpsInit DEF Init
  <1>2. (check = "ups" => Ups!IInv) /\ [Next]_vars => (check = "ups" => Ups!IInv)'
    BY OneCheck, UpsStep
  <1> QED
    BY <1>1, <1>2, PTL DEF Spec

(* No judgement of check_snmp_ups takes back what a former one found. *)
LEMMA UpsIsJudged ==
    ASSUME Ups!IInv
    PROVE  Ups!BatteryIsNeverFine /\ Ups!SilenceIsNotOk
  <1> SUFFICES ASSUME pc = "exited"
               PROVE  Ups!BatteryIsNeverFine /\ Ups!SilenceIsNotOk
    BY DEF Ups!BatteryIsNeverFine, Ups!SilenceIsNotOk, Ups!Exited
  <1>1. code = state /\ Ups!JudgedIsKept
    BY DEF Ups!IInv, Ups!Exited
  <1>2. pc \in Ups!AfterBattery /\ pc \in Ups!AfterRuntime /\ pc \in Ups!AfterCharge /\ pc \in Ups!AfterStatus
        /\ pc \in Ups!AfterSource
    BY UpsStages
  <1> QED
    BY <1>1, <1>2 DEF Ups!BatteryIsNeverFine, Ups!SilenceIsNotOk, Ups!JudgedIsKept

-----------------------------------------------------------------------------
(* check_akcp                                                               *)

LEMMA AkcpInit ==
    ASSUME Akcp!Init
    PROVE  Akcp!IInv
  <1>1. /\ device \in [1 .. Positions -> [temp : Akcp!Readings, hum : Akcp!Readings]] /\ asked \in Kinds
        /\ i = 1 /\ kind = "temp" /\ found = 0 /\ sensor_found = 0 /\ state = 0 /\ pc = "loop" /\ lost = 0 /\ judged = {}
    BY DEF Akcp!Init, Akcp!STATE_OK
  <1>2. Positions \in Nat \ {0} /\ MaxSensors \in Nat /\ asked \in SUBSET {"temp", "hum"}
    BY <1>1, ServicesAssumption
  <1>3. sensor \in Seq(1 .. Positions)
    <2>1. PICK n \in 0 .. MaxSensors : sensor \in [1 .. n -> 1 .. Positions]
      BY DEF Akcp!Init
    <2>2. n \in Nat
      BY <1>2, <2>1
    <2> QED
      BY <2>1, <2>2, SeqDef
  <1>4. Len(sensor) \in Nat /\ (sensor # <<>> => Len(sensor) # 0) /\ DOMAIN sensor = 1 .. Len(sensor)
    BY <1>3, TopFacts
  <1>5. Akcp!Limit \in Nat /\ 1 <= Akcp!Limit
    <2>1. CASE sensor = <<>>
      BY <1>2, <2>1 DEF Akcp!Limit
    <2>2. CASE sensor # <<>>
      BY <1>4, <2>2 DEF Akcp!Limit
    <2> QED
      BY <2>1, <2>2
  <1>6. i \in 1 .. Akcp!Limit + 1 /\ i <= Akcp!Limit
    BY <1>1, <1>5
  <1>7. Akcp!TypeOK
    BY <1>1, <1>2, <1>3, <1>6 DEF Akcp!TypeOK, Akcp!STATE_OK
  <1>8. Akcp!StateIsWorst
    BY <1>1 DEF Akcp!StateIsWorst, Akcp!STATE_OK, Akcp!STATE_CRITICAL
  <1>9. Akcp!BehindIsRead
    BY <1>1, <1>4 DEF Akcp!BehindIsRead
  <1> QED
    BY <1>1, <1>7, <1>8, <1>9 DEF Akcp!IInv, Akcp!ExitIsRight

(* What a position reads does not change. *)
LEMMA NormalStays ==
    ASSUME UNCHANGED <<device, asked, sensor>>
    PROVE  /\ \A p : Akcp!HasNormal(p)' <=> Akcp!HasNormal(p)
           /\ Akcp!Limit' = Akcp!Limit
  BY DEF Akcp!HasNormal, Akcp!kinds, Akcp!Limit

(* The loop goes on after a query that told something or nothing. *)
LEMMA AkcpAdvance ==
    ASSUME Akcp!IInv, pc = "loop", NEW n \in Nat, NEW s \in {0, 1, 2, 3}, Akcp!Advance(n, s),
           UNCHANGED <<device, asked, sensor, lost>>,
           s = 2 <=> "critical" \in judged',
           s = 0 => judged' \subseteq {"normal"} /\ state = 0,
           (n > 0 \/ sensor_found > 0) => judged' # {},
           s = 0 /\ sensor # <<>> /\ n > 0 => Akcp!HasNormal(sensor[i])
    PROVE  Akcp!IInv'
  <1>1. Akcp!TypeOK /\ Akcp!BehindIsRead
    BY DEF Akcp!IInv
  <1>2. /\ sensor \in Seq(1 .. Positions) /\ i \in 1 .. Akcp!Limit + 1 /\ i <= Akcp!Limit
        /\ kind \in {"temp", "hum"} /\ sensor_found \in Nat
    BY <1>1 DEF Akcp!TypeOK
  <1>3. Akcp!Limit \in Nat /\ Len(sensor) \in Nat /\ DOMAIN sensor = 1 .. Len(sensor)
    <2>1. Len(sensor) \in Nat /\ DOMAIN sensor = 1 .. Len(sensor)
      BY <1>2, TopFacts
    <2> QED
      BY <2>1, ServicesAssumption DEF Akcp!Limit
  <1>4. (\A p : Akcp!HasNormal(p)' <=> Akcp!HasNormal(p)) /\ Akcp!Limit' = Akcp!Limit
    BY NormalStays
  <1>5. /\ s = 0 /\ sensor # <<>> => \A k \in DOMAIN sensor : k < i => Akcp!HasNormal(sensor[k])
    BY <1>1 DEF Akcp!BehindIsRead, Akcp!STATE_OK
  <1>6. CASE kind = "temp"
    <2>1. kind' = "hum" /\ found' = n /\ state' = s /\ UNCHANGED <<i, sensor_found, pc, code>>
      BY <1>6 DEF Akcp!Advance
    <2>2. Akcp!TypeOK'
      BY <1>1, <1>4, <2>1
         DEF Akcp!TypeOK, Akcp!Readings, Akcp!STATE_OK, Akcp!STATE_WARNING, Akcp!STATE_CRITICAL, Akcp!STATE_UNKNOWN
    <2>3. Akcp!StateIsWorst'
      BY <2>1 DEF Akcp!StateIsWorst, Akcp!STATE_OK, Akcp!STATE_CRITICAL
    <2>4. Akcp!BehindIsRead'
      <3> SUFFICES ASSUME s = 0, sensor # <<>>
                   PROVE  /\ \A k \in DOMAIN sensor : k < i => Akcp!HasNormal(sensor[k])'
                          /\ n > 0 => Akcp!HasNormal(sensor[i])'
        BY <2>1 DEF Akcp!BehindIsRead, Akcp!STATE_OK, Akcp!HasNormal, Akcp!kinds
      <3> QED
        BY <1>5, <2>1 DEF Akcp!HasNormal, Akcp!kinds
    <2>5. Akcp!ExitIsRight'
      BY <2>1 DEF Akcp!ExitIsRight
    <2> QED
      BY <2>2, <2>3, <2>4, <2>5 DEF Akcp!IInv
  <1>7. CASE kind = "hum"
    <2>1. /\ state' = IF sensor # <<>> /\ n = 0 /\ s = 0 THEN 3 ELSE s
          /\ sensor_found' = sensor_found + n /\ kind' = "temp" /\ found' = 0 /\ i' = i + 1
          /\ \/ i # Akcp!Limit /\ UNCHANGED <<pc, code>>
             \/ i = Akcp!Limit /\ pc' = "exited" /\ code' = IF sensor_found' = 0 THEN 3 ELSE state'
      BY <1>7 DEF Akcp!Advance, Akcp!Finish, Akcp!STATE_OK, Akcp!STATE_UNKNOWN
    <2>2. /\ state' \in {0, 1, 2, 3} /\ (state' = 2 <=> s = 2) /\ (state' = 0 => s = 0)
          /\ state' = 0 /\ sensor # <<>> => n # 0
      BY <2>1
    <2>3. /\ i' \in 1 .. Akcp!Limit + 1 /\ (pc' = "loop" => i' <= Akcp!Limit) /\ pc' \in {"loop", "exited"}
          /\ pc' = "exited" => i' = Akcp!Limit + 1
      BY <1>2, <1>3, <2>1
    <2>4. Akcp!TypeOK'
      <3>1. sensor_found' \in Nat /\ found' \in Nat /\ kind' \in {"temp", "hum"}
        BY <1>2, <2>1
      <3> QED
        BY <1>1, <1>4, <2>2, <2>3, <3>1
           DEF Akcp!TypeOK, Akcp!Readings, Akcp!STATE_OK, Akcp!STATE_WARNING, Akcp!STATE_CRITICAL, Akcp!STATE_UNKNOWN
    <2>5. Akcp!StateIsWorst'
      <3>1. ~(found' > 0) /\ (sensor_found' > 0 => n > 0 \/ sensor_found > 0)
        BY <1>2, <2>1
      <3> QED
        BY <2>2, <3>1 DEF Akcp!StateIsWorst, Akcp!STATE_OK, Akcp!STATE_CRITICAL
    <2>6. Akcp!BehindIsRead'
      <3> SUFFICES ASSUME state' = 0, sensor # <<>>, NEW k \in DOMAIN sensor, k < i + 1
                   PROVE  Akcp!HasNormal(sensor[k])'
        <4>1. ~(found' > 0)
          BY <2>1
        <4> QED
          BY <2>1, <4>1 DEF Akcp!BehindIsRead, Akcp!STATE_OK, Akcp!HasNormal, Akcp!kinds
      <3>1. s = 0 /\ n > 0
        BY <2>2
      <3>2. k < i \/ k = i
        BY <1>2, <1>3
      <3>3. Akcp!HasNormal(sensor[k])
        BY <1>5, <3>1, <3>2
      <3> QED
        BY <3>3 DEF Akcp!HasNormal, Akcp!kinds
    <2>7. Akcp!ExitIsRight'
      BY <1>4, <2>1, <2>3 DEF Akcp!ExitIsRight, Akcp!STATE_UNKNOWN
    <2> QED
      BY <2>4, <2>5, <2>6, <2>7 DEF Akcp!IInv
  <1> QED
    BY <1>2, <1>6, <1>7

(* The loop ends before its time. *)
LEMMA AkcpBreaks ==
    ASSUME Akcp!IInv, Akcp!Breaks, UNCHANGED <<device, asked, sensor, judged>>,
           lost' \in Nat, lost' # 0 \/ sensor = <<>>
    PROVE  Akcp!IInv'
  <1>1. Akcp!TypeOK /\ Akcp!BehindIsRead /\ Akcp!StateIsWorst
    BY DEF Akcp!IInv
  <1>2. /\ UNCHANGED <<i, kind, found, sensor_found, state>> /\ pc' = "exited"
        /\ code' = IF sensor_found' = 0 THEN 3 ELSE state'
    BY DEF Akcp!Breaks, Akcp!Finish, Akcp!STATE_UNKNOWN
  <1>3. Akcp!Limit' = Akcp!Limit
    BY NormalStays
  <1>4. Akcp!TypeOK'
    BY <1>1, <1>2, <1>3
       DEF Akcp!TypeOK, Akcp!Readings, Akcp!STATE_OK, Akcp!STATE_WARNING, Akcp!STATE_CRITICAL, Akcp!STATE_UNKNOWN
  <1>5. Akcp!StateIsWorst'
    BY <1>1, <1>2 DEF Akcp!StateIsWorst, Akcp!STATE_OK, Akcp!STATE_CRITICAL
  <1>6. Akcp!BehindIsRead'
    BY <1>1, <1>2 DEF Akcp!BehindIsRead, Akcp!STATE_OK, Akcp!HasNormal, Akcp!kinds
  <1>7. Akcp!ExitIsRight'
    BY <1>2 DEF Akcp!ExitIsRight, Akcp!STATE_UNKNOWN
  <1> QED
    BY <1>4, <1>5, <1>6, <1>7 DEF Akcp!IInv

LEMMA AkcpStep ==
    ASSUME Akcp!IInv, [Akcp!Next]_(Akcp!vars)
    PROVE  Akcp!IInv'
  <1>1. Akcp!TypeOK /\ Akcp!StateIsWorst /\ Akcp!BehindIsRead /\ Akcp!ExitIsRight
    BY DEF Akcp!IInv
  <1>2. /\ state \in {0, 1, 2, 3} /\ found \in Nat /\ sensor_found \in Nat /\ lost \in Nat
        /\ state = 2 <=> "critical" \in judged
        /\ state = 0 => judged \subseteq {"normal"}
        /\ found > 0 \/ sensor_found > 0 => judged # {}
        /\ pc = "loop" /\ state = 0 /\ sensor # <<>> /\ found > 0 => Akcp!HasNormal(sensor[i])
    BY <1>1 DEF Akcp!TypeOK, Akcp!StateIsWorst, Akcp!BehindIsRead, Akcp!STATE_OK, Akcp!STATE_WARNING,
                Akcp!STATE_CRITICAL, Akcp!STATE_UNKNOWN
  <1>3. CASE UNCHANGED Akcp!vars
    <2>1. UNCHANGED <<device, asked, sensor, i, kind, found, sensor_found, state, pc, code, lost, judged>>
      BY <1>3 DEF Akcp!vars
    <2>2. Akcp!Limit' = Akcp!Limit
      BY <2>1, NormalStays
    <2>3. Akcp!TypeOK'
      BY <1>1, <2>1, <2>2
         DEF Akcp!TypeOK, Akcp!Readings, Akcp!STATE_OK, Akcp!STATE_WARNING, Akcp!STATE_CRITICAL, Akcp!STATE_UNKNOWN
    <2>4. Akcp!StateIsWorst'
      BY <1>1, <2>1 DEF Akcp!StateIsWorst, Akcp!STATE_OK, Akcp!STATE_CRITICAL
    <2>5. Akcp!BehindIsRead'
      BY <1>1, <2>1 DEF Akcp!BehindIsRead, Akcp!STATE_OK, Akcp!HasNormal, Akcp!kinds
    <2>6. Akcp!ExitIsRight'
      BY <1>1, <2>1, <2>2 DEF Akcp!ExitIsRight, Akcp!STATE_UNKNOWN
    <2> QED
      BY <2>3, <2>4, <2>5, <2>6 DEF Akcp!IInv
  <1>4. CASE Akcp!Skip
    <2>1. pc = "loop" /\ Akcp!Advance(found, state) /\ UNCHANGED <<device, asked, sensor, lost, judged>>
      BY <1>4 DEF Akcp!Skip, Akcp!setup
    <2> QED
      BY <1>2, <2>1, AkcpAdvance
  <1>5. CASE Akcp!Lost
    <2>1. Akcp!Breaks /\ UNCHANGED <<device, asked, sensor, judged>> /\ lost' = lost + 1
      BY <1>5 DEF Akcp!Lost, Akcp!setup
    <2>2. lost' \in Nat /\ lost' # 0
      BY <1>2, <2>1
    <2> QED
      BY <2>1, <2>2, AkcpBreaks
  <1>6. CASE Akcp!Unavailable
    <2>1. Akcp!Breaks /\ UNCHANGED <<device, asked, sensor, judged, lost>> /\ sensor = <<>>
      BY <1>6 DEF Akcp!Unavailable, Akcp!setup
    <2> QED
      BY <1>2, <2>1, AkcpBreaks
  <1>7. CASE Akcp!Online
    <2>1. PICK r \in {"normal", "warning", "critical"} : r = Akcp!Reading
      BY <1>7 DEF Akcp!Online
    <2>2. PICK s : s = IF r = "normal" THEN state
                       ELSE IF r = "critical" THEN 2 ELSE IF state = 0 THEN 1 ELSE state
      OBVIOUS
    <2>3. pc = "loop" /\ judged' = judged \cup {r} /\ kind \in Akcp!kinds /\ UNCHANGED <<device, asked, sensor, lost>>
      BY <1>7, <2>1 DEF Akcp!Online, Akcp!setup
    <2>4. Akcp!Advance(found + 1, s)
      <3>1. CASE r = "normal"
        BY <1>7, <2>1, <2>2, <3>1 DEF Akcp!Online
      <3>2. CASE r = "warning"
        BY <1>7, <2>1, <2>2, <3>2 DEF Akcp!Online, Akcp!Unless, Akcp!STATE_OK, Akcp!STATE_WARNING
      <3>3. CASE r = "critical"
        BY <1>7, <2>1, <2>2, <3>3 DEF Akcp!Online, Akcp!STATE_CRITICAL
      <3> QED
        BY <2>1, <3>1, <3>2, <3>3
    <2>5. s \in {0, 1, 2, 3} /\ (s = 0 => r = "normal" /\ state = 0) /\ (s = 2 <=> state = 2 \/ r = "critical")
      BY <1>2, <2>1, <2>2
    <2>6. (s = 2 <=> "critical" \in judged') /\ (s = 0 => judged' \subseteq {"normal"} /\ state = 0) /\ judged' # {}
      BY <1>2, <2>3, <2>5
    <2>7. found + 1 \in Nat
      BY <1>2
    <2>8. s = 0 /\ sensor # <<>> => Akcp!HasNormal(sensor[i])
      BY <2>1, <2>3, <2>5 DEF Akcp!HasNormal, Akcp!Reading, Akcp!idx
    <2> QED
      BY <2>3, <2>4, <2>5, <2>6, <2>7, <2>8, AkcpAdvance
  <1>8. CASE Akcp!NoReading
    <2>1. PICK s : s \in {state, IF state = 0 THEN 3 ELSE state} /\ Akcp!Advance(found, s)
      BY <1>8 DEF Akcp!NoReading, Akcp!Unless, Akcp!STATE_OK, Akcp!STATE_UNKNOWN
    <2>2. pc = "loop" /\ UNCHANGED <<device, asked, sensor, lost, judged>>
      BY <1>8 DEF Akcp!NoReading, Akcp!setup
    <2>3. s \in {0, 1, 2, 3} /\ (s = 2 <=> state = 2) /\ (s = 0 => state = 0)
      BY <1>2, <2>1
    <2> QED
      BY <1>2, <2>1, <2>2, <2>3, AkcpAdvance
  <1> QED
    BY <1>3, <1>4, <1>5, <1>6, <1>7, <1>8 DEF Akcp!Next, Akcp!Terminated

(* The invariant of the loop over the sensors of an AKCP device. *)
THEOREM AkcpInvariant == Spec => [](check = "akcp" => Akcp!IInv)
  <1>1. Init => (check = "akcp" => Akcp!IInv)
    BY AkcpInit DEF Init
  <1>2. (check = "akcp" => Akcp!IInv) /\ [Next]_vars => (check = "akcp" => Akcp!IInv)'
    BY OneCheck, AkcpStep
  <1> QED
    BY <1>1, <1>2, PTL DEF Spec

(* The worst reading decides, and a listed sensor has one if all is well. *)
LEMMA AkcpIsJudged ==
    ASSUME Akcp!IInv
    PROVE  Akcp!WorstReadingWins /\ Akcp!ListedIsRead
  <1>1. Akcp!TypeOK /\ Akcp!StateIsWorst /\ Akcp!BehindIsRead /\ Akcp!ExitIsRight
    BY DEF Akcp!IInv
  <1>2. sensor_found \in Nat /\ sensor \in Seq(1 .. Positions)
    BY <1>1 DEF Akcp!TypeOK
  <1>3. pc = "exited" => code = IF sensor_found = 0 THEN 3 ELSE state
    BY <1>1 DEF Akcp!ExitIsRight, Akcp!STATE_UNKNOWN
  <1>4. Akcp!WorstReadingWins
    <2> SUFFICES ASSUME pc = "exited", sensor_found > 0
                 PROVE  (code = 2 <=> "critical" \in judged) /\ (code = 0 => judged = {"normal"})
      BY DEF Akcp!WorstReadingWins, Akcp!STATE_OK, Akcp!STATE_CRITICAL
    <2>1. code = state
      BY <1>2, <1>3
    <2>2. (state = 2 <=> "critical" \in judged) /\ (state = 0 => judged \subseteq {"normal"}) /\ judged # {}
      BY <1>1 DEF Akcp!StateIsWorst, Akcp!STATE_OK, Akcp!STATE_CRITICAL
    <2> QED
      BY <2>1, <2>2
  <1>5. Akcp!ListedIsRead
    <2> SUFFICES ASSUME pc = "exited", lost = 0, code = 0, NEW k \in DOMAIN sensor
                 PROVE  Akcp!HasNormal(sensor[k])
      BY DEF Akcp!ListedIsRead, Akcp!STATE_OK, Akcp!HasNormal
    <2>1. state = 0
      BY <1>3
    <2>2. Len(sensor) \in Nat /\ DOMAIN sensor = 1 .. Len(sensor) /\ (sensor = <<>> <=> Len(sensor) = 0)
      BY <1>2, TopFacts
    <2>3. sensor # <<>>
      BY <2>2
    <2>4. i = Len(sensor) + 1
      BY <1>1, <2>3 DEF Akcp!ExitIsRight, Akcp!Limit
    <2>5. k < i
      BY <2>2, <2>4
    <2> QED
      BY <1>1, <2>1, <2>3, <2>5 DEF Akcp!BehindIsRead, Akcp!STATE_OK
  <1> QED
    BY <1>4, <1>5

-----------------------------------------------------------------------------
(* check_apc_pdu                                                            *)

LEMMA PduInit ==
    ASSUME Pdu!Init
    PROVE  Pdu!IInv
  <1>1. todo = listed /\ pc = "fetch" /\ i = 0 /\ status = 0
    BY DEF Pdu!Init, Pdu!STATE_OK
  <1>2. outlets \in Seq([name : Outlets, state : {1, 2, 0}])
    <2>1. PICK n \in 0 .. MaxOutlets : outlets \in [1 .. n -> [name : Outlets, state : {1, 2, 0}]]
      BY DEF Pdu!Init, Pdu!ON, Pdu!OFF, Pdu!UNREADABLE
    <2>2. n \in Nat
      BY <2>1, ServicesAssumption
    <2> QED
      BY <2>1, <2>2, SeqDef
  <1>3. listed \in Seq([port : Ports, state : {1, 2}])
    <2>1. PICK on \in Pdu!Lists, off \in Pdu!Lists : listed = Pdu!Want(1, on) \o Pdu!Want(2, off)
      BY DEF Pdu!Init, Pdu!ON, Pdu!OFF
    <2>2. ASSUME NEW ports \in Pdu!Lists, NEW s \in {1, 2}
          PROVE  Pdu!Want(s, ports) \in Seq([port : Ports, state : {1, 2}])
      <3>1. PICK n \in 0 .. MaxPorts : ports \in [1 .. n -> Ports]
        BY <2>2 DEF Pdu!Lists
      <3>2. n \in Nat
        BY <3>1, ServicesAssumption
      <3>3. Pdu!Want(s, ports) \in [1 .. n -> [port : Ports, state : {1, 2}]]
        BY <2>2, <3>1 DEF Pdu!Want
      <3> QED
        BY <3>2, <3>3, FcnIsSeq
    <2> QED
      BY <2>1, <2>2, ConcatFacts
  <1>4. Len(outlets) \in Nat /\ Len(listed) \in Nat /\ DOMAIN listed = 1 .. Len(listed)
    BY <1>2, <1>3, TopFacts
  <1>5. Pdu!TypeOK
    BY <1>1, <1>2, <1>3, <1>4 DEF Pdu!TypeOK, Pdu!ON, Pdu!OFF, Pdu!UNREADABLE
  <1>6. Pdu!TodoIsListed
    <2>1. Pdu!Behind = 0
      BY <1>1, <1>4 DEF Pdu!Behind
    <2>2. \A k \in DOMAIN todo : Pdu!Behind + k = k
      BY <1>1, <1>4, <2>1
    <2> QED
      BY <1>1, <1>4, <2>2 DEF Pdu!TodoIsListed
  <1> QED
    BY <1>1, <1>5, <1>6 DEF Pdu!IInv, Pdu!StatusIsWorst, Pdu!LoopEnds, Pdu!ExitIsRight, Pdu!Reported, Pdu!STATE_OK

(* What the device and the lists are does not change. *)
LEMMA DeviceStays ==
    ASSUME UNCHANGED <<pdu_psu1, pdu_psu2, outlets, listed>>
    PROVE  /\ Pdu!BadSupply' = Pdu!BadSupply
           /\ \A k : Pdu!IsWrong(listed[k])' = Pdu!IsWrong(listed[k])
           /\ \A k : Pdu!IsNotFound(listed[k])' = Pdu!IsNotFound(listed[k])
  BY DEF Pdu!BadSupply, Pdu!IsWrong, Pdu!IsNotFound, Pdu!State, Pdu!Outlet, Pdu!UNREADABLE

(* The status of the ports and outlets behind the loops. *)
LEMMA StatusIs ==
    ASSUME Pdu!StatusIsWorst, pc \in {"all", "ports", "report"} \/ Pdu!Reported
    PROVE  status = IF \/ Pdu!BadSupply
                       \/ listed = <<>> /\ \E k \in 1 .. i : outlets[k].state = 2
                       \/ \E k \in 1 .. Pdu!Behind : Pdu!IsWrong(listed[k])
                    THEN 2
                    ELSE IF \E k \in 1 .. Pdu!Behind : Pdu!IsNotFound(listed[k]) THEN 3 ELSE 0
  BY DEF Pdu!StatusIsWorst, Pdu!OFF, Pdu!STATE_OK, Pdu!STATE_CRITICAL, Pdu!STATE_UNKNOWN

(* The same of the next state, where n outlets and b ports are behind. *)
LEMMA StatusBecomes ==
    ASSUME UNCHANGED <<pdu_psu1, pdu_psu2, outlets, listed>>, pc' \in {"all", "ports", "report", "exited"},
           pc' = "all" => listed = <<>>, pc' = "ports" => listed # <<>>,
           NEW n, i' = n, NEW b, Pdu!Behind' = b,
           status' = IF \/ Pdu!BadSupply
                        \/ listed = <<>> /\ \E k \in 1 .. n : outlets[k].state = 2
                        \/ \E k \in 1 .. b : Pdu!IsWrong(listed[k])
                     THEN 2
                     ELSE IF \E k \in 1 .. b : Pdu!IsNotFound(listed[k]) THEN 3 ELSE 0
    PROVE  Pdu!StatusIsWorst'
  <1>1. /\ Pdu!BadSupply' = Pdu!BadSupply
        /\ \A k : Pdu!IsWrong(listed[k])' = Pdu!IsWrong(listed[k])
        /\ \A k : Pdu!IsNotFound(listed[k])' = Pdu!IsNotFound(listed[k])
    BY DeviceStays
  <1> QED
    BY <1>1 DEF Pdu!StatusIsWorst, Pdu!OFF, Pdu!STATE_OK, Pdu!STATE_CRITICAL, Pdu!STATE_UNKNOWN

LEMMA PduTypes ==
    ASSUME Pdu!TypeOK
    PROVE  /\ outlets \in Seq([name : Outlets, state : {1, 2, 0}])
           /\ listed \in Seq([port : Ports, state : {1, 2}]) /\ todo \in Seq([port : Ports, state : {1, 2}])
           /\ Len(outlets) \in Nat /\ DOMAIN outlets = 1 .. Len(outlets) /\ i \in 0 .. Len(outlets)
           /\ Len(listed) \in Nat /\ DOMAIN listed = 1 .. Len(listed) /\ (listed = <<>> <=> Len(listed) = 0)
           /\ Len(todo) \in Nat /\ DOMAIN todo = 1 .. Len(todo) /\ (todo = <<>> <=> Len(todo) = 0)
           /\ \A k \in DOMAIN outlets : outlets[k].state \in {1, 2, 0}
           /\ \A k \in DOMAIN listed : listed[k].state \in {1, 2}
  <1>1. /\ outlets \in Seq([name : Outlets, state : {1, 2, 0}])
        /\ listed \in Seq([port : Ports, state : {1, 2}]) /\ todo \in Seq([port : Ports, state : {1, 2}])
        /\ i \in 0 .. Len(outlets)
    BY DEF Pdu!TypeOK, Pdu!ON, Pdu!OFF, Pdu!UNREADABLE
  <1>2. /\ Len(outlets) \in Nat /\ DOMAIN outlets = 1 .. Len(outlets)
        /\ \A k \in 1 .. Len(outlets) : outlets[k] \in [name : Outlets, state : {1, 2, 0}]
    BY <1>1, TopFacts
  <1>3. /\ Len(listed) \in Nat /\ DOMAIN listed = 1 .. Len(listed) /\ (listed = <<>> <=> Len(listed) = 0)
        /\ \A k \in 1 .. Len(listed) : listed[k] \in [port : Ports, state : {1, 2}]
    BY <1>1, TopFacts
  <1>4. Len(todo) \in Nat /\ DOMAIN todo = 1 .. Len(todo) /\ (todo = <<>> <=> Len(todo) = 0)
    BY <1>1, TopFacts
  <1> QED
    BY <1>1, <1>2, <1>3, <1>4

LEMMA TodoStays ==
    ASSUME Pdu!TodoIsListed, UNCHANGED <<listed, todo>>
    PROVE  Pdu!TodoIsListed' /\ Pdu!Behind' = Pdu!Behind
  BY DEF Pdu!TodoIsListed, Pdu!Behind

LEMMA PduTypeStays ==
    ASSUME Pdu!TypeOK, UNCHANGED <<outlets, listed>>, todo' \in Seq([port : Ports, state : {1, 2}]),
           pc' \in {"fetch", "psu", "all", "ports", "report", "exited"}, i' \in 0 .. Len(outlets)
    PROVE  Pdu!TypeOK'
  BY DEF Pdu!TypeOK, Pdu!ON, Pdu!OFF, Pdu!UNREADABLE

(* One outlet of a PDU without a list. *)
LEMMA AllOutletsStep ==
    ASSUME Pdu!IInv, Pdu!AllOutlets
    PROVE  Pdu!IInv'
  <1>1. Pdu!TypeOK /\ Pdu!TodoIsListed /\ Pdu!StatusIsWorst
    BY DEF Pdu!IInv
  <1>2. /\ pc = "all" /\ listed = <<>> /\ UNCHANGED <<pdu_psu1, pdu_psu2, outlets, listed, todo, code>>
        /\ \/ Pdu!State(i + 1) = 0 /\ pc' = "report" /\ UNCHANGED <<i, status>>
           \/ /\ Pdu!State(i + 1) # 0 /\ i' = i + 1 /\ pc' = "all"
              /\ status' = IF Pdu!State(i + 1) # 1 THEN 2 ELSE status
    BY <1>1 DEF Pdu!AllOutlets, Pdu!device, Pdu!StatusIsWorst, Pdu!ON, Pdu!UNREADABLE, Pdu!STATE_CRITICAL
  <1>3. /\ Len(outlets) \in Nat /\ DOMAIN outlets = 1 .. Len(outlets) /\ i \in 0 .. Len(outlets)
        /\ \A k \in DOMAIN outlets : outlets[k].state \in {1, 2, 0}
        /\ todo \in Seq([port : Ports, state : {1, 2}])
    BY <1>1, PduTypes
  <1>4. Pdu!Behind' = Pdu!Behind /\ Pdu!TodoIsListed'
    BY <1>1, <1>2, TodoStays
  <1>5. Pdu!Behind = 0
    <2>1. /\ Len(todo) \in Nat /\ Len(listed) \in Nat /\ Len(listed) = 0
      BY <1>1, <1>2, PduTypes
    <2>2. Len(todo) <= Len(listed)
      BY <1>1 DEF Pdu!TodoIsListed
    <2> QED
      BY <2>1, <2>2 DEF Pdu!Behind
  <1>6. 1 .. Pdu!Behind = {}
    BY <1>5
  <1>7. status = IF Pdu!BadSupply \/ \E k \in 1 .. i : outlets[k].state = 2 THEN 2 ELSE 0
    BY <1>1, <1>2, <1>6, StatusIs
  <1>8. CASE Pdu!State(i + 1) = 0 /\ pc' = "report" /\ UNCHANGED <<i, status>>
    <2>1. Pdu!TypeOK'
      BY <1>1, <1>2, <1>3, <1>8, PduTypeStays
    <2>2. Pdu!StatusIsWorst'
      <3>1. PICK n, b : n = i /\ b = Pdu!Behind
        OBVIOUS
      <3>2. i' = n /\ Pdu!Behind' = b /\ 1 .. b = {}
        BY <1>4, <1>6, <1>8, <3>1
      <3>3. status' = IF Pdu!BadSupply \/ \E k \in 1 .. n : outlets[k].state = 2 THEN 2 ELSE 0
        BY <1>7, <1>8, <3>1
      <3> QED
        BY <1>2, <1>8, <3>2, <3>3, StatusBecomes
    <2>3. Pdu!LoopEnds'
      <3>1. Pdu!State(i + 1)' = Pdu!State(i + 1)
        BY <1>2, <1>8 DEF Pdu!State, Pdu!UNREADABLE
      <3> QED
        BY <1>2, <1>8, <3>1 DEF Pdu!LoopEnds, Pdu!UNREADABLE
    <2> QED
      BY <1>4, <1>8, <2>1, <2>2, <2>3 DEF Pdu!IInv, Pdu!ExitIsRight
  <1>9. CASE /\ Pdu!State(i + 1) # 0 /\ i' = i + 1 /\ pc' = "all"
             /\ status' = IF Pdu!State(i + 1) # 1 THEN 2 ELSE status
    <2>1. i + 1 \in DOMAIN outlets /\ Pdu!State(i + 1) = outlets[i + 1].state
      BY <1>9 DEF Pdu!State, Pdu!UNREADABLE
    <2>2. i' \in 0 .. Len(outlets) /\ i \in Nat
      BY <1>3, <1>9, <2>1
    <2>3. Pdu!TypeOK'
      BY <1>1, <1>2, <1>3, <1>9, <2>2, PduTypeStays
    <2>4. Pdu!StatusIsWorst'
      <3>1. PICK n, b : n = i + 1 /\ b = Pdu!Behind
        OBVIOUS
      <3>2. i' = n /\ Pdu!Behind' = b /\ 1 .. b = {}
        BY <1>4, <1>6, <1>9, <3>1
      <3>3. 1 .. n = 1 .. i \cup {i + 1}
        BY <2>2, <3>1
      <3>4. outlets[i + 1].state \in {1, 2}
        BY <1>3, <1>9, <2>1
      <3>5. status' = IF outlets[i + 1].state = 2 THEN 2 ELSE status
        BY <1>9, <2>1, <3>4
      <3>6. status' = IF Pdu!BadSupply \/ \E k \in 1 .. n : outlets[k].state = 2 THEN 2 ELSE 0
        BY <1>7, <3>3, <3>5
      <3> QED
        BY <1>2, <1>9, <3>2, <3>6, StatusBecomes
    <2> QED
      BY <1>4, <1>9, <2>3, <2>4 DEF Pdu!IInv, Pdu!LoopEnds, Pdu!Reported, Pdu!ExitIsRight
  <1> QED
    BY <1>2, <1>8, <1>9

(* One listed port. *)
LEMMA PortStep ==
    ASSUME Pdu!IInv, Pdu!Port
    PROVE  Pdu!IInv'
  <1>1. Pdu!TypeOK /\ Pdu!TodoIsListed /\ Pdu!StatusIsWorst
    BY DEF Pdu!IInv
  <1>2. /\ pc = "ports" /\ todo # <<>> /\ todo' = Tail(todo) /\ UNCHANGED <<pdu_psu1, pdu_psu2, outlets, listed, pc, i, code>>
        /\ listed # <<>>
    BY <1>1 DEF Pdu!Port, Pdu!device, Pdu!StatusIsWorst
  <1>3. /\ Len(listed) \in Nat /\ DOMAIN listed = 1 .. Len(listed) /\ i \in 0 .. Len(outlets)
        /\ Len(todo) \in Nat /\ todo \in Seq([port : Ports, state : {1, 2}])
        /\ \A k \in DOMAIN listed : listed[k].state \in {1, 2}
    BY <1>1, PduTypes
  <1>4. /\ Head(todo) = todo[1] /\ 1 \in DOMAIN todo /\ Tail(todo) \in Seq([port : Ports, state : {1, 2}])
        /\ Len(Tail(todo)) = Len(todo) - 1 /\ DOMAIN Tail(todo) = 1 .. Len(todo) - 1 /\ DOMAIN todo = 1 .. Len(todo)
        /\ \A k \in DOMAIN Tail(todo) : k + 1 \in DOMAIN todo /\ Tail(todo)[k] = todo[k + 1]
    BY <1>2, <1>3, TailFacts, TopFacts
  <1>5. Len(todo) <= Len(listed) /\ \A k \in DOMAIN todo : todo[k] = listed[Pdu!Behind + k]
    BY <1>1 DEF Pdu!TodoIsListed
  <1>6. Pdu!Behind \in Nat /\ Pdu!Behind' = Pdu!Behind + 1 /\ Pdu!Behind + 1 \in DOMAIN listed
    <2>1. Pdu!Behind = Len(listed) - Len(todo) /\ Pdu!Behind' = Len(listed) - (Len(todo) - 1)
      BY <1>2, <1>4 DEF Pdu!Behind
    <2>2. 1 <= Len(todo)
      BY <1>3, <1>4
    <2> QED
      BY <1>3, <1>5, <2>1, <2>2
  <1>7. Pdu!TodoIsListed'
    <2>1. Len(todo') <= Len(listed)
      BY <1>2, <1>3, <1>4, <1>5
    <2>2. ASSUME NEW k \in DOMAIN todo'
          PROVE  todo'[k] = listed[Pdu!Behind' + k]
      <3>1. k \in DOMAIN Tail(todo) /\ k \in Int
        BY <1>2, <1>4
      <3>2. todo'[k] = listed[Pdu!Behind + (k + 1)]
        BY <1>2, <1>4, <1>5, <3>1
      <3>3. Pdu!Behind' + k = Pdu!Behind + (k + 1)
        BY <1>6, <3>1
      <3> QED
        BY <3>2, <3>3
    <2> QED
      BY <1>2, <2>1, <2>2 DEF Pdu!TodoIsListed
  <1>8. Pdu!TypeOK'
    BY <1>1, <1>2, <1>3, <1>4, PduTypeStays
  <1>9. PICK w : w = listed[Pdu!Behind + 1] /\ w = Head(todo)
    BY <1>4, <1>5
  <1>10. PICK s : s = Pdu!State(Pdu!Outlet(w.port))
    OBVIOUS
  <1>11. status' = IF s = 0 THEN IF status = 0 THEN 3 ELSE status ELSE IF s # w.state THEN 2 ELSE status
    BY <1>9, <1>10 DEF Pdu!Port, Pdu!UNREADABLE, Pdu!STATE_OK, Pdu!STATE_CRITICAL, Pdu!STATE_UNKNOWN
  <1>12. (Pdu!IsWrong(w) <=> s # w.state /\ s # 0) /\ (Pdu!IsNotFound(w) <=> s = 0) /\ w.state # 0
    <2>1. w.state \in {1, 2}
      BY <1>3, <1>6, <1>9
    <2>2. w.state # 0
      BY <2>1
    <2>3. (Pdu!IsWrong(w) <=> s # w.state /\ s # 0) /\ (Pdu!IsNotFound(w) <=> s = 0)
      BY <1>10 DEF Pdu!IsWrong, Pdu!IsNotFound, Pdu!UNREADABLE
    <2> QED
      BY <2>2, <2>3
  <1>13. Pdu!StatusIsWorst'
    <2>1. PICK n, b : n = i /\ b = Pdu!Behind + 1
      OBVIOUS
    <2>2. i' = n /\ Pdu!Behind' = b
      BY <1>2, <1>6, <2>1
    <2>3. 1 .. b = 1 .. Pdu!Behind \cup {Pdu!Behind + 1}
      BY <1>6, <2>1
    <2> DEFINE wrong == Pdu!BadSupply \/ \E k \in 1 .. Pdu!Behind : Pdu!IsWrong(listed[k])
               lost1 == \E k \in 1 .. Pdu!Behind : Pdu!IsNotFound(listed[k])
    <2>4. status = IF wrong THEN 2 ELSE IF lost1 THEN 3 ELSE 0
      BY <1>1, <1>2, StatusIs
    <2>5. /\ (\E k \in 1 .. b : Pdu!IsWrong(listed[k])) <=>
                (\E k \in 1 .. Pdu!Behind : Pdu!IsWrong(listed[k])) \/ Pdu!IsWrong(w)
          /\ (\E k \in 1 .. b : Pdu!IsNotFound(listed[k])) <=> lost1 \/ Pdu!IsNotFound(w)
      BY <1>9, <2>3
    <2>6. status' = IF wrong \/ Pdu!IsWrong(w) THEN 2 ELSE IF lost1 \/ Pdu!IsNotFound(w) THEN 3 ELSE 0
      <3> HIDE DEF wrong, lost1
      <3> QED
        BY <1>11, <1>12, <2>4
    <2>7. status' = IF \/ Pdu!BadSupply
                       \/ \E k \in 1 .. b : Pdu!IsWrong(listed[k])
                    THEN 2
                    ELSE IF \E k \in 1 .. b : Pdu!IsNotFound(listed[k]) THEN 3 ELSE 0
      BY <2>5, <2>6
    <2> QED
      BY <1>2, <2>2, <2>7, StatusBecomes
  <1> QED
    BY <1>2, <1>7, <1>8, <1>13 DEF Pdu!IInv, Pdu!LoopEnds, Pdu!Reported, Pdu!ExitIsRight

LEMMA PduStep ==
    ASSUME Pdu!IInv, [Pdu!Next]_(Pdu!vars)
    PROVE  Pdu!IInv'
  <1>1. Pdu!TypeOK /\ Pdu!TodoIsListed /\ Pdu!StatusIsWorst /\ Pdu!LoopEnds /\ Pdu!ExitIsRight
    BY DEF Pdu!IInv
  <1>2. /\ todo \in Seq([port : Ports, state : {1, 2}]) /\ i \in 0 .. Len(outlets)
        /\ Len(listed) \in Nat
    BY <1>1, PduTypes
  <1>3. ASSUME UNCHANGED <<pdu_psu1, pdu_psu2, outlets, listed, todo, i, status>>,
               pc \in {"all", "ports", "report"} \/ Pdu!Reported, pc' \in {"all", "ports", "report", "exited"},
               pc' = "all" => listed = <<>>, pc' = "ports" => listed # <<>>
        PROVE  Pdu!TypeOK' /\ Pdu!TodoIsListed' /\ Pdu!StatusIsWorst'
    <2>1. Pdu!TypeOK' /\ Pdu!TodoIsListed' /\ Pdu!Behind' = Pdu!Behind
      BY <1>1, <1>2, <1>3, PduTypeStays, TodoStays
    <2>2. PICK n, b : n = i /\ b = Pdu!Behind
      OBVIOUS
    <2>3. i' = n /\ Pdu!Behind' = b
      BY <1>3, <2>1, <2>2
    <2>4. status' = IF \/ Pdu!BadSupply
                       \/ listed = <<>> /\ \E k \in 1 .. n : outlets[k].state = 2
                       \/ \E k \in 1 .. b : Pdu!IsWrong(listed[k])
                    THEN 2
                    ELSE IF \E k \in 1 .. b : Pdu!IsNotFound(listed[k]) THEN 3 ELSE 0
      BY <1>1, <1>3, <2>2, StatusIs
    <2>5. Pdu!StatusIsWorst'
      BY <1>3, <2>3, <2>4, StatusBecomes
    <2> QED
      BY <2>1, <2>5
  <1>4. CASE UNCHANGED Pdu!vars
    <2>1. UNCHANGED <<pdu_psu1, pdu_psu2, outlets, listed, todo, pc, i, status, code>>
      BY <1>4 DEF Pdu!vars
    <2>2. Pdu!TypeOK' /\ Pdu!TodoIsListed' /\ Pdu!Behind' = Pdu!Behind
      BY <1>1, <1>2, <2>1, PduTypeStays, TodoStays DEF Pdu!TypeOK
    <2>3. Pdu!StatusIsWorst'
      <3>1. CASE pc \in {"all", "ports", "report"} \/ Pdu!Reported
        <4>1. pc' \in {"all", "ports", "report", "exited"} /\ (pc' = "all" => listed = <<>>)
              /\ (pc' = "ports" => listed # <<>>)
          BY <1>1, <2>1, <3>1 DEF Pdu!StatusIsWorst, Pdu!Reported
        <4> QED
          BY <1>3, <2>1, <3>1, <4>1
      <3>2. CASE ~(pc \in {"all", "ports", "report"} \/ Pdu!Reported)
        BY <1>1, <2>1, <3>2 DEF Pdu!StatusIsWorst, Pdu!Reported, Pdu!STATE_OK
      <3> QED
        BY <3>1, <3>2
    <2>4. Pdu!LoopEnds' /\ Pdu!ExitIsRight'
      BY <1>1, <2>1 DEF Pdu!LoopEnds, Pdu!ExitIsRight, Pdu!Reported, Pdu!State, Pdu!UNREADABLE, Pdu!STATE_OK,
                        Pdu!STATE_UNKNOWN
    <2> QED
      BY <2>2, <2>3, <2>4 DEF Pdu!IInv
  <1>5. CASE Pdu!Fetch
    <2>1. /\ pc = "fetch" /\ UNCHANGED <<pdu_psu1, pdu_psu2, outlets, listed, todo, i, status>>
          /\ pc' = "psu" \/ (pc' = "exited" /\ code' = 3)
      BY <1>5 DEF Pdu!Fetch, Pdu!device, Pdu!STATE_UNKNOWN
    <2>2. status = 0 /\ i = 0 /\ todo = listed
      BY <1>1, <2>1 DEF Pdu!StatusIsWorst, Pdu!STATE_OK
    <2>3. Pdu!TypeOK' /\ Pdu!TodoIsListed'
      BY <1>1, <1>2, <2>1, PduTypeStays, TodoStays
    <2>4. ~Pdu!Reported'
      BY <2>1, <2>2 DEF Pdu!Reported
    <2> QED
      BY <2>1, <2>2, <2>3, <2>4
         DEF Pdu!IInv, Pdu!StatusIsWorst, Pdu!LoopEnds, Pdu!ExitIsRight, Pdu!STATE_OK, Pdu!STATE_UNKNOWN
  <1>6. CASE Pdu!PowerSupplies
    <2>1. /\ pc = "psu" /\ UNCHANGED <<pdu_psu1, pdu_psu2, outlets, listed, todo, i, code>>
          /\ status' = IF Pdu!BadSupply THEN 2 ELSE status
          /\ pc' = IF listed = <<>> THEN "all" ELSE "ports"
      BY <1>6 DEF Pdu!PowerSupplies, Pdu!device, Pdu!BadSupply, Pdu!STATE_CRITICAL
    <2>2. status = 0 /\ i = 0 /\ todo = listed
      BY <1>1, <2>1 DEF Pdu!StatusIsWorst, Pdu!STATE_OK
    <2>3. Pdu!TypeOK' /\ Pdu!TodoIsListed' /\ Pdu!Behind' = Pdu!Behind
      BY <1>1, <1>2, <2>1, PduTypeStays, TodoStays
    <2>4. Pdu!Behind = 0
      BY <1>2, <2>2 DEF Pdu!Behind
    <2>5. PICK n, b : n = 0 /\ b = 0
      OBVIOUS
    <2>6. i' = n /\ Pdu!Behind' = b /\ 1 .. n = {} /\ 1 .. b = {}
      BY <2>1, <2>2, <2>3, <2>4, <2>5
    <2>7. Pdu!StatusIsWorst'
      BY <2>1, <2>2, <2>6, StatusBecomes
    <2> QED
      BY <2>1, <2>3, <2>7 DEF Pdu!IInv, Pdu!LoopEnds, Pdu!Reported, Pdu!ExitIsRight
  <1>7. CASE Pdu!AllOutlets
    BY <1>7, AllOutletsStep
  <1>8. CASE Pdu!Port
    BY <1>8, PortStep
  <1>9. CASE Pdu!PortsDone
    <2>1. /\ pc = "ports" /\ todo = <<>> /\ pc' = "report"
          /\ UNCHANGED <<pdu_psu1, pdu_psu2, outlets, listed, todo, i, status, code>> /\ listed # <<>>
      BY <1>1, <1>9 DEF Pdu!PortsDone, Pdu!device, Pdu!StatusIsWorst
    <2>2. Pdu!TypeOK' /\ Pdu!TodoIsListed' /\ Pdu!StatusIsWorst'
      BY <1>3, <2>1
    <2> QED
      BY <2>1, <2>2 DEF Pdu!IInv, Pdu!LoopEnds, Pdu!ExitIsRight
  <1>10. CASE Pdu!Report
    <2>1. /\ pc = "report" /\ pc' = "exited" /\ code' = status
          /\ UNCHANGED <<pdu_psu1, pdu_psu2, outlets, listed, todo, i, status>>
      BY <1>10 DEF Pdu!Report, Pdu!device
    <2>2. Pdu!TypeOK' /\ Pdu!TodoIsListed' /\ Pdu!StatusIsWorst'
      BY <1>3, <2>1
    <2>3. Pdu!LoopEnds'
      BY <1>1, <2>1 DEF Pdu!LoopEnds, Pdu!State, Pdu!UNREADABLE
    <2> QED
      BY <2>1, <2>2, <2>3 DEF Pdu!IInv, Pdu!ExitIsRight
  <1> QED
    BY <1>4, <1>5, <1>6, <1>7, <1>8, <1>9, <1>10 DEF Pdu!Next, Pdu!Terminated

(* The invariant of the loops over outlets and listed ports. *)
THEOREM PduInvariant == Spec => [](check = "pdu" => Pdu!IInv)
  <1>1. Init => (check = "pdu" => Pdu!IInv)
    BY PduInit DEF Init
  <1>2. (check = "pdu" => Pdu!IInv) /\ [Next]_vars => (check = "pdu" => Pdu!IInv)'
    BY OneCheck, PduStep
  <1> QED
    BY <1>1, <1>2, PTL DEF Spec

(* A fault of a PDU outweighs a port that is not found, and a number means the
   outlet in that place. *)
LEMMA PduIsJudged ==
    ASSUME Pdu!IInv
    PROVE  Pdu!WorstOutletWins /\ Pdu!NumbersAreOutlets
  <1> SUFFICES ASSUME Pdu!Reported
               PROVE  Pdu!WorstOutletWins /\ Pdu!NumbersAreOutlets
    BY DEF Pdu!WorstOutletWins, Pdu!NumbersAreOutlets
  <1>1. Pdu!TypeOK /\ Pdu!TodoIsListed /\ Pdu!StatusIsWorst /\ Pdu!LoopEnds /\ code = status
    BY DEF Pdu!IInv, Pdu!Reported
  <1>2. /\ Len(listed) \in Nat /\ DOMAIN listed = 1 .. Len(listed) /\ (listed = <<>> <=> Len(listed) = 0)
        /\ Len(todo) \in Nat /\ (todo = <<>> <=> Len(todo) = 0)
        /\ Len(outlets) \in Nat /\ DOMAIN outlets = 1 .. Len(outlets) /\ i \in 0 .. Len(outlets)
    BY <1>1, PduTypes
  <1>3. Pdu!Behind = Len(listed)
    <2>1. todo = <<>>
      <3>1. CASE listed = <<>>
        <4>1. Len(todo) <= 0
          BY <1>1, <1>2, <3>1 DEF Pdu!TodoIsListed
        <4> QED
          BY <1>2, <4>1
      <3>2. CASE listed # <<>>
        BY <1>1, <3>2 DEF Pdu!LoopEnds
      <3> QED
        BY <3>1, <3>2
    <2> QED
      BY <1>2, <2>1 DEF Pdu!Behind
  <1>4. Pdu!ToSet(listed) = {listed[k] : k \in 1 .. Pdu!Behind}
    BY <1>2, <1>3 DEF Pdu!ToSet
  <1>5. code = IF \/ Pdu!BadSupply
                  \/ listed = <<>> /\ \E k \in 1 .. i : outlets[k].state = 2
                  \/ \E w \in Pdu!ToSet(listed) : Pdu!IsWrong(w)
               THEN 2
               ELSE IF \E w \in Pdu!ToSet(listed) : Pdu!IsNotFound(w) THEN 3 ELSE 0
    BY <1>1, <1>4, StatusIs
  <1>6. ASSUME Pdu!AllRead \/ listed # <<>>
        PROVE  code = IF Pdu!BadSupply \/ Pdu!Wrong THEN 2 ELSE IF Pdu!NotFound THEN 3 ELSE 0
    <2>1. Pdu!NotFound <=> \E w \in Pdu!ToSet(listed) : Pdu!IsNotFound(w)
      BY DEF Pdu!NotFound, Pdu!IsNotFound
    <2>2. CASE listed # <<>>
      <3>1. Pdu!Wrong <=> \E w \in Pdu!ToSet(listed) : Pdu!IsWrong(w)
        BY <2>2 DEF Pdu!Wrong, Pdu!IsWrong
      <3> QED
        BY <1>5, <2>1, <2>2, <3>1
    <2>3. CASE listed = <<>>
      <3>1. i = Len(outlets)
        <4>1. CASE Pdu!State(i + 1) = 0
          <5>1. i + 1 \notin DOMAIN outlets
            BY <1>6, <2>3, <4>1 DEF Pdu!State, Pdu!AllRead, Pdu!UNREADABLE
          <5>2. i \in 0 .. Len(outlets) /\ Len(outlets) \in Nat /\ i + 1 \notin 1 .. Len(outlets)
            BY <1>2, <5>1
          <5> QED
            BY <5>2
        <4> QED
          BY <1>1, <2>3, <4>1 DEF Pdu!LoopEnds, Pdu!UNREADABLE
      <3>2. Pdu!Wrong <=> \E k \in 1 .. i : outlets[k].state = 2
        BY <1>2, <2>3, <3>1 DEF Pdu!Wrong, Pdu!OFF
      <3>3. Pdu!ToSet(listed) = {}
        <4>1. 1 .. Pdu!Behind = {}
          BY <1>2, <1>3, <2>3
        <4> QED
          BY <1>4, <4>1
      <3> QED
        BY <1>5, <2>1, <2>3, <3>2, <3>3
    <2> QED
      BY <2>2, <2>3
  <1>7. Pdu!WorstOutletWins
    BY <1>6 DEF Pdu!WorstOutletWins, Pdu!BadSupply, Pdu!STATE_OK, Pdu!STATE_CRITICAL, Pdu!STATE_UNKNOWN
  <1>8. ASSUME code = 0, NEW w \in Pdu!ToSet(listed), Number[w.port] # 0
        PROVE  Number[w.port] \in DOMAIN outlets /\ outlets[Number[w.port]].state = w.state
    <2>1. ~Pdu!IsWrong(w) /\ ~Pdu!IsNotFound(w)
      BY <1>5, <1>8
    <2>2. Pdu!Outlet(w.port) = Number[w.port]
      BY <1>8 DEF Pdu!Outlet
    <2>3. Pdu!State(Number[w.port]) # 0 /\ Pdu!State(Number[w.port]) = w.state
      BY <2>1, <2>2 DEF Pdu!IsWrong, Pdu!IsNotFound, Pdu!UNREADABLE
    <2> QED
      BY <2>3 DEF Pdu!State, Pdu!UNREADABLE
  <1>9. Pdu!NumbersAreOutlets
    BY <1>8 DEF Pdu!NumbersAreOutlets, Pdu!STATE_OK
  <1> QED
    BY <1>7, <1>9

(* The worst outlet, reading or judgement decides what check_apc_pdu,
   check_akcp and check_snmp_ups end with, and nothing that was asked for is
   passed over, for devices and lists of any size. *)
THEOREM DevicesWereJudged == Spec => []DevicesAreJudged
  <1>1. (check = "pdu" => Pdu!IInv) /\ (check = "akcp" => Akcp!IInv) /\ (check = "ups" => Ups!IInv) => DevicesAreJudged
    BY PduIsJudged, AkcpIsJudged, UpsIsJudged DEF DevicesAreJudged
  <1> QED
    BY <1>1, PduInvariant, AkcpInvariant, UpsInvariant, PTL

-----------------------------------------------------------------------------
(* check_keepalived_vrrp                                                    *)

LEMMA VrrpInit ==
    ASSUME Vrrp!Init
    PROVE  Vrrp!IInv
  <1>1. instance = asked /\ table = <<>> /\ rc = 0 /\ pc = "fetch" /\ i = 0 /\ mp_state = -1
    BY DEF Vrrp!Init, Vrrp!STAT_SUCCESS
  <1>2. asked \in Seq(Instances \cup Wildcards)
    <2>1. PICK n \in 0 .. MaxInstances : asked \in [1 .. n -> Instances \cup Wildcards]
      BY DEF Vrrp!Init
    <2>2. n \in Nat
      BY <2>1, ServicesAssumption
    <2> QED
      BY <2>1, <2>2, FcnIsSeq
  <1>3. instance \in Seq(Instances \cup Wildcards \cup {"NULL"})
    BY <1>1, <1>2, SeqMonotonic
  <1>4. device \in Seq(Vrrp!Rows) /\ \A k, l \in DOMAIN device : device[k].name = device[l].name => k = l
    <2>1. PICK n \in 0 .. MaxVrrpRows : device \in [1 .. n -> Vrrp!Rows]
      BY DEF Vrrp!Init
    <2>2. n \in Nat
      BY <2>1, ServicesAssumption
    <2>3. device \in Seq(Vrrp!Rows)
      BY <2>1, <2>2, FcnIsSeq
    <2> QED
      BY <2>3 DEF Vrrp!Init
  <1>5. Vrrp!TypeOK
    BY <1>1, <1>2, <1>3, <1>4 DEF Vrrp!TypeOK
  <1>6. \A k : ~Vrrp!Behind(k)
    BY <1>1 DEF Vrrp!Behind
  <1>7. Vrrp!RowsAreRight /\ Vrrp!OptionsAreRight /\ Vrrp!WellIsQuiet
    BY <1>1, <1>6 DEF Vrrp!RowsAreRight, Vrrp!OptionsAreRight, Vrrp!WellIsQuiet
  <1> QED
    BY <1>1, <1>5, <1>7
       DEF Vrrp!IInv, Vrrp!Fetched, Vrrp!LoopIsRight, Vrrp!RestIsReported, Vrrp!ExitIsRight, Vrrp!Ran, Vrrp!STAT_SUCCESS

(* What is on the router and what is asked for does not change. *)
LEMMA RouterStays ==
    ASSUME UNCHANGED <<asked, device>>
    PROVE  /\ \A k : Vrrp!Seen(k)' <=> Vrrp!Seen(k)
           /\ \A k : Vrrp!Selected(device[k])' <=> Vrrp!Selected(device[k])
           /\ Vrrp!AllIsWell' <=> Vrrp!AllIsWell
  <1>1. \A k : Vrrp!Seen(k)' <=> Vrrp!Seen(k)
    BY DEF Vrrp!Seen
  <1>2. \A k : Vrrp!Selected(device[k])' <=> Vrrp!Selected(device[k])
    BY DEF Vrrp!Selected, Vrrp!Options, Vrrp!mp_strmatch
  <1>3. Vrrp!AllIsWell' <=> Vrrp!AllIsWell
    BY DEF Vrrp!AllIsWell, Vrrp!Options, Vrrp!Has, Vrrp!Seen, Vrrp!Selected, Vrrp!mp_strmatch
  <1> QED
    BY <1>1, <1>2, <1>3

LEMMA VrrpTypes ==
    ASSUME Vrrp!TypeOK
    PROVE  /\ asked \in Seq(Instances \cup Wildcards) /\ instance \in Seq(Instances \cup Wildcards \cup {"NULL"})
           /\ device \in Seq(Vrrp!Rows) /\ i \in Nat /\ mp_state \in {-1, 1, 2}
           /\ Len(asked) \in Nat /\ DOMAIN asked = 1 .. Len(asked) /\ (asked = <<>> <=> Len(asked) = 0)
           /\ Len(instance) = Len(asked) /\ DOMAIN instance = 1 .. Len(asked)
           /\ Len(device) \in Nat /\ DOMAIN device = 1 .. Len(device)
           /\ \A k \in DOMAIN device : device[k].state \in {"initial", "other", "fault", "unreadable", "unnamed"}
           /\ \A p \in DOMAIN asked : asked[p] \in Instances \cup Wildcards
           /\ \A k, l \in DOMAIN device : device[k].name = device[l].name => k = l
  <1>1. /\ asked \in Seq(Instances \cup Wildcards) /\ instance \in Seq(Instances \cup Wildcards \cup {"NULL"})
        /\ device \in Seq(Vrrp!Rows) /\ i \in Nat /\ mp_state \in {-1, 1, 2} /\ Len(instance) = Len(asked)
        /\ \A k, l \in DOMAIN device : device[k].name = device[l].name => k = l
    BY DEF Vrrp!TypeOK, Vrrp!STATE_WARNING, Vrrp!STATE_CRITICAL
  <1>2. /\ Len(asked) \in Nat /\ DOMAIN asked = 1 .. Len(asked) /\ (asked = <<>> <=> Len(asked) = 0)
        /\ \A p \in 1 .. Len(asked) : asked[p] \in Instances \cup Wildcards
    BY <1>1, TopFacts
  <1>3. DOMAIN instance = 1 .. Len(instance)
    BY <1>1, TopFacts
  <1>4. /\ Len(device) \in Nat /\ DOMAIN device = 1 .. Len(device)
        /\ \A k \in 1 .. Len(device) : device[k] \in Vrrp!Rows
    BY <1>1, TopFacts
  <1>5. \A k \in DOMAIN device : device[k].state \in {"initial", "other", "fault", "unreadable", "unnamed"}
    BY <1>4 DEF Vrrp!Rows
  <1> QED
    BY <1>1, <1>2, <1>3, <1>4, <1>5

(* A step that looks at no row. *)
LEMMA NoRowStep ==
    ASSUME Vrrp!TypeOK, Vrrp!RowsAreRight, Vrrp!OptionsAreRight, Vrrp!WellIsQuiet,
           UNCHANGED <<asked, device, instance>>,
           \A k \in DOMAIN device : Vrrp!Behind(k)' <=> Vrrp!Behind(k),
           messages \subseteq messages', mp_state # -1 => mp_state' # -1,
           Vrrp!AllIsWell => mp_state' = mp_state,
           pc' \in {"fetch", "rows", "unmatched", "exited", "crashed"}, pc' = "crashed" => ~Vrrp!AllIsWell,
           i' \in Nat, mp_state' \in {-1, 1, 2}
    PROVE  Vrrp!TypeOK' /\ Vrrp!RowsAreRight' /\ Vrrp!OptionsAreRight' /\ Vrrp!WellIsQuiet'
  <1>1. /\ \A k : Vrrp!Selected(device[k])' <=> Vrrp!Selected(device[k])
        /\ Vrrp!AllIsWell' <=> Vrrp!AllIsWell
    BY RouterStays
  <1>2. Vrrp!TypeOK'
    BY DEF Vrrp!TypeOK, Vrrp!Rows, Vrrp!STATE_WARNING, Vrrp!STATE_CRITICAL
  <1>3. Vrrp!RowsAreRight'
    BY <1>1 DEF Vrrp!RowsAreRight
  <1>4. Vrrp!OptionsAreRight'
    BY DEF Vrrp!OptionsAreRight
  <1>5. Vrrp!WellIsQuiet'
    BY <1>1 DEF Vrrp!WellIsQuiet
  <1> QED
    BY <1>2, <1>3, <1>4, <1>5

(* What was judged of a row. *)
LEMMA JudgeFacts ==
    ASSUME NEW row, Vrrp!Judge(row), mp_state \in {-1, 1, 2}
    PROVE  /\ mp_state' \in {-1, 1, 2} /\ (mp_state # -1 => mp_state' # -1) /\ messages \subseteq messages'
           /\ row.state \in {"unreadable", "other", "fault"} => row.name \in messages' /\ mp_state' # -1
           /\ row.state \notin {"unreadable", "other", "fault"} => mp_state' = mp_state
  <1>1. CASE row.state \in {"unreadable", "other", "fault"}
    <2>1. mp_state' = IF mp_state < 1 THEN 1 ELSE mp_state
      BY <1>1 DEF Vrrp!Judge, Vrrp!Report, Vrrp!STATE_WARNING
    <2>2. messages' = messages \cup {row.name}
      BY <1>1 DEF Vrrp!Judge, Vrrp!Report
    <2>3. mp_state' \in {1, 2}
      BY <2>1
    <2> QED
      BY <1>1, <2>2, <2>3
  <1>2. CASE row.state \notin {"unreadable", "other", "fault"}
    BY <1>2 DEF Vrrp!Judge
  <1> QED
    BY <1>1, <1>2

(* The option a row is matched with is one that matches. *)
LEMMA ChosenMatches ==
    ASSUME Vrrp!TypeOK, NEW row, Vrrp!Matching(row) # {}
    PROVE  Vrrp!Chosen(row) \in Vrrp!Matching(row)
  <1>1. Vrrp!Matching(row) \subseteq Nat
    <2>1. DOMAIN instance = 1 .. Len(asked) /\ Len(asked) \in Nat
      BY VrrpTypes
    <2>2. Vrrp!Matching(row) \subseteq DOMAIN instance
      BY DEF Vrrp!Matching
    <2> QED
      BY <2>1, <2>2
  <1>2. \E x \in Vrrp!Matching(row) : \A y \in Vrrp!Matching(row) : x <= y
    BY <1>1, LeastNat
  <1> QED
    BY <1>2 DEF Vrrp!Chosen, Vrrp!Min

(* An option that matches the row at hand is not used up yet, since names are
   not listed twice; and what matches is an option. *)
LEMMA RowMatches ==
    ASSUME Vrrp!IInv, pc = "rows", i + 1 \in DOMAIN device, NEW p \in DOMAIN asked
    PROVE  /\ p \in Vrrp!Matching(device[i + 1]) <=> Vrrp!mp_strmatch(device[i + 1].name, asked[p])
           /\ p \in Vrrp!Matching(device[i + 1]) => instance[p] = asked[p]
  <1>1. Vrrp!TypeOK /\ Vrrp!OptionsAreRight
    BY DEF Vrrp!IInv
  <1>2. /\ DOMAIN instance = DOMAIN asked /\ asked[p] \in Instances \cup Wildcards /\ i \in Nat
        /\ DOMAIN device = 1 .. Len(device)
        /\ \A k, l \in DOMAIN device : device[k].name = device[l].name => k = l
    BY <1>1, VrrpTypes
  <1>3. asked[p] # "NULL" /\ (asked[p] \in Instances => asked[p] \notin Wildcards)
    BY <1>2, ServicesAssumption
  <1>4. p \in Vrrp!Matching(device[i + 1]) <=> instance[p] # "NULL" /\ Vrrp!mp_strmatch(device[i + 1].name, instance[p])
    BY <1>2 DEF Vrrp!Matching
  <1>5. CASE instance[p] = asked[p]
    BY <1>3, <1>4, <1>5
  <1>6. CASE instance[p] # asked[p]
    <2>1. instance[p] = "NULL" /\ asked[p] \in Instances
      BY <1>1, <1>6 DEF Vrrp!OptionsAreRight
    <2>2. PICK k \in DOMAIN device : Vrrp!Behind(k) /\ device[k].name = asked[p]
      BY <1>1, <1>6 DEF Vrrp!OptionsAreRight
    <2>3. k <= i
      BY <2>2 DEF Vrrp!Behind
    <2>4. k # i + 1
      BY <1>2, <2>2, <2>3
    <2>5. device[i + 1].name # asked[p]
      BY <1>2, <2>2, <2>4
    <2>6. ~Vrrp!mp_strmatch(device[i + 1].name, asked[p])
      BY <1>3, <2>1, <2>5 DEF Vrrp!mp_strmatch
    <2> QED
      BY <1>4, <2>1, <2>6
  <1> QED
    BY <1>5, <1>6

(* A row is selected if an option that is left matches it. *)
LEMMA RowSelected ==
    ASSUME Vrrp!IInv, pc = "rows", i + 1 \in DOMAIN device
    PROVE  Vrrp!Selected(device[i + 1]) <=> asked = <<>> \/ Vrrp!Matching(device[i + 1]) # {}
  <1> DEFINE row == device[i + 1]
  <1>1. Vrrp!TypeOK
    BY DEF Vrrp!IInv
  <1>2. DOMAIN asked = 1 .. Len(asked) /\ DOMAIN instance = 1 .. Len(asked)
    BY <1>1, VrrpTypes
  <1>3. \A p \in DOMAIN asked : p \in Vrrp!Matching(row) <=> Vrrp!mp_strmatch(row.name, asked[p])
    BY RowMatches
  <1>4. Vrrp!Matching(row) \subseteq DOMAIN asked
    BY <1>2 DEF Vrrp!Matching
  <1>5. Vrrp!Options = {asked[p] : p \in DOMAIN asked}
    BY <1>2 DEF Vrrp!Options, Vrrp!ToSet
  <1> HIDE DEF row
  <1>6. Vrrp!Selected(row) <=> asked = <<>> \/ Vrrp!Matching(row) # {}
    BY <1>3, <1>4, <1>5 DEF Vrrp!Selected
  <1> QED
    BY <1>6 DEF row

(* A row is judged exactly when it is selected, and uses up an option of its
   name only. *)
LEMMA RowDoes ==
    ASSUME Vrrp!IInv, Vrrp!Row
    PROVE  /\ pc = "rows" /\ pc' = "rows" /\ rc = 0 /\ table = device /\ i \in Nat /\ i + 1 \in DOMAIN device
           /\ i' = i + 1 /\ UNCHANGED <<asked, device, table, rc, code>>
           /\ device[i + 1].state # "unnamed"
           /\ IF Vrrp!Selected(device[i + 1]) THEN Vrrp!Judge(device[i + 1]) ELSE UNCHANGED <<mp_state, messages>>
           /\ instance' \in Seq(Instances \cup Wildcards \cup {"NULL"}) /\ Len(instance') = Len(asked)
           /\ \A p \in DOMAIN asked :
                 /\ \/ instance'[p] = instance[p]
                    \/ instance'[p] = "NULL" /\ asked[p] \in Instances /\ asked[p] = device[i + 1].name
                 /\ Vrrp!AllIsWell /\ asked[p] \in Instances /\ asked[p] = device[i + 1].name => instance'[p] = "NULL"
  <1> DEFINE row == device[i + 1]
  <1>1. Vrrp!TypeOK /\ Vrrp!Fetched /\ Vrrp!OptionsAreRight
    BY DEF Vrrp!IInv
  <1>2. /\ pc = "rows" /\ pc' = "rows" /\ rc = 0 /\ table = device /\ i' = i + 1 /\ UNCHANGED <<asked, device, table, rc, code>>
    BY <1>1 DEF Vrrp!Row, Vrrp!Fetched, Vrrp!STAT_SUCCESS
  <1>3. /\ i \in Nat /\ Len(device) \in Nat /\ DOMAIN device = 1 .. Len(device) /\ Len(asked) \in Nat
        /\ DOMAIN asked = 1 .. Len(asked) /\ DOMAIN instance = 1 .. Len(asked) /\ Len(instance) = Len(asked)
        /\ instance \in Seq(Instances \cup Wildcards \cup {"NULL"}) /\ (asked = <<>> <=> Len(asked) = 0)
    BY <1>1, VrrpTypes
  <1>4. i < Len(device) /\ device[i + 1].state # "unnamed"
    BY <1>2 DEF Vrrp!Row, Vrrp!Another
  <1>5. i + 1 \in DOMAIN device
    BY <1>3, <1>4
  <1>6. \A p \in DOMAIN asked : /\ p \in Vrrp!Matching(row) <=> Vrrp!mp_strmatch(row.name, asked[p])
                                /\ p \in Vrrp!Matching(row) => instance[p] = asked[p]
    BY <1>2, <1>5, RowMatches
  <1>7. Vrrp!Selected(row) <=> asked = <<>> \/ Vrrp!Matching(row) # {}
    BY <1>2, <1>5, RowSelected
  <1>8. CASE asked = <<>>
    <2>1. Vrrp!Judge(row) /\ instance' = instance
      BY <1>2, <1>8 DEF Vrrp!Row
    <2>2. DOMAIN asked = {}
      BY <1>3, <1>8
    <2> QED
      BY <1>2, <1>3, <1>4, <1>5, <1>7, <1>8, <2>1, <2>2
  <1>9. CASE asked # <<>> /\ Vrrp!Matching(row) = {}
    <2>1. UNCHANGED <<mp_state, messages, instance>>
      BY <1>2, <1>9 DEF Vrrp!Row
    <2>2. ASSUME NEW p \in DOMAIN asked, asked[p] \in Instances, asked[p] = row.name
          PROVE  FALSE
      <3>1. asked[p] \notin Wildcards
        BY <2>2, ServicesAssumption
      <3>2. Vrrp!mp_strmatch(row.name, asked[p])
        BY <2>2, <3>1 DEF Vrrp!mp_strmatch
      <3> QED
        BY <1>6, <1>9, <2>2, <3>2
    <2> QED
      BY <1>2, <1>3, <1>4, <1>5, <1>7, <1>9, <2>1, <2>2
  <1>10. CASE asked # <<>> /\ Vrrp!Matching(row) # {}
    <2>1. PICK c : c = Vrrp!Chosen(row)
      OBVIOUS
    <2>2. Vrrp!Judge(row) /\ instance' = Vrrp!Used(c)
      BY <1>2, <1>10, <2>1 DEF Vrrp!Row
    <2>3. c \in Vrrp!Matching(row)
      BY <1>1, <1>10, <2>1, ChosenMatches
    <2>4. c \in DOMAIN asked
      BY <1>3, <2>3 DEF Vrrp!Matching
    <2>5. instance[c] = asked[c] /\ Vrrp!mp_strmatch(row.name, asked[c]) /\ asked[c] \in Instances \cup Wildcards
      BY <1>1, <1>6, <2>3, <2>4, VrrpTypes
    <2>6. instance' \in Seq(Instances \cup Wildcards \cup {"NULL"}) /\ Len(instance') = Len(asked)
      <3>1. c \in 1 .. Len(instance)
        BY <1>3, <2>4
      <3>2. CASE instance[c] \in Wildcards
        BY <1>3, <2>2, <3>2 DEF Vrrp!Used
      <3>3. CASE instance[c] \notin Wildcards
        <4>1. instance' = [instance EXCEPT ![c] = "NULL"]
          BY <2>2, <3>3 DEF Vrrp!Used
        <4>2. "NULL" \in Instances \cup Wildcards \cup {"NULL"}
          OBVIOUS
        <4>3. [instance EXCEPT ![c] = "NULL"] \in Seq(Instances \cup Wildcards \cup {"NULL"})
              /\ Len([instance EXCEPT ![c] = "NULL"]) = Len(instance)
          BY <1>3, <3>1, <4>2, ExceptFacts
        <4> QED
          BY <1>3, <4>1, <4>3
      <3> QED
        BY <3>2, <3>3
    <2>7. ASSUME NEW p \in DOMAIN asked
          PROVE  /\ \/ instance'[p] = instance[p]
                    \/ instance'[p] = "NULL" /\ asked[p] \in Instances /\ asked[p] = row.name
                 /\ Vrrp!AllIsWell /\ asked[p] \in Instances /\ asked[p] = row.name => instance'[p] = "NULL"
      <3>1. CASE asked[c] \in Wildcards
        <4>1. instance' = instance
          BY <2>2, <2>5, <3>1 DEF Vrrp!Used
        <4>2. ASSUME Vrrp!AllIsWell, asked[p] = row.name
              PROVE  FALSE
          <5>1. row.name \in Matches[asked[c]]
            BY <2>5, <3>1 DEF Vrrp!mp_strmatch
          <5>2. asked[c] \in Vrrp!Options /\ asked[p] \in Vrrp!Options
            BY <2>4, <2>7 DEF Vrrp!Options, Vrrp!ToSet
          <5>3. Vrrp!Options \cap Matches[asked[c]] = {}
            BY <3>1, <4>2, <5>2 DEF Vrrp!AllIsWell
          <5> QED
            BY <4>2, <5>1, <5>2, <5>3
        <4> QED
          BY <4>1, <4>2
      <3>2. CASE asked[c] \notin Wildcards
        <4>1. asked[c] \in Instances /\ asked[c] = row.name
          BY <2>5, <3>2 DEF Vrrp!mp_strmatch
        <4>2. instance' = [instance EXCEPT ![c] = "NULL"]
          BY <2>2, <2>5, <3>2 DEF Vrrp!Used
        <4>3. instance'[p] = IF p = c THEN "NULL" ELSE instance[p]
          BY <1>3, <2>7, <4>2
        <4>4. Vrrp!AllIsWell /\ asked[p] = row.name => p = c
          BY <2>4, <2>7, <4>1 DEF Vrrp!AllIsWell, Vrrp!IsInjective
        <4> QED
          BY <4>1, <4>3, <4>4
      <3> QED
        BY <3>1, <3>2
    <2> QED
      BY <1>2, <1>3, <1>4, <1>5, <1>7, <1>10, <2>2, <2>6, <2>7
  <1> QED
    BY <1>8, <1>9, <1>10

LEMMA VrrpRowStep ==
    ASSUME Vrrp!IInv, Vrrp!Row
    PROVE  Vrrp!IInv'
  <1>1. /\ Vrrp!TypeOK /\ Vrrp!LoopIsRight /\ Vrrp!RowsAreRight /\ Vrrp!OptionsAreRight /\ Vrrp!WellIsQuiet
    BY DEF Vrrp!IInv
  <1>2. /\ pc = "rows" /\ pc' = "rows" /\ rc = 0 /\ table = device /\ i \in Nat /\ i + 1 \in DOMAIN device
        /\ i' = i + 1 /\ UNCHANGED <<asked, device, table, rc, code>>
        /\ device[i + 1].state # "unnamed"
        /\ IF Vrrp!Selected(device[i + 1]) THEN Vrrp!Judge(device[i + 1]) ELSE UNCHANGED <<mp_state, messages>>
        /\ instance' \in Seq(Instances \cup Wildcards \cup {"NULL"}) /\ Len(instance') = Len(asked)
        /\ \A p \in DOMAIN asked :
              /\ \/ instance'[p] = instance[p]
                 \/ instance'[p] = "NULL" /\ asked[p] \in Instances /\ asked[p] = device[i + 1].name
              /\ Vrrp!AllIsWell /\ asked[p] \in Instances /\ asked[p] = device[i + 1].name => instance'[p] = "NULL"
    BY RowDoes
  <1>3. /\ mp_state \in {-1, 1, 2} /\ DOMAIN device = 1 .. Len(device) /\ Len(device) \in Nat
        /\ device[i + 1].state \in {"initial", "other", "fault", "unreadable", "unnamed"}
    BY <1>1, <1>2, VrrpTypes
  <1>4. /\ mp_state' \in {-1, 1, 2} /\ (mp_state # -1 => mp_state' # -1) /\ messages \subseteq messages'
        /\ Vrrp!Selected(device[i + 1]) /\ device[i + 1].state # "initial" =>
              device[i + 1].name \in messages' /\ mp_state' # -1
        /\ ~(Vrrp!Selected(device[i + 1]) /\ device[i + 1].state # "initial") => mp_state' = mp_state
    <2>1. CASE Vrrp!Selected(device[i + 1])
      BY <1>2, <1>3, <2>1, JudgeFacts
    <2>2. CASE ~Vrrp!Selected(device[i + 1])
      BY <1>2, <1>3, <2>2
    <2> QED
      BY <2>1, <2>2
  <1>5. /\ \A k : Vrrp!Selected(device[k])' <=> Vrrp!Selected(device[k])
        /\ Vrrp!AllIsWell' <=> Vrrp!AllIsWell
    BY <1>2, RouterStays
  <1>6. \A k \in DOMAIN device : (Vrrp!Behind(k) <=> k <= i) /\ (Vrrp!Behind(k)' <=> k <= i + 1)
    BY <1>2 DEF Vrrp!Behind, Vrrp!STAT_SUCCESS
  <1>7. \A k \in DOMAIN device : Vrrp!Behind(k)' <=> Vrrp!Behind(k) \/ k = i + 1
    <2>1. \A k \in DOMAIN device : k <= i + 1 <=> k <= i \/ k = i + 1
      BY <1>2, <1>3
    <2> QED
      BY <1>6, <2>1
  <1>8. Vrrp!TypeOK'
    BY <1>1, <1>2, <1>4 DEF Vrrp!TypeOK, Vrrp!Rows, Vrrp!STATE_WARNING, Vrrp!STATE_CRITICAL
  <1>9. \A k \in 1 .. i + 1 : device[k].state # "unnamed"
    <2>1. \A k \in 1 .. i : device[k].state # "unnamed"
      BY <1>1, <1>2 DEF Vrrp!LoopIsRight
    <2>2. \A k \in 1 .. i + 1 : k \in 1 .. i \/ k = i + 1
      BY <1>2
    <2> QED
      BY <1>2, <2>1, <2>2
  <1>10. Vrrp!LoopIsRight'
    <2>1. i + 1 <= Len(device)
      BY <1>2, <1>3
    <2> QED
      BY <1>2, <1>9, <2>1 DEF Vrrp!LoopIsRight
  <1>11. Vrrp!RowsAreRight'
    <2> SUFFICES ASSUME NEW k \in DOMAIN device, Vrrp!Behind(k)', Vrrp!Selected(device[k]), device[k].state # "initial"
                 PROVE  device[k].name \in messages' /\ mp_state' # -1
      BY <1>2, <1>5 DEF Vrrp!RowsAreRight
    <2>1. CASE Vrrp!Behind(k)
      BY <1>1, <1>4, <2>1 DEF Vrrp!RowsAreRight
    <2>2. CASE k = i + 1
      BY <1>4, <2>2
    <2> QED
      BY <1>7, <2>1, <2>2
  <1>12. Vrrp!OptionsAreRight'
    <2> SUFFICES ASSUME NEW p \in DOMAIN asked
                 PROVE  \/ instance'[p] = asked[p]
                        \/ /\ instance'[p] = "NULL" /\ asked[p] \in Instances
                           /\ \E k \in DOMAIN device : Vrrp!Behind(k)' /\ device[k].name = asked[p]
      BY <1>2 DEF Vrrp!OptionsAreRight
    <2>1. CASE instance'[p] = instance[p]
      BY <1>1, <1>7, <2>1 DEF Vrrp!OptionsAreRight
    <2>2. CASE instance'[p] = "NULL" /\ asked[p] \in Instances /\ asked[p] = device[i + 1].name
      BY <1>2, <1>7, <2>2
    <2> QED
      BY <1>2, <2>1, <2>2
  <1>13. Vrrp!WellIsQuiet'
    <2> SUFFICES ASSUME Vrrp!AllIsWell
                 PROVE  /\ mp_state' = -1
                        /\ \A p \in DOMAIN asked, k \in DOMAIN device :
                              asked[p] \in Instances /\ Vrrp!Behind(k)' /\ device[k].name = asked[p] =>
                                 instance'[p] = "NULL"
      BY <1>2, <1>5 DEF Vrrp!WellIsQuiet
    <2>1. Vrrp!Seen(i + 1)
      BY <1>9 DEF Vrrp!Seen
    <2>2. mp_state' = mp_state
      BY <1>2, <1>4, <2>1 DEF Vrrp!AllIsWell
    <2>3. ASSUME NEW p \in DOMAIN asked, NEW k \in DOMAIN device, asked[p] \in Instances, Vrrp!Behind(k)',
                 device[k].name = asked[p]
          PROVE  instance'[p] = "NULL"
      <3>1. CASE Vrrp!Behind(k)
        <4>1. instance[p] = "NULL"
          BY <1>1, <2>3, <3>1 DEF Vrrp!WellIsQuiet
        <4> QED
          BY <1>2, <4>1
      <3>2. CASE k = i + 1
        BY <1>2, <2>3, <3>2
      <3> QED
        BY <1>7, <2>3, <3>1, <3>2
    <2> QED
      BY <1>1, <2>2, <2>3 DEF Vrrp!WellIsQuiet
  <1>14. Vrrp!Fetched' /\ Vrrp!RestIsReported' /\ Vrrp!ExitIsRight'
    BY <1>2 DEF Vrrp!Fetched, Vrrp!RestIsReported, Vrrp!ExitIsRight, Vrrp!Ran, Vrrp!STAT_SUCCESS
  <1> QED
    BY <1>8, <1>10, <1>11, <1>12, <1>13, <1>14 DEF Vrrp!IInv

LEMMA VrrpFetchStep ==
    ASSUME Vrrp!IInv, Vrrp!Fetch
    PROVE  Vrrp!IInv'
  <1>1. Vrrp!TypeOK /\ Vrrp!Fetched /\ Vrrp!RowsAreRight /\ Vrrp!OptionsAreRight /\ Vrrp!WellIsQuiet
    BY DEF Vrrp!IInv
  <1>2. /\ pc = "fetch" /\ i = 0 /\ UNCHANGED <<asked, instance, device, i, mp_state, messages>>
        /\ \/ pc' = "rows" /\ table' = device /\ rc' = 0
           \/ pc' = "exited" /\ rc' = 1
    BY <1>1 DEF Vrrp!Fetch, Vrrp!Fetched, Vrrp!STAT_SUCCESS, Vrrp!STAT_ERROR
  <1>3. DOMAIN device = 1 .. Len(device) /\ Len(device) \in Nat /\ mp_state \in {-1, 1, 2} /\ i \in Nat
    BY <1>1, VrrpTypes
  <1>4. \A k \in DOMAIN device : ~Vrrp!Behind(k) /\ ~Vrrp!Behind(k)'
    <2>1. \A k \in DOMAIN device : ~(k <= 0)
      BY <1>3
    <2> QED
      BY <1>2, <2>1 DEF Vrrp!Behind, Vrrp!STAT_SUCCESS
  <1>5. Vrrp!TypeOK' /\ Vrrp!RowsAreRight' /\ Vrrp!OptionsAreRight' /\ Vrrp!WellIsQuiet'
    BY <1>1, <1>2, <1>3, <1>4, NoRowStep
  <1>6. Vrrp!LoopIsRight'
    <2>1. 0 <= Len(device) /\ 1 .. 0 = {}
      BY <1>3
    <2> QED
      BY <1>2, <2>1 DEF Vrrp!LoopIsRight
  <1>7. Vrrp!Fetched' /\ Vrrp!RestIsReported' /\ Vrrp!ExitIsRight'
    BY <1>2 DEF Vrrp!Fetched, Vrrp!RestIsReported, Vrrp!ExitIsRight, Vrrp!Ran, Vrrp!STAT_SUCCESS
  <1> QED
    BY <1>5, <1>6, <1>7 DEF Vrrp!IInv

(* When the loop has ended, what it looked at are the rows before the first
   one without a name. *)
LEMMA VrrpEndStep ==
    ASSUME Vrrp!IInv, Vrrp!NoMoreRows
    PROVE  Vrrp!IInv'
  <1>1. /\ Vrrp!TypeOK /\ Vrrp!Fetched /\ Vrrp!LoopIsRight
        /\ Vrrp!RowsAreRight /\ Vrrp!OptionsAreRight /\ Vrrp!WellIsQuiet
    BY DEF Vrrp!IInv
  <1>2. /\ pc = "rows" /\ pc' = "unmatched" /\ rc = 0 /\ table = device /\ ~Vrrp!Another
        /\ i' = IF asked = <<>> THEN i ELSE 0
        /\ UNCHANGED <<asked, instance, device, table, rc, mp_state, messages, code>>
    BY <1>1 DEF Vrrp!NoMoreRows, Vrrp!Fetched, Vrrp!STAT_SUCCESS
  <1>3. /\ DOMAIN device = 1 .. Len(device) /\ Len(device) \in Nat /\ mp_state \in {-1, 1, 2} /\ i \in Nat
        /\ Len(asked) \in Nat
    BY <1>1, VrrpTypes
  <1>4. i <= Len(device) /\ \A k \in 1 .. i : device[k].state # "unnamed"
    BY <1>1, <1>2 DEF Vrrp!LoopIsRight
  <1>5. i = Len(device) \/ (i + 1 \in DOMAIN device /\ device[i + 1].state = "unnamed")
    <2>1. i < Len(device) => device[i + 1].state = "unnamed"
      BY <1>2 DEF Vrrp!Another
    <2> QED
      BY <1>3, <1>4, <2>1
  <1>6. ASSUME NEW k \in DOMAIN device
        PROVE  Vrrp!Seen(k) <=> k <= i
    <2>1. CASE k <= i
      <3>1. 1 .. k \subseteq 1 .. i
        BY <1>3, <1>6, <2>1
      <3> QED
        BY <1>4, <2>1, <3>1 DEF Vrrp!Seen
    <2>2. CASE ~(k <= i)
      <3>0. k \in Nat /\ 1 <= k /\ k <= Len(device)
        BY <1>3, <1>6
      <3>1. i # Len(device) /\ i + 1 \in 1 .. k
        <4>1. i \in Nat /\ Len(device) \in Nat
          BY <1>3
        <4>2. i < k
          BY <2>2, <3>0, <4>1
        <4> QED
          BY <3>0, <4>1, <4>2
      <3> QED
        BY <1>5, <2>2, <3>1 DEF Vrrp!Seen
    <2> QED
      BY <2>1, <2>2
  <1>7. \A k : Vrrp!Seen(k)' <=> Vrrp!Seen(k)
    BY <1>2, RouterStays
  <1>8. \A k \in DOMAIN device : Vrrp!Behind(k)' <=> Vrrp!Behind(k)
    BY <1>2, <1>6, <1>7 DEF Vrrp!Behind, Vrrp!STAT_SUCCESS
  <1>9. i' \in Nat
    BY <1>2, <1>3
  <1>10. Vrrp!TypeOK' /\ Vrrp!RowsAreRight' /\ Vrrp!OptionsAreRight' /\ Vrrp!WellIsQuiet'
    BY <1>1, <1>2, <1>3, <1>8, <1>9, NoRowStep
  <1>11. Vrrp!RestIsReported'
    <2>1. CASE asked = <<>>
      <3>1. i = 0 => \A k \in DOMAIN device : ~Vrrp!Seen(k)'
        BY <1>3, <1>6, <1>7
      <3> QED
        BY <1>2, <2>1, <3>1 DEF Vrrp!RestIsReported
    <2>2. CASE asked # <<>>
      <3>1. 0 <= Len(asked) /\ 1 .. 0 = {}
        BY <1>3
      <3> QED
        BY <1>2, <2>2, <3>1 DEF Vrrp!RestIsReported
    <2> QED
      BY <2>1, <2>2
  <1>12. Vrrp!Fetched' /\ Vrrp!LoopIsRight' /\ Vrrp!ExitIsRight'
    BY <1>2 DEF Vrrp!Fetched, Vrrp!LoopIsRight, Vrrp!ExitIsRight, Vrrp!Ran, Vrrp!STAT_SUCCESS
  <1> QED
    BY <1>10, <1>11, <1>12 DEF Vrrp!IInv

(* An option that is left is reported; where all is well none is left. *)
LEMMA VrrpUnmatchedStep ==
    ASSUME Vrrp!IInv, Vrrp!Unmatched
    PROVE  Vrrp!IInv'
  <1>1. /\ Vrrp!TypeOK /\ Vrrp!Fetched /\ Vrrp!RowsAreRight /\ Vrrp!OptionsAreRight
        /\ Vrrp!WellIsQuiet /\ Vrrp!RestIsReported
    BY DEF Vrrp!IInv
  <1>2. /\ pc = "unmatched" /\ pc' = "unmatched" /\ rc = 0 /\ table = device /\ asked # <<>>
        /\ i < Len(instance) /\ i' = i + 1
        /\ UNCHANGED <<asked, instance, device, table, rc, code>>
    BY <1>1 DEF Vrrp!Unmatched, Vrrp!Fetched, Vrrp!STAT_SUCCESS
  <1>3. /\ DOMAIN device = 1 .. Len(device) /\ Len(device) \in Nat /\ mp_state \in {-1, 1, 2} /\ i \in Nat
        /\ Len(asked) \in Nat /\ DOMAIN asked = 1 .. Len(asked) /\ Len(instance) = Len(asked)
    BY <1>1, VrrpTypes
  <1>4. /\ instance[i + 1] \in Instances => mp_state' = 2 /\ messages \subseteq messages'
        /\ instance[i + 1] \notin Instances => UNCHANGED <<mp_state, messages>>
    <2>1. instance[i + 1] \in Instances => mp_state' = (IF mp_state < 2 THEN 2 ELSE mp_state)
      BY DEF Vrrp!Unmatched, Vrrp!Report, Vrrp!STATE_CRITICAL
    <2>2. instance[i + 1] \in Instances => messages' = messages \cup {instance[i + 1]}
      BY DEF Vrrp!Unmatched, Vrrp!Report
    <2>3. instance[i + 1] \notin Instances => UNCHANGED <<mp_state, messages>>
      BY DEF Vrrp!Unmatched
    <2>4. (IF mp_state < 2 THEN 2 ELSE mp_state) = 2
      BY <1>3
    <2> QED
      BY <2>1, <2>2, <2>3, <2>4
  <1>5. i + 1 \in DOMAIN asked /\ i + 1 \in Nat /\ i + 1 <= Len(asked)
    BY <1>2, <1>3
  <1>6. ASSUME Vrrp!AllIsWell, instance[i + 1] \in Instances
        PROVE  FALSE
    <2>1. instance[i + 1] # "NULL"
      BY <1>6, ServicesAssumption
    <2>2. asked[i + 1] = instance[i + 1] /\ asked[i + 1] \in Instances
      BY <1>1, <1>5, <1>6, <2>1 DEF Vrrp!OptionsAreRight
    <2>3. asked[i + 1] \in Vrrp!Options
      BY <1>5 DEF Vrrp!Options, Vrrp!ToSet
    <2>4. PICK k \in DOMAIN device : device[k].name = asked[i + 1] /\ Vrrp!Seen(k)
      BY <1>6, <2>2, <2>3 DEF Vrrp!AllIsWell, Vrrp!Has
    <2>5. Vrrp!Behind(k)
      BY <1>2, <2>4 DEF Vrrp!Behind, Vrrp!STAT_SUCCESS
    <2> QED
      BY <1>1, <1>5, <1>6, <2>1, <2>2, <2>4, <2>5 DEF Vrrp!WellIsQuiet
  <1>7. \A k : Vrrp!Seen(k)' <=> Vrrp!Seen(k)
    BY <1>2, RouterStays
  <1>8. \A k \in DOMAIN device : Vrrp!Behind(k)' <=> Vrrp!Behind(k)
    BY <1>2, <1>7 DEF Vrrp!Behind, Vrrp!STAT_SUCCESS
  <1>9. /\ mp_state' \in {-1, 1, 2} /\ (mp_state # -1 => mp_state' # -1) /\ messages \subseteq messages'
        /\ Vrrp!AllIsWell => mp_state' = mp_state
    BY <1>3, <1>4, <1>6
  <1>10. Vrrp!TypeOK' /\ Vrrp!RowsAreRight' /\ Vrrp!OptionsAreRight' /\ Vrrp!WellIsQuiet'
    BY <1>1, <1>2, <1>5, <1>8, <1>9, NoRowStep
  <1>11. Vrrp!RestIsReported'
    <2>1. \A p \in 1 .. i : instance[p] \in Instances => mp_state = 2
      BY <1>1, <1>2 DEF Vrrp!RestIsReported, Vrrp!STATE_CRITICAL
    <2>2. mp_state = 2 => mp_state' = 2
      BY <1>4
    <2>3. \A p \in 1 .. i + 1 : p \in 1 .. i \/ p = i + 1
      BY <1>3
    <2>4. \A p \in 1 .. i + 1 : instance[p] \in Instances => mp_state' = 2
      BY <1>4, <2>1, <2>2, <2>3
    <2> QED
      BY <1>2, <1>5, <2>4 DEF Vrrp!RestIsReported, Vrrp!STATE_CRITICAL
  <1>12. Vrrp!Fetched' /\ Vrrp!LoopIsRight' /\ Vrrp!ExitIsRight'
    BY <1>2 DEF Vrrp!Fetched, Vrrp!LoopIsRight, Vrrp!ExitIsRight, Vrrp!Ran, Vrrp!STAT_SUCCESS
  <1> QED
    BY <1>10, <1>11, <1>12 DEF Vrrp!IInv

LEMMA VrrpExitStep ==
    ASSUME Vrrp!IInv, Vrrp!Exit
    PROVE  Vrrp!IInv'
  <1>1. /\ Vrrp!TypeOK /\ Vrrp!Fetched /\ Vrrp!RowsAreRight /\ Vrrp!OptionsAreRight
        /\ Vrrp!WellIsQuiet /\ Vrrp!RestIsReported
    BY DEF Vrrp!IInv
  <1>2. /\ pc = "unmatched" /\ pc' = "exited" /\ rc = 0 /\ (asked = <<>> \/ i = Len(instance))
        /\ UNCHANGED <<asked, instance, device, table, rc, i, mp_state, messages>>
    BY <1>1 DEF Vrrp!Exit, Vrrp!Fetched, Vrrp!STAT_SUCCESS
  <1>3. i \in Nat /\ mp_state \in {-1, 1, 2} /\ Len(instance) = Len(asked)
    BY <1>1, VrrpTypes
  <1>4. \A k : Vrrp!Seen(k)' <=> Vrrp!Seen(k)
    BY <1>2, RouterStays
  <1>5. \A k \in DOMAIN device : Vrrp!Behind(k)' <=> Vrrp!Behind(k)
    BY <1>2, <1>4 DEF Vrrp!Behind, Vrrp!STAT_SUCCESS
  <1>6. Vrrp!TypeOK' /\ Vrrp!RowsAreRight' /\ Vrrp!OptionsAreRight' /\ Vrrp!WellIsQuiet'
    BY <1>1, <1>2, <1>3, <1>5, NoRowStep
  <1>7. Vrrp!RestIsReported'
    BY <1>1, <1>2, <1>4 DEF Vrrp!RestIsReported, Vrrp!STATE_CRITICAL
  <1>8. Vrrp!ExitIsRight'
    BY <1>2, <1>3 DEF Vrrp!Exit, Vrrp!ExitIsRight, Vrrp!STATE_UNKNOWN, Vrrp!STATE_OK
  <1>9. Vrrp!Fetched' /\ Vrrp!LoopIsRight'
    BY <1>2 DEF Vrrp!Fetched, Vrrp!LoopIsRight
  <1> QED
    BY <1>6, <1>7, <1>8, <1>9 DEF Vrrp!IInv

(* Only a state past the names crashes, which is not the initial one. *)
LEMMA VrrpCrashStep ==
    ASSUME Vrrp!IInv, Vrrp!RowCrashes
    PROVE  Vrrp!IInv'
  <1>1. /\ Vrrp!TypeOK /\ Vrrp!Fetched /\ Vrrp!LoopIsRight /\ Vrrp!RowsAreRight /\ Vrrp!OptionsAreRight
        /\ Vrrp!WellIsQuiet
    BY DEF Vrrp!IInv
  <1>2. /\ pc = "rows" /\ pc' = "crashed" /\ rc = 0 /\ table = device
        /\ UNCHANGED <<asked, instance, device, table, rc, i, mp_state, messages>>
    BY <1>1 DEF Vrrp!RowCrashes, Vrrp!Fetched, Vrrp!STAT_SUCCESS
  <1>3. /\ i \in Nat /\ mp_state \in {-1, 1, 2} /\ DOMAIN device = 1 .. Len(device) /\ Len(device) \in Nat
    BY <1>1, VrrpTypes
  <1>4. i < Len(device) /\ i + 1 \in DOMAIN device
    BY <1>2, <1>3 DEF Vrrp!RowCrashes, Vrrp!Another
  <1>5. /\ device[i + 1].state = "fault"
        /\ asked = <<>> \/ Vrrp!Matching(device[i + 1]) # {}
    BY <1>2 DEF Vrrp!RowCrashes
  <1>6. Vrrp!Selected(device[i + 1])
    BY <1>2, <1>4, <1>5, RowSelected
  <1>7. Vrrp!Seen(i + 1)
    <2>1. \A k \in 1 .. i : device[k].state # "unnamed"
      BY <1>1, <1>2 DEF Vrrp!LoopIsRight
    <2>2. \A k \in 1 .. i + 1 : k \in 1 .. i \/ k = i + 1
      BY <1>3
    <2> QED
      BY <1>5, <2>1, <2>2 DEF Vrrp!Seen
  <1>8. ~Vrrp!AllIsWell
    BY <1>4, <1>5, <1>6, <1>7 DEF Vrrp!AllIsWell
  <1>9. \A k \in DOMAIN device : Vrrp!Behind(k)' <=> Vrrp!Behind(k)
    BY <1>2 DEF Vrrp!Behind
  <1>10. Vrrp!TypeOK' /\ Vrrp!RowsAreRight' /\ Vrrp!OptionsAreRight' /\ Vrrp!WellIsQuiet'
    BY <1>1, <1>2, <1>3, <1>8, <1>9, NoRowStep
  <1>11. Vrrp!Fetched' /\ Vrrp!LoopIsRight' /\ Vrrp!RestIsReported' /\ Vrrp!ExitIsRight'
    BY <1>2 DEF Vrrp!Fetched, Vrrp!LoopIsRight, Vrrp!RestIsReported, Vrrp!ExitIsRight, Vrrp!Ran
  <1> QED
    BY <1>10, <1>11 DEF Vrrp!IInv

LEMMA VrrpStep ==
    ASSUME Vrrp!IInv, [Vrrp!Next]_(Vrrp!vars)
    PROVE  Vrrp!IInv'
  <1>1. CASE UNCHANGED Vrrp!vars
    BY <1>1 DEF Vrrp!vars, Vrrp!IInv, Vrrp!TypeOK, Vrrp!Fetched, Vrrp!LoopIsRight, Vrrp!RowsAreRight,
                Vrrp!OptionsAreRight, Vrrp!WellIsQuiet, Vrrp!RestIsReported, Vrrp!ExitIsRight, Vrrp!Ran,
                Vrrp!Behind, Vrrp!Seen, Vrrp!Selected, Vrrp!Options, Vrrp!mp_strmatch, Vrrp!AllIsWell, Vrrp!Has, Vrrp!Rows,
                Vrrp!STAT_SUCCESS, Vrrp!STATE_OK, Vrrp!STATE_WARNING, Vrrp!STATE_CRITICAL, Vrrp!STATE_UNKNOWN
  <1>2. CASE Vrrp!Terminated
    BY <1>1, <1>2 DEF Vrrp!Terminated
  <1> QED
    BY <1>1, <1>2, VrrpFetchStep, VrrpRowStep, VrrpCrashStep, VrrpEndStep, VrrpUnmatchedStep, VrrpExitStep
       DEF Vrrp!Next

(* The loops of check_keepalived_vrrp keep their invariant, for any router and
   any list of -i options. *)
THEOREM VrrpInvariant == Spec => [](check = "vrrp" => Vrrp!IInv)
  <1>1. Init => (check = "vrrp" => Vrrp!IInv)
    BY VrrpInit DEF Init
  <1>2. (check = "vrrp" => Vrrp!IInv) /\ [Next]_vars => (check = "vrrp" => Vrrp!IInv)'
    BY OneCheck, VrrpStep
  <1> QED
    BY <1>1, <1>2, PTL DEF Spec

(* Every VRRP instance asked for is judged, one that is missing is critical,
   and nothing is made up: if check_keepalived_vrrp reaches its end its verdict
   is that of its table whatever the order of rows and -i options, and where all
   is well it does reach it. *)
THEOREM InstancesWereJudged == Spec => []InstancesAreJudged
  <1>1. ASSUME Vrrp!IInv
        PROVE  Vrrp!AskedIsJudged /\ Vrrp!MissingIsCritical /\ Vrrp!NoFalseAlarm
    <2>1. /\ Vrrp!TypeOK /\ Vrrp!RowsAreRight /\ Vrrp!OptionsAreRight
          /\ Vrrp!WellIsQuiet /\ Vrrp!RestIsReported /\ Vrrp!ExitIsRight
      BY <1>1 DEF Vrrp!IInv
    <2>2. /\ DOMAIN device = 1 .. Len(device) /\ Len(device) \in Nat /\ mp_state \in {-1, 1, 2} /\ i \in Nat
          /\ Len(asked) \in Nat /\ DOMAIN asked = 1 .. Len(asked) /\ (asked = <<>> <=> Len(asked) = 0)
      BY <2>1, VrrpTypes
    <2>0. Vrrp!AllIsWell => pc # "crashed"
      BY <2>1 DEF Vrrp!WellIsQuiet
    <2> SUFFICES ASSUME Vrrp!Ran
                 PROVE  Vrrp!AskedIsJudged /\ Vrrp!MissingIsCritical /\ Vrrp!NoFalseAlarm
      BY <2>0 DEF Vrrp!AskedIsJudged, Vrrp!MissingIsCritical, Vrrp!NoFalseAlarm
    <2>3. code = IF i = 0 THEN 3 ELSE IF mp_state = -1 THEN 0 ELSE mp_state
      BY <2>1 DEF Vrrp!ExitIsRight, Vrrp!STATE_UNKNOWN, Vrrp!STATE_OK
    <2>4. asked # <<>> => i = Len(asked) /\ i # 0
      BY <2>1, <2>2 DEF Vrrp!ExitIsRight
    <2>5. \A k \in DOMAIN device : Vrrp!Seen(k) => i # 0
      BY <2>1, <2>4 DEF Vrrp!RestIsReported
    <2>6. \A k : Vrrp!Behind(k) <=> Vrrp!Seen(k)
      BY DEF Vrrp!Behind, Vrrp!Ran
    <2>7. Vrrp!AskedIsJudged
      <3> SUFFICES ASSUME NEW k \in DOMAIN device, Vrrp!Seen(k), Vrrp!Selected(device[k]), device[k].state # "initial"
                   PROVE  device[k].name \in messages /\ code \in {1, 2}
        BY DEF Vrrp!AskedIsJudged, Vrrp!STATE_WARNING, Vrrp!STATE_CRITICAL
      <3>1. device[k].name \in messages /\ mp_state # -1
        BY <2>1, <2>6 DEF Vrrp!RowsAreRight
      <3> QED
        BY <2>2, <2>3, <2>5, <3>1
    <2>8. Vrrp!MissingIsCritical
      <3> SUFFICES ASSUME NEW n \in Vrrp!Options \cap Instances, ~Vrrp!Has(n)
                   PROVE  code = 2
        BY DEF Vrrp!MissingIsCritical, Vrrp!STATE_CRITICAL
      <3>1. PICK p \in DOMAIN asked : n = asked[p]
        BY DEF Vrrp!Options, Vrrp!ToSet
      <3>2. instance[p] = asked[p]
        BY <2>1, <2>6, <3>1 DEF Vrrp!OptionsAreRight, Vrrp!Has
      <3>0. p \in 1 .. Len(asked) /\ Len(asked) # 0
        BY <2>2, <3>1
      <3>3. asked # <<>> /\ p \in 1 .. i
        BY <2>2, <2>4, <3>0
      <3>4. mp_state = 2
        BY <2>1, <3>1, <3>2, <3>3 DEF Vrrp!RestIsReported, Vrrp!STATE_CRITICAL
      <3> QED
        BY <2>3, <2>4, <3>3, <3>4
    <2>9. Vrrp!NoFalseAlarm
      <3> SUFFICES ASSUME NEW k \in DOMAIN device, Vrrp!Seen(k), Vrrp!AllIsWell
                   PROVE  code = 0
        BY <2>0 DEF Vrrp!NoFalseAlarm, Vrrp!STATE_OK
      <3>1. mp_state = -1
        BY <2>1 DEF Vrrp!WellIsQuiet
      <3> QED
        BY <2>3, <2>5, <3>1
    <2> QED
      BY <2>7, <2>8, <2>9
  <1>2. (check = "vrrp" => Vrrp!IInv) => InstancesAreJudged
    BY <1>1 DEF InstancesAreJudged
  <1> QED
    BY <1>2, VrrpInvariant, PTL

=============================================================================
