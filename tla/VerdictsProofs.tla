--------------------------- MODULE VerdictsProofs ---------------------------
(***************************************************************************)
(* Proofs about the checks that MCVerdicts puts together, for every value   *)
(* of its constants that VerdictsAssumption allows.  Each check has its      *)
(* inductive invariant, IInv of its module.                                 *)
(***************************************************************************)
EXTENDS MCVerdicts, SeqFacts, FiniteSetTheorems

(* A check is not exchanged for another one, and its steps are those of its
   component. *)
LEMMA OneVerdict ==
    ASSUME [VerdictsNext]_verdictVars
    PROVE  /\ check' = check
           /\ check = "ranges" => [Ranges!Next]_(Ranges!vars)
           /\ check = "trace" => [Trace!Next]_(Trace!vars)
           /\ check = "zones" => [Zones!Next]_(Zones!vars)
           /\ check = "certs" => [Certs!Next]_(Certs!vars)
           /\ check = "query" => [Query!Next]_(Query!vars)
           /\ check = "ldap" => [Ldap!Next]_(Ldap!vars)
           /\ check = "fcgi" => [Fcgi!Next]_(Fcgi!vars)
           /\ check = "lists" => [Lists!Next]_(Lists!vars)
  BY DEF VerdictsNext, verdictVars, Ranges!vars, Trace!vars, Zones!vars, Certs!vars, Query!vars, Ldap!vars,
         Fcgi!vars, Lists!vars

-----------------------------------------------------------------------------
(* check_dnssec_trace                                                       *)

LEMMA TraceLevels ==
    ASSUME given \in TraceWorlds
    PROVE  /\ Trace!Depth \in Nat
           /\ \A l \in 0 .. Trace!Depth : /\ \A k \in given.names[l].keys : k[1] = l
                                          /\ \A k \in given.names[l].dssigned : k[1] < l
  <1> DEFINE D == DOMAIN given.names
  <1>1. Trace!Legal(given)
    BY VerdictsAssumption
  <1>2. /\ IsFiniteSet(D) /\ D # {} /\ D = 0 .. Cardinality(D) - 1
        /\ \A l \in D : /\ \A k \in given.names[l].keys : k[1] = l
                        /\ \A k \in given.names[l].dssigned : k[1] < l
    BY <1>1 DEF Trace!Legal, Trace!Cardinality, Cardinality, Trace!IsFiniteSet, IsFiniteSet
  <1>3. Cardinality(D) \in Nat /\ Cardinality(D) # 0
    BY <1>2, FS_CardinalityType, FS_EmptySet
  <1>4. Trace!Depth = Cardinality(D) - 1
    BY DEF Trace!Depth, Trace!Cardinality, Cardinality
  <1> QED
    BY <1>2, <1>3, <1>4

(* A level that hangs on one with a chain of trust has one itself. *)
LEMMA ChainGrows ==
    ASSUME NEW l \in 0 .. Trace!Depth,
           Trace!Anchored(l) \/ Trace!Directly(l)
           \/ \E m \in 0 .. Trace!Depth : Trace!Chain(m) /\ Trace!Delegated(m, l)
    PROVE  Trace!Chain(l)
  <1>1. CASE Trace!Anchored(l) \/ Trace!Directly(l)
    <2>1. {l} \in SUBSET (0 .. Trace!Depth) /\ l \in {l} /\ \A x \in {l} : Trace!Anchored(x) \/ Trace!Directly(x)
      BY <1>1
    <2> QED
      BY <2>1 DEF Trace!Chain
  <1>2. ASSUME NEW m \in 0 .. Trace!Depth, Trace!Chain(m), Trace!Delegated(m, l)
        PROVE  Trace!Chain(l)
    <2>1. PICK T \in SUBSET (0 .. Trace!Depth) :
             /\ m \in T
             /\ \A x \in T : Trace!Anchored(x) \/ Trace!Directly(x) \/ \E y \in T : Trace!Delegated(y, x)
      BY <1>2 DEF Trace!Chain
    <2> DEFINE U == T \cup {l}
    <2>2. U \in SUBSET (0 .. Trace!Depth) /\ l \in U /\ m \in U
      BY <2>1
    <2>3. \A x \in U : Trace!Anchored(x) \/ Trace!Directly(x) \/ \E y \in U : Trace!Delegated(y, x)
      BY <1>2, <2>1
    <2> QED
      BY <2>2, <2>3 DEF Trace!Chain
  <1> QED
    BY <1>1, <1>2

(* What hangs on a chain of trust has one that reaches it from above. *)
LEMMA ChainHangs ==
    ASSUME NEW l \in 0 .. Trace!Depth, Trace!Chain(l)
    PROVE  Trace!Anchored(l) \/ Trace!Directly(l)
           \/ \E m \in 0 .. Trace!Depth : Trace!Chain(m) /\ Trace!Delegated(m, l)
  <1>1. PICK T \in SUBSET (0 .. Trace!Depth) :
           /\ l \in T
           /\ \A x \in T : Trace!Anchored(x) \/ Trace!Directly(x) \/ \E y \in T : Trace!Delegated(y, x)
    BY DEF Trace!Chain
  <1>2. \A m \in T : Trace!Chain(m)
    BY <1>1 DEF Trace!Chain
  <1> QED
    BY <1>1, <1>2

(* Keys that verify by attested keys belong to a level with a chain of trust. *)
LEMMA VerifiedIsChained ==
    ASSUME given \in TraceWorlds, NEW known, known \subseteq Trace!Attested, NEW above,
           NEW l \in 0 .. Trace!Depth, Trace!Verifies(l, known, above),
           above # {} => l - 1 \in 0 .. Trace!Depth /\ Trace!Chain(l - 1) /\ above = given.names[l - 1].keys
    PROVE  Trace!Chain(l)
  <1> DEFINE Start == {k \in given.trusted : k[1] = 0}
             n == given.names[l]
  <1>1. /\ \A x \in 0 .. Trace!Depth : \A k \in given.names[x].keys : k[1] = x
        /\ \A k \in n.dssigned : k[1] < l
        /\ Trace!Depth \in Nat
    BY TraceLevels
  <1>2. ASSUME NEW k \in known
        PROVE  k \in Start \/ (\E x \in 0 .. Trace!Depth : Trace!Chain(x) /\ k \in given.names[x].keys)
    <2>1. k \in Trace!Attested
      BY <1>2
    <2>2. PICK X : X = {Trace!Name(x).keys : x \in {y \in 0 .. Trace!Depth : Trace!Chain(y)}}
      OBVIOUS
    <2>3. Trace!Attested = (UNION X) \cup Start
      BY <2>2 DEF Trace!Attested
    <2>4. k \in Start \/ \E K \in X : k \in K
      BY <2>1, <2>3
    <2> QED
      BY <2>2, <2>4 DEF Trace!Name
  <1>3. CASE n.signed \cap n.keys \cap known # {}
    <2>1. PICK k : k \in n.signed /\ k \in n.keys /\ k \in known
      BY <1>3
    <2>2. k[1] = l
      BY <1>1, <2>1
    <2>3. CASE k \in Start
      <3>1. l = 0 /\ k \in given.trusted
        BY <2>2, <2>3
      <3>2. Trace!Anchored(l)
        BY <2>1, <3>1 DEF Trace!Anchored, Trace!Name
      <3> QED
        BY <3>2, ChainGrows
    <2>4. ASSUME NEW x \in 0 .. Trace!Depth, Trace!Chain(x), k \in given.names[x].keys
          PROVE  Trace!Chain(l)
      <3>1. x = l
        BY <1>1, <2>2, <2>4
      <3> QED
        BY <2>4, <3>1
    <2> QED
      BY <1>2, <2>1, <2>3, <2>4
  <1>4. CASE n.dssigned \cap (known \cup above) # {} /\ n.ds \cap n.signed \cap n.keys # {}
    <2>1. PICK k \in n.dssigned : k \in known \cup above
      BY <1>4
    <2>2. CASE k \in Start
      <3>1. Trace!Directly(l)
        BY <1>4, <2>1, <2>2 DEF Trace!Directly, Trace!Name
      <3> QED
        BY <3>1, ChainGrows
    <2>3. ASSUME NEW x \in 0 .. Trace!Depth, Trace!Chain(x), k \in given.names[x].keys
          PROVE  Trace!Chain(l)
      <3>1. k[1] = x /\ k[1] < l
        BY <1>1, <2>1, <2>3
      <3>2. Trace!Delegated(x, l)
        BY <1>4, <2>1, <2>3, <3>1 DEF Trace!Delegated, Trace!Name
      <3> QED
        BY <2>3, <3>2, ChainGrows
    <2>4. CASE k \in above
      BY <2>3, <2>4
    <2> QED
      BY <1>2, <2>1, <2>2, <2>3, <2>4
  <1> QED
    BY <1>3, <1>4 DEF Trace!Verifies

(* What ldns_fetch_valid_domain_keys returns is attested if the keys it was
   given are: there is no first level with keys that verify and no chain. *)
LEMMA FetchedIsAttested ==
    ASSUME given \in TraceWorlds, seen \subseteq Trace!Attested,
           NEW level \in 0 .. Trace!Depth, NEW found,
           Trace!ldns_fetch_valid_domain_keys(level, seen, found)
    PROVE  found \subseteq Trace!Attested
  <1>1. Trace!Depth \in Nat
    BY TraceLevels
  <1>2. PICK valid \in [0 .. level -> BOOLEAN] :
           /\ \A l \in 0 .. level :
                 valid[l] = Trace!Verifies(l, seen, IF l - 1 >= 0 /\ valid[l - 1] THEN given.names[l - 1].keys ELSE {})
           /\ found = IF level >= 0 /\ valid[level] THEN given.names[level].keys ELSE {}
    BY DEF Trace!ldns_fetch_valid_domain_keys
  <1> DEFINE Bad == {l \in 0 .. level : valid[l] /\ ~ Trace!Chain(l)}
  <1>3. Bad = {}
    <2>1. SUFFICES ASSUME Bad # {} PROVE FALSE
      OBVIOUS
    <2>2. Bad \subseteq Nat
      BY <1>1
    <2>3. PICK l \in Bad : \A x \in Bad : l <= x
      BY <2>1, <2>2, LeastNat
    <2> DEFINE above == IF l - 1 >= 0 /\ valid[l - 1] THEN given.names[l - 1].keys ELSE {}
    <2>4. l \in 0 .. level /\ l \in 0 .. Trace!Depth /\ Trace!Verifies(l, seen, above)
      BY <1>1, <1>2, <2>3
    <2>5. above # {} => l - 1 \in 0 .. level /\ l - 1 \in 0 .. Trace!Depth /\ valid[l - 1] /\ above = given.names[l - 1].keys
      BY <1>1, <2>4
    <2>6. above # {} => Trace!Chain(l - 1)
      <3>1. ~ (l <= l - 1)
        BY <1>1, <2>4
      <3> QED
        BY <2>3, <2>5, <3>1
    <2> HIDE DEF above
    <2>7. Trace!Chain(l)
      BY <2>4, <2>5, <2>6, VerifiedIsChained
    <2> QED
      BY <2>3, <2>7
  <1>4. CASE found = {}
    BY <1>4
  <1>5. CASE found # {}
    <2>1. found = given.names[level].keys /\ valid[level] /\ level \in 0 .. level
      BY <1>1, <1>2, <1>5
    <2>2. Trace!Chain(level)
      BY <1>3, <2>1
    <2> QED
      BY <2>1, <2>2 DEF Trace!Attested, Trace!Name
  <1> QED
    BY <1>4, <1>5

(* It misses no keys with a chain of trust if it was given all that are above. *)
LEMMA ChainedIsFetched ==
    ASSUME given \in TraceWorlds, NEW level \in 0 .. Trace!Depth, NEW found, Trace!Chain(level),
           {k \in given.trusted : k[1] = 0} \subseteq seen,
           \A l \in 0 .. Trace!Depth : l < level /\ Trace!Chain(l) => Trace!Name(l).keys \subseteq seen,
           Trace!ldns_fetch_valid_domain_keys(level, seen, found)
    PROVE  found = Trace!Name(level).keys
  <1>1. Trace!Depth \in Nat /\ \A k \in given.names[level].keys : k[1] = level
    BY TraceLevels
  <1>2. PICK above : found = IF Trace!Verifies(level, seen, above) THEN given.names[level].keys ELSE {}
    <2>1. PICK valid \in [0 .. level -> BOOLEAN] :
             /\ \A l \in 0 .. level :
                   valid[l] = Trace!Verifies(l, seen, IF l - 1 >= 0 /\ valid[l - 1] THEN given.names[l - 1].keys ELSE {})
             /\ found = IF level >= 0 /\ valid[level] THEN given.names[level].keys ELSE {}
      BY DEF Trace!ldns_fetch_valid_domain_keys
    <2>2. level \in 0 .. level /\ level >= 0
      BY <1>1
    <2>3. PICK above, v : above = (IF level - 1 >= 0 /\ valid[level - 1] THEN given.names[level - 1].keys ELSE {})
                          /\ v = valid[level]
      OBVIOUS
    <2>4. v \in BOOLEAN /\ v = Trace!Verifies(level, seen, above)
      BY <2>1, <2>2, <2>3
    <2>5. found = IF v THEN given.names[level].keys ELSE {}
      BY <2>1, <2>2, <2>3
    <2> QED
      BY <2>4, <2>5
  <1>3. Trace!Verifies(level, seen, above)
    <2>1. CASE Trace!Anchored(level)
      BY <1>1, <2>1 DEF Trace!Anchored, Trace!Name, Trace!Verifies
    <2>2. CASE Trace!Directly(level)
      BY <2>2 DEF Trace!Directly, Trace!Name, Trace!Verifies
    <2>3. ASSUME NEW m \in 0 .. Trace!Depth, Trace!Chain(m), Trace!Delegated(m, level)
          PROVE  Trace!Verifies(level, seen, above)
      <3>1. Trace!Name(m).keys \subseteq seen
        BY <2>3 DEF Trace!Delegated
      <3> QED
        BY <2>3, <3>1 DEF Trace!Delegated, Trace!Name, Trace!Verifies
    <2> QED
      BY <2>1, <2>2, <2>3, ChainHangs
  <1> QED
    BY <1>2, <1>3 DEF Trace!Name

LEMMA TraceInit ==
    ASSUME Trace!Init
    PROVE  Trace!IInv
  <1>1. given \in TraceWorlds /\ todo = Trace!Depth /\ seen = {} /\ pc = "start" /\ code = -1
    BY DEF Trace!Init
  <1>2. todo \in -1 .. Trace!Depth
    BY <1>1, TraceLevels
  <1> QED
    BY <1>1, <1>2 DEF Trace!IInv, Trace!TraceIsTrust

(* The loop that fetches the keys keeps what it needs to know of them. *)
LEMMA TraceFetch ==
    ASSUME Trace!IInv, Trace!FetchKeys
    PROVE  Trace!IInv'
  <1>1. /\ given' = given /\ pc = "keys" /\ pc' = pc /\ code' = code /\ todo' = todo - 1 /\ todo >= 0
        /\ given \in TraceWorlds /\ todo \in -1 .. Trace!Depth /\ seen \subseteq Trace!Attested
        /\ {k \in given.trusted : k[1] = 0} \subseteq seen
        /\ status = "complete" =>
              \A l \in 0 .. Trace!Depth : l < Trace!Depth - todo /\ Trace!Chain(l) => Trace!Name(l).keys \subseteq seen
    BY DEF Trace!IInv, Trace!FetchKeys
  <1>2. Trace!Depth \in Nat
    BY <1>1, TraceLevels
  <1>3. PICK level : level = Trace!Depth - todo
    OBVIOUS
  <1>4. level \in 0 .. Trace!Depth /\ Trace!Depth - (todo - 1) = level + 1 /\ todo - 1 \in -1 .. Trace!Depth
    BY <1>1, <1>2, <1>3
  <1>5. /\ Trace!Depth' = Trace!Depth /\ Trace!Attested' = Trace!Attested
        /\ \A l : (Trace!Chain(l)' <=> Trace!Chain(l)) /\ Trace!Name(l)' = Trace!Name(l)
    BY <1>1 DEF Trace!Depth, Trace!Attested, Trace!Chain, Trace!Name, Trace!Anchored, Trace!Directly, Trace!Delegated
  <1>6. /\ seen' \subseteq Trace!Attested /\ seen \subseteq seen'
        /\ status' = "complete" =>
              \A l \in 0 .. Trace!Depth : l < level + 1 /\ Trace!Chain(l) => Trace!Name(l).keys \subseteq seen'
    <2>1. ASSUME NEW found, Trace!ldns_fetch_valid_domain_keys(level, seen, found), seen' = seen \cup found, status' = status
          PROVE  <1>6!:
      <3>1. found \subseteq Trace!Attested
        BY <1>1, <1>4, <2>1, FetchedIsAttested
      <3>2. ASSUME status = "complete", NEW l \in 0 .. Trace!Depth, l < level + 1, Trace!Chain(l)
            PROVE  Trace!Name(l).keys \subseteq seen'
        <4>1. CASE l < level
          BY <1>1, <1>3, <2>1, <3>2, <4>1
        <4>2. CASE l = level
          BY <1>1, <1>3, <1>4, <2>1, <3>2, <4>2, ChainedIsFetched
        <4> QED
          BY <1>2, <1>4, <3>2, <4>1, <4>2
      <3> QED
        BY <1>1, <2>1, <3>1, <3>2
    <2>2. CASE status' = "lost" /\ seen' = seen
      BY <1>1, <2>2
    <2> QED
      BY <1>3, <2>1, <2>2 DEF Trace!FetchKeys
  <1> QED
    BY <1>1, <1>4, <1>5, <1>6 DEF Trace!IInv, Trace!TraceIsTrust

(* Every other step keeps what is known of the keys. *)
LEMMA TraceStep ==
    ASSUME Trace!IInv, [Trace!Next]_(Trace!vars)
    PROVE  Trace!IInv'
  <1> DEFINE Start == {k \in given.trusted : k[1] = 0}
  <1>1. CASE Trace!FetchKeys
    BY <1>1, TraceFetch
  <1> SUFFICES ASSUME given' = given, todo' = todo, status' = status, ~ Trace!FetchKeys
               PROVE  Trace!IInv'
    BY <1>1 DEF Trace!IInv, Trace!Next, Trace!vars, Trace!process_arguments, Trace!TrustedKeys, Trace!QuerySoa,
                Trace!QueryNs, Trace!Verify, Trace!Alarm, Trace!Terminated
  <1>2. /\ given \in TraceWorlds /\ todo \in -1 .. Trace!Depth /\ seen \subseteq Trace!Attested
        /\ pc \in {"soa", "ns", "keys"} => Start \subseteq seen
        /\ pc \in {"start", "soa", "ns"} => todo = Trace!Depth
        /\ pc = "keys" /\ status = "complete" =>
              \A l \in 0 .. Trace!Depth : l < Trace!Depth - todo /\ Trace!Chain(l) => Trace!Name(l).keys \subseteq seen
        /\ Trace!Depth \in Nat
    BY TraceLevels DEF Trace!IInv
  <1>3. Start \subseteq Trace!Attested
    BY DEF Trace!Attested
  <1>4. /\ Trace!Depth' = Trace!Depth /\ Trace!Attested' = Trace!Attested
        /\ \A l : (Trace!Chain(l)' <=> Trace!Chain(l)) /\ Trace!Name(l)' = Trace!Name(l)
    BY DEF Trace!Depth, Trace!Attested, Trace!Chain, Trace!Name, Trace!Anchored, Trace!Directly, Trace!Delegated
  <1>5. CASE Trace!process_arguments
    BY <1>2, <1>4, <1>5 DEF Trace!process_arguments, Trace!Leave, Trace!IInv, Trace!TraceIsTrust
  <1>6. CASE Trace!TrustedKeys
    <2>1. seen' = Start /\ pc' \in {"failed", "soa"}
      BY <1>6 DEF Trace!TrustedKeys, Trace!Leave, Trace!Goto
    <2>2. todo = Trace!Depth
      BY <1>2, <1>6 DEF Trace!TrustedKeys
    <2> QED
      BY <1>2, <1>3, <1>4, <2>1, <2>2 DEF Trace!IInv, Trace!TraceIsTrust
  <1>7. CASE Trace!QuerySoa
    BY <1>2, <1>4, <1>7 DEF Trace!QuerySoa, Trace!Leave, Trace!Goto, Trace!IInv, Trace!TraceIsTrust
  <1>8. CASE Trace!QueryNs
    <2>1. pc = "ns" /\ pc' \in {"keys", "failed", "crashed"} /\ seen' = seen
      BY <1>8 DEF Trace!QueryNs, Trace!Leave, Trace!Goto
    <2>2. \A l \in 0 .. Trace!Depth : ~ (l < Trace!Depth - todo)
      BY <1>2, <2>1
    <2> QED
      BY <1>2, <1>4, <2>1, <2>2 DEF Trace!IInv, Trace!TraceIsTrust
  <1>9. CASE Trace!Verify
    <2>1. /\ pc = "keys" /\ pc' = "exited" /\ seen' = seen /\ todo < 0
          /\ code' = IF given.soa \cap seen = {} \/ given.ns \cap seen = {} THEN 2 ELSE 0
      BY <1>9 DEF Trace!Verify, Trace!Leave, Trace!STATE_CRITICAL, Trace!STATE_OK
    <2>2. status = "complete" => \A l \in 0 .. Trace!Depth : Trace!Chain(l) => Trace!Name(l).keys \subseteq seen
      BY <1>2, <2>1
    <2>3. status = "complete" => Trace!Attested \subseteq seen
      <3>1. PICK X : X = {Trace!Name(x).keys : x \in {y \in 0 .. Trace!Depth : Trace!Chain(y)}}
        OBVIOUS
      <3>2. Trace!Attested = (UNION X) \cup Start
        BY <3>1 DEF Trace!Attested
      <3>3. status = "complete" => \A K \in X : K \subseteq seen
        BY <2>2, <3>1
      <3> QED
        BY <1>2, <2>1, <3>2, <3>3
    <2>4. Trace!TraceIsTrust'
      BY <1>2, <1>4, <2>1, <2>3 DEF Trace!TraceIsTrust, Trace!STATE_OK
    <2> QED
      BY <1>2, <1>4, <2>1, <2>4 DEF Trace!IInv
  <1>10. CASE Trace!Alarm
    BY <1>2, <1>4, <1>10 DEF Trace!Alarm, Trace!Leave, Trace!IInv, Trace!TraceIsTrust
  <1>11. CASE UNCHANGED Trace!vars
    BY <1>2, <1>4, <1>11 DEF Trace!vars, Trace!IInv, Trace!TraceIsTrust
  <1> QED
    BY <1>5, <1>6, <1>7, <1>8, <1>9, <1>10, <1>11 DEF Trace!Next, Trace!Terminated

(* The chain of keys of check_dnssec_trace, for zones and chains of any size. *)
THEOREM TraceWasTrust == VerdictsSpec => []TraceIsTrust
  <1> DEFINE I == check = "trace" => Trace!IInv
  <1>1. VerdictsInit => I
    BY TraceInit DEF VerdictsInit
  <1>2. I /\ [VerdictsNext]_verdictVars => I'
    BY OneVerdict, TraceStep
  <1>3. I => TraceIsTrust
    BY DEF TraceIsTrust, Trace!IInv
  <1> QED
    BY <1>1, <1>2, <1>3, PTL DEF VerdictsSpec

-----------------------------------------------------------------------------
(* check_redis, check_redis_slave, check_pgsql_slave, check_buildbot_slave and
   check_rabbitmq                                                           *)

LEMMA StatusIsOk ==
    ASSUME NEW v, NEW t
    PROVE  /\ Query!get_status(v, t) = 0 <=> ~Query!Outside(v, t.crit) /\ ~Query!Outside(v, t.warn)
           /\ Query!get_status(v, t) \in {0, 1, 2}
  BY DEF Query!get_status, Query!STATE_OK, Query!STATE_WARNING, Query!STATE_CRITICAL

(* A reading is within its limits exactly if no limit is left. *)
LEMMA WithinIsOk ==
    ASSUME NEW v \in Nat \cup {-1}, NEW t, Query!IsLimits(t), v = -1 => Query!Limited(t)
    PROVE  Query!get_status(v, t) = 0 <=> Query!Within(v, t)
  BY StatusIsOk DEF Query!Outside, Query!Within, Query!Limited, Query!IsLimits, Query!NONE

(* The only line with one of the keys is the last one. *)
LEMMA OnlyLine ==
    ASSUME NEW info, NEW keys, DOMAIN info \subseteq Int, NEW k \in DOMAIN info, info[k].key \in keys,
           \A m \in DOMAIN info : info[m].key \in keys => m = k
    PROVE  Query!LastLine(info, keys) = k /\ Query!Has(info, keys)
  <1>1. \A m \in DOMAIN info : info[m].key \in keys => m <= k
    OBVIOUS
  <1>2. \A n \in DOMAIN info : info[n].key \in keys => n = k
    OBVIOUS
  <1> QED
    BY <1>1, <1>2 DEF Query!LastLine, Query!Has

LEMMA RedisIsFine ==
    ASSUME NEW g, g.plugin = "check_redis", Query!Legal(g), ~Query!Unclear(g)
    PROVE  Query!check_redis(g) = 0 <=> Query!Fine(g)
  <1> DEFINE used == Query!Value(g.info, {"used_memory"})
             Res(e) == Query!Resolved(g, e)
             max == g.maxmemory
  <1>1. /\ DOMAIN g.info \subseteq Int /\ Query!OncePerKey(g.info)
        /\ \A k \in DOMAIN g.info : g.info[k].value \in Nat
        /\ g.maxmemory \in Nat \cup {-1} /\ g.time \in Nat
        /\ Query!IsLimits(g.times) /\ Query!IsLimits(g.memory)
    BY DEF Query!Legal, Query!NONE
  <1>2. \/ Query!Lines(g, "used_memory") = {} /\ used = -1
        \/ \E l : Query!Lines(g, "used_memory") = {l} /\ used = l.value /\ used \in Nat
    <2>1. CASE \E k \in DOMAIN g.info : g.info[k].key = "used_memory"
      <3>1. PICK k \in DOMAIN g.info : g.info[k].key = "used_memory"
        BY <2>1
      <3>2. \A m \in DOMAIN g.info : g.info[m].key \in {"used_memory"} => m = k
        BY <1>1, <3>1 DEF Query!OncePerKey
      <3>3. Query!LastLine(g.info, {"used_memory"}) = k /\ Query!Has(g.info, {"used_memory"})
        BY <1>1, <3>1, <3>2, OnlyLine
      <3>4. used = g.info[k].value
        BY <3>3 DEF Query!Value
      <3>5. Query!Lines(g, "used_memory") = {g.info[k]}
        BY <3>1, <3>2 DEF Query!Lines
      <3> QED
        BY <1>1, <3>4, <3>5
    <2>2. CASE ~ \E k \in DOMAIN g.info : g.info[k].key = "used_memory"
      BY <2>2 DEF Query!Lines, Query!Value, Query!Has
    <2> QED
      BY <2>1, <2>2
  <1>3. ASSUME NEW e \in Nat, NEW u \in Nat
        PROVE  /\ Res(e) \in Nat
               /\ u <= Res(e) <=> IF g.percent THEN u * 100 <= e * max ELSE u <= e
    <2>1. CASE ~g.percent
      BY <1>3, <2>1 DEF Query!Resolved, Query!NONE
    <2>2. CASE g.percent
      <3>1. g.mp_showperfdata /\ max \in Nat
        BY <1>1, <2>2 DEF Query!Unclear, Query!NONE
      <3>2. Res(e) = (max * e) \div 100
        BY <1>3, <2>2, <3>1 DEF Query!Resolved, Query!NONE
      <3>3. max * e \in Nat /\ max * e = e * max
        BY <1>3, <3>1
      <3>4. PICK p : p = max * e
        OBVIOUS
      <3>5. p \div 100 \in Nat /\ (u <= p \div 100 <=> u * 100 <= p)
        BY <1>3, <3>3, <3>4
      <3> QED
        BY <2>2, <3>2, <3>3, <3>4, <3>5
    <2> QED
      BY <2>1, <2>2
  <1>4. Res(-1) = -1
    BY DEF Query!Resolved, Query!NONE
  <1> DEFINE Low(e) == /\ Query!Lines(g, "used_memory") # {}
                       /\ \A l \in Query!Lines(g, "used_memory") :
                             IF g.percent THEN l.value * 100 <= e * g.maxmemory ELSE l.value <= e
  <1>5. ASSUME NEW e \in Nat \cup {-1}
        PROVE  ~Query!Outside(used, Res(e)) <=> (e # -1 => Low(e))
    <2>1. CASE e = -1
      BY <1>4, <2>1 DEF Query!Outside, Query!NONE
    <2>2. CASE e \in Nat /\ used = -1 /\ Query!Lines(g, "used_memory") = {}
      <3>1. Res(e) \in Nat
        BY <1>3, <2>2
      <3> QED
        BY <2>2, <3>1 DEF Query!Outside, Query!NONE
    <2>3. ASSUME e \in Nat, NEW l, Query!Lines(g, "used_memory") = {l}, used = l.value, used \in Nat
          PROVE  ~Query!Outside(used, Res(e)) <=> (e # -1 => Low(e))
      <3>1. Res(e) \in Nat /\ (used <= Res(e) <=> IF g.percent THEN used * 100 <= e * max ELSE used <= e)
        BY <1>3, <2>3
      <3>2. ~Query!Outside(used, Res(e)) <=> used <= Res(e)
        BY <2>3, <3>1 DEF Query!Outside, Query!NONE
      <3>3. Low(e) <=> IF g.percent THEN used * 100 <= e * max ELSE used <= e
        BY <2>3
      <3>4. e # -1
        BY <2>3
      <3> QED
        BY <3>1, <3>2, <3>3, <3>4
    <2> QED
      BY <1>2, <1>5, <2>1, <2>2, <2>3
  <1> DEFINE t == [warn |-> Res(g.memory.warn), crit |-> Res(g.memory.crit)]
  <1>6. Query!get_status(used, t) = 0 <=> (g.memory.warn # -1 => Low(g.memory.warn)) /\ (g.memory.crit # -1 => Low(g.memory.crit))
    <2>1. g.memory.warn \in Nat \cup {-1} /\ g.memory.crit \in Nat \cup {-1}
      BY <1>1 DEF Query!IsLimits, Query!NONE
    <2>2. t.warn = Res(g.memory.warn) /\ t.crit = Res(g.memory.crit)
      OBVIOUS
    <2> HIDE DEF t, Res, used, Low
    <2>3. Query!get_status(used, t) = 0 <=> ~Query!Outside(used, t.crit) /\ ~Query!Outside(used, t.warn)
      BY StatusIsOk
    <2> QED
      BY <1>5, <2>1, <2>2, <2>3
  <1>7. Query!get_status(g.time, g.times) = 0 <=> Query!Within(g.time, g.times)
    BY <1>1, WithinIsOk
  <1>8. Query!check_redis(g) = 0 <=> Query!get_status(used, t) = 0 /\ Query!get_status(g.time, g.times) = 0
    BY DEF Query!check_redis, Query!STATE_OK
  <1>9. Query!Fine(g) <=> /\ Query!Within(g.time, g.times)
                          /\ \A limit \in {g.memory.warn, g.memory.crit} \ {-1} : Low(limit)
    BY DEF Query!Fine, Query!NONE
  <1> HIDE DEF t, used, Low
  <1> QED
    BY <1>6, <1>7, <1>8, <1>9

(* The text of the only line of a key. *)
LEMMA LineOfKey ==
    ASSUME NEW g, NEW key, DOMAIN g.info \subseteq Int, Query!OncePerKey(g.info),
           \A k \in DOMAIN g.info : g.info[k].text # "null"
    PROVE  \/ Query!Lines(g, key) = {} /\ Query!Text(g.info, key) = "null"
           \/ \E l : Query!Lines(g, key) = {l} /\ Query!Text(g.info, key) = l.text /\ l.text # "null"
  <1>1. CASE \E k \in DOMAIN g.info : g.info[k].key = key
    <2>1. PICK k \in DOMAIN g.info : g.info[k].key = key
      BY <1>1
    <2>2. \A m \in DOMAIN g.info : g.info[m].key \in {key} => m = k
      BY <2>1 DEF Query!OncePerKey
    <2>3. Query!LastLine(g.info, {key}) = k /\ Query!Has(g.info, {key})
      BY <2>1, <2>2, OnlyLine
    <2>4. Query!Text(g.info, key) = g.info[k].text
      BY <2>3 DEF Query!Text
    <2>5. Query!Lines(g, key) = {g.info[k]}
      BY <2>1, <2>2 DEF Query!Lines
    <2> QED
      BY <2>4, <2>5
  <1>2. CASE ~ \E k \in DOMAIN g.info : g.info[k].key = key
    BY <1>2 DEF Query!Lines, Query!Text, Query!Has
  <1> QED
    BY <1>1, <1>2

LEMMA RedisSlaveIsFine ==
    ASSUME NEW g, g.plugin = "check_redis_slave", Query!Legal(g)
    PROVE  Query!check_redis_slave(g) = 0 <=> Query!Fine(g)
  <1> DEFINE io == "master_last_io_seconds_ago"
             down == "master_link_down_since_seconds"
             role == Query!Text(g.info, "role")
             link == Query!Text(g.info, "master_link_status")
             ago == Query!Value(g.info, {io, down})
  <1>1. /\ DOMAIN g.info \subseteq Int /\ Query!OncePerKey(g.info)
        /\ \A k \in DOMAIN g.info : g.info[k].value \in Int
        /\ \A k \in DOMAIN g.info : g.info[k].text # "null"
        /\ Query!Lines(g, down) # {} => ~ \E l \in Query!Lines(g, "master_link_status") : l.text = "up"
        /\ g.times.warn \in Nat /\ g.times.crit \in Nat
    BY DEF Query!Legal
  <1>2. {l.text : l \in Query!Lines(g, "role")} = {"slave"} <=> role = "slave"
    BY <1>1, LineOfKey
  <1>3. /\ {l.text : l \in Query!Lines(g, "master_link_status")} = {"up"} <=> link = "up"
        /\ link = "up" => \E l \in Query!Lines(g, "master_link_status") : l.text = "up"
    BY <1>1, LineOfKey
  <1>4. ASSUME link = "up"
        PROVE  \/ Query!Lines(g, io) = {} /\ ago = -1
               \/ \E l : Query!Lines(g, io) = {l} /\ ago = l.value /\ ago \in Int
    <2>1. Query!Lines(g, down) = {}
      BY <1>1, <1>3, <1>4
    <2>2. \A m \in DOMAIN g.info : g.info[m].key # down
      BY <2>1 DEF Query!Lines
    <2>3. CASE \E k \in DOMAIN g.info : g.info[k].key = io
      <3>1. PICK k \in DOMAIN g.info : g.info[k].key = io
        BY <2>3
      <3>2. \A m \in DOMAIN g.info : g.info[m].key \in {io, down} => m = k
        BY <1>1, <2>2, <3>1 DEF Query!OncePerKey
      <3>3. Query!LastLine(g.info, {io, down}) = k /\ Query!Has(g.info, {io, down})
        BY <1>1, <3>1, <3>2, OnlyLine
      <3>4. ago = g.info[k].value
        BY <3>3 DEF Query!Value
      <3>5. Query!Lines(g, io) = {g.info[k]}
        BY <3>1, <3>2 DEF Query!Lines
      <3> QED
        BY <1>1, <3>4, <3>5
    <2>4. CASE ~ \E k \in DOMAIN g.info : g.info[k].key = io
      BY <2>2, <2>4 DEF Query!Lines, Query!Value, Query!Has
    <2> QED
      BY <2>3, <2>4
  <1>5. Query!Fine(g) <=> /\ {l.text : l \in Query!Lines(g, "role")} = {"slave"}
                          /\ {l.text : l \in Query!Lines(g, "master_link_status")} = {"up"}
                          /\ Query!Lines(g, io) # {}
                          /\ \A l \in Query!Lines(g, io) : l.value >= 0 /\ Query!Within(l.value, g.times)
    BY DEF Query!Fine
  <1>6. Query!check_redis_slave(g) = 0 <=> role = "slave" /\ link = "up" /\ Query!get_status(ago, g.times) = 0
    BY DEF Query!check_redis_slave, Query!CRASH, Query!STATE_CRITICAL
  <1> HIDE DEF role, link, ago, io, down
  <1>7. ASSUME link = "up"
        PROVE  Query!get_status(ago, g.times) = 0
               <=> /\ Query!Lines(g, io) # {}
                   /\ \A l \in Query!Lines(g, io) : l.value >= 0 /\ Query!Within(l.value, g.times)
    <2>1. Query!get_status(ago, g.times) = 0 <=> ~Query!Outside(ago, g.times.crit) /\ ~Query!Outside(ago, g.times.warn)
      BY StatusIsOk
    <2>2. CASE Query!Lines(g, io) = {} /\ ago = -1
      BY <1>1, <2>1, <2>2 DEF Query!Outside, Query!NONE
    <2>3. ASSUME NEW l, Query!Lines(g, io) = {l}, ago = l.value, ago \in Int
          PROVE  <1>7!2
      <3>1. Query!get_status(ago, g.times) = 0 <=> ago >= 0 /\ Query!Within(ago, g.times)
        BY <1>1, <2>1, <2>3 DEF Query!Outside, Query!Within, Query!NONE
      <3> QED
        BY <2>3, <3>1
    <2> QED
      BY <1>4, <1>7, <2>2, <2>3
  <1> QED
    BY <1>2, <1>3, <1>5, <1>6, <1>7

(* Of intervals that are well formed check_pgsql_slave tells those apart that its
   limits tell apart, but for days: they are counted as hours, which a limit below
   an hour does not notice and two limits of an hour or more do (Unclear). *)
LEMMA PgsqlIsFine ==
    ASSUME NEW g, g.plugin = "check_pgsql_slave", Query!Legal(g), ~Query!Unclear(g),
           NEW v \in Query!check_pgsql_slave(g)
    PROVE  v = 0 <=> Query!Fine(g)
  <1>1. PICK i, t, sign, days, h, m, s, warn, crit, d, seconds :
           /\ i = g.interval /\ t = g.times
           /\ sign = i.sign /\ days = i.days /\ h = i.h /\ m = i.m /\ s = i.s
           /\ warn = t.warn /\ crit = t.crit /\ d = Query!delay(i)
           /\ seconds = i.days * 86400 + i.h * 3600 + i.m * 60 + i.s
    OBVIOUS
  <1>2. /\ sign \in {1, -1} /\ days \in Nat /\ h \in Nat /\ m \in 0 .. 59 /\ s \in 0 .. 59
        /\ (sign = -1 => days = 0) /\ warn \in Nat /\ crit \in Nat
    BY <1>1 DEF Query!Legal
  <1>3. ~i.null /\ ~(days > 0 /\ warn >= 3600 /\ crit >= 3600)
    BY <1>1 DEF Query!Unclear
  <1>4. d = IF days = 0 THEN sign * h * 3600 + m * 60 + s ELSE days * 3600 + (IF days = 1 THEN h ELSE 0)
    BY <1>1 DEF Query!delay
  <1>5. seconds = days * 86400 + h * 3600 + m * 60 + s
    BY <1>1
  <1> DEFINE Low == 0 <= d /\ d <= warn /\ d <= crit
             Late == seconds <= warn /\ seconds <= crit
  <1>6. /\ d \in Int /\ seconds \in Nat
        /\ Low <=> ((sign = 1 \/ seconds < 3600) => Late) /\ (sign = -1 => seconds < 3600)
    <2>1. CASE days = 0 /\ sign = 1
      <3>1. d = h * 3600 + m * 60 + s /\ seconds = h * 3600 + m * 60 + s
        BY <1>2, <1>4, <1>5, <2>1
      <3>2. d = seconds /\ seconds \in Nat
        BY <1>2, <3>1
      <3> QED
        BY <1>2, <2>1, <3>2
    <2>2. CASE sign = -1 /\ h = 0
      <3>1. d = m * 60 + s /\ seconds = m * 60 + s
        BY <1>2, <1>4, <1>5, <2>2
      <3>2. d = seconds /\ seconds \in 0 .. 3599
        BY <1>2, <3>1
      <3> QED
        BY <1>2, <2>2, <3>2
    <2>3. CASE sign = -1 /\ h # 0
      <3>1. d = m * 60 + s - h * 3600 /\ seconds = h * 3600 + m * 60 + s
        BY <1>2, <1>4, <1>5, <2>3
      <3>2. d \in Int /\ d < 0 /\ seconds \in Nat /\ ~ (seconds < 3600)
        BY <1>2, <2>3, <3>1
      <3>3. ~ (0 <= d)
        BY <3>2
      <3> QED
        BY <2>3, <3>2, <3>3
    <2>4. CASE days # 0 /\ sign = 1
      <3>1. d \in Nat /\ d >= 3600
        BY <1>2, <1>4, <2>4
      <3>2. seconds \in Nat /\ seconds >= 3600
        BY <1>2, <1>5, <2>4
      <3>3. warn < 3600 \/ crit < 3600
        BY <1>2, <1>3, <2>4
      <3>4. ~ (d <= warn /\ d <= crit) /\ ~ (seconds <= warn /\ seconds <= crit)
        BY <1>2, <3>1, <3>2, <3>3
      <3> QED
        BY <2>4, <3>1, <3>2, <3>4
    <2> QED
      BY <1>2, <2>1, <2>2, <2>3, <2>4
  <1>7. Query!Fine(g) <=> /\ g.recovery
                          /\ (sign = 1 \/ seconds < 3600) => Query!Within(seconds, t)
                          /\ sign = -1 => seconds < 3600
    BY <1>1 DEF Query!Fine
  <1>8. Query!Within(seconds, t) <=> Late
    <2>1. t.warn = warn /\ t.crit = crit
      BY <1>1
    <2>2. seconds \in Nat /\ warn \in Nat /\ crit \in Nat
      BY <1>2, <1>6
    <2>3. seconds # -1 /\ warn # -1 /\ crit # -1
      BY <2>2
    <2> QED
      BY <2>1, <2>3 DEF Query!Within, Query!NONE
  <1>9. Query!get_status(d, t) = 0 <=> Low
    <2>1. ~Query!Outside(d, warn) <=> 0 <= d /\ d <= warn
      BY <1>2, <1>6 DEF Query!Outside, Query!NONE
    <2>2. ~Query!Outside(d, crit) <=> 0 <= d /\ d <= crit
      BY <1>2, <1>6 DEF Query!Outside, Query!NONE
    <2>3. Query!get_status(d, t) = 0 <=> ~Query!Outside(d, crit) /\ ~Query!Outside(d, warn)
      BY <1>1, StatusIsOk
    <2> QED
      BY <2>1, <2>2, <2>3
  <1>10. v = IF g.recovery THEN Query!get_status(d, t) ELSE 2
    BY <1>1, <1>3 DEF Query!check_pgsql_slave, Query!STATE_CRITICAL
  <1> HIDE DEF Low, Late
  <1> QED
    BY <1>6, <1>7, <1>8, <1>9, <1>10

LEMMA BuildbotIsFine ==
    ASSUME NEW g, g.plugin = "check_buildbot_slave"
    PROVE  Query!check_buildbot_slave(g) = 0 <=> Query!Fine(g)
  <1>1. PICK slaves : slaves = IF g.asked # {} THEN g.asked ELSE DOMAIN g.doc
    OBVIOUS
  <1>2. Query!check_buildbot_slave(g) = 0 <=> slaves # {} /\ \A s \in slaves : s \in DOMAIN g.doc /\ g.doc[s] = "connected"
    BY <1>1 DEF Query!check_buildbot_slave, Query!Failed, Query!STATE_OK, Query!STATE_WARNING, Query!STATE_CRITICAL
  <1>3. Query!Fine(g) <=> /\ g.asked \subseteq DOMAIN g.doc
                          /\ DOMAIN g.doc # {}
                          /\ \A s \in DOMAIN g.doc : (g.asked = {} \/ s \in g.asked) => g.doc[s] = "connected"
    BY DEF Query!Fine
  <1> QED
    BY <1>1, <1>2, <1>3

LEMMA RabbitmqIsFine ==
    ASSUME NEW g, g.plugin = "check_rabbitmq", Query!Legal(g)
    PROVE  Query!check_rabbitmq(g) = 0 <=> Query!Fine(g)
  <1> DEFINE Got(c) == Query!get_status(g.counters[c], g.limits[c])
             S == {Got(c) : c \in DOMAIN g.counters}
  <1>1. /\ DOMAIN g.counters # {}
        /\ \A c \in DOMAIN g.counters : g.counters[c] \in Nat \cup {-1} /\ Query!IsLimits(g.limits[c])
    BY DEF Query!Legal, Query!NONE
  <1>2. S # {} /\ S \subseteq {0, 1, 2}
    BY <1>1, StatusIsOk
  <1>3. Query!Worst(S) = 0 <=> S = {0}
    <2> HIDE DEF S
    <2>1. \E s \in S : \A r \in S : r <= s
      <3>1. CASE 2 \in S
        BY <1>2, <3>1
      <3>2. CASE 2 \notin S /\ 1 \in S
        <4>1. \A r \in S : r = 0 \/ r = 1
          BY <1>2, <3>2
        <4> QED
          BY <3>2, <4>1
      <3>3. CASE 2 \notin S /\ 1 \notin S
        <4>1. \A r \in S : r = 0
          BY <1>2, <3>3
        <4>2. 0 \in S
          BY <1>2, <4>1
        <4> QED
          BY <4>1, <4>2
      <3> QED
        BY <3>1, <3>2, <3>3
    <2>2. Query!Worst(S) \in S /\ \A r \in S : r <= Query!Worst(S)
      BY <2>1 DEF Query!Worst
    <2>3. \A r \in S : r \in {0, 1, 2}
      BY <1>2
    <2>4. ASSUME Query!Worst(S) = 0, NEW r \in S
          PROVE  r = 0
      <3>1. r <= 0 /\ r \in {0, 1, 2}
        BY <2>2, <2>3, <2>4
      <3> QED
        BY <3>1
    <2> QED
      BY <2>2, <2>4
  <1>4. S = {0} <=> \A c \in DOMAIN g.counters : Got(c) = 0
    BY <1>1
  <1>5. ASSUME NEW c \in DOMAIN g.counters
        PROVE  Got(c) = 0 <=> (Query!Limited(g.limits[c]) => Query!Within(g.counters[c], g.limits[c]))
    <2>1. CASE Query!Limited(g.limits[c])
      BY <1>1, <2>1, WithinIsOk
    <2>2. CASE ~Query!Limited(g.limits[c])
      BY <2>2, StatusIsOk DEF Query!Limited, Query!Outside
    <2> QED
      BY <2>1, <2>2
  <1>6. Query!check_rabbitmq(g) = IF ~g.queue_totals THEN 2 ELSE Query!Worst(S)
    BY DEF Query!check_rabbitmq, Query!STATE_CRITICAL
  <1>7. Query!Fine(g) <=> /\ g.queue_totals
                          /\ \A c \in DOMAIN g.counters : Query!Limited(g.limits[c]) => Query!Within(g.counters[c], g.limits[c])
    BY DEF Query!Fine
  <1> HIDE DEF S, Got
  <1> QED
    BY <1>3, <1>4, <1>5, <1>6, <1>7

LEMMA QueryInit ==
    ASSUME Query!Init
    PROVE  Query!IInv
  BY DEF Query!Init, Query!IInv

LEMMA QueryStep ==
    ASSUME Query!IInv, [Query!Next]_(Query!vars)
    PROVE  Query!IInv'
  <1>1. given \in Questions /\ given' = given
    BY DEF Query!IInv, Query!Next, Query!vars, Query!process_arguments, Query!redisConnect, Query!mp_redisCommand,
           Query!mp_pgsql_init, Query!mp_pgsql_exec, Query!mp_curl_init, Query!mp_curl_perform,
           Query!mp_json_tokener_parse, Query!Ask, Query!Judge, Query!Alarm, Query!Terminated
  <1>2. CASE Query!Judge
    <2>1. pc' = "exited" => code' \in Query!Verdicts(given) /\ code' # Query!CRASH
      BY <1>2 DEF Query!Judge, Query!Leave
    <2> QED
      BY <1>1, <2>1 DEF Query!IInv, Query!Verdicts, Query!CRASH
  <1>3. CASE pc' = pc /\ code' = code
    BY <1>1, <1>3 DEF Query!IInv, Query!Verdicts
  <1>4. CASE pc' # "exited"
    BY <1>1, <1>4 DEF Query!IInv
  <1> QED
    BY <1>2, <1>3, <1>4
       DEF Query!Next, Query!vars, Query!process_arguments, Query!redisConnect, Query!mp_redisCommand,
           Query!mp_pgsql_init, Query!mp_pgsql_exec, Query!mp_curl_init, Query!mp_curl_perform,
           Query!mp_json_tokener_parse, Query!Ask, Query!Leave, Query!Alarm, Query!Terminated

LEMMA QueryIsTrue ==
    ASSUME Query!IInv
    PROVE  Query!OkIsTrue
  <1> SUFFICES ASSUME pc = "exited", ~Query!Unclear(given) PROVE code = 0 <=> Query!Fine(given)
    BY DEF Query!OkIsTrue, Query!STATE_OK
  <1>1. Query!Legal(given) /\ code \in Query!Verdicts(given)
    BY VerdictsAssumption DEF Query!IInv
  <1>2. given.plugin \in {"check_redis", "check_redis_slave", "check_pgsql_slave", "check_buildbot_slave", "check_rabbitmq"}
    BY <1>1 DEF Query!Legal, Query!Calls
  <1>3. CASE given.plugin = "check_redis"
    BY <1>1, <1>3, RedisIsFine DEF Query!Verdicts
  <1>4. CASE given.plugin = "check_redis_slave"
    BY <1>1, <1>4, RedisSlaveIsFine DEF Query!Verdicts
  <1>5. CASE given.plugin = "check_pgsql_slave"
    BY <1>1, <1>5, PgsqlIsFine DEF Query!Verdicts
  <1>6. CASE given.plugin = "check_buildbot_slave"
    BY <1>1, <1>6, BuildbotIsFine DEF Query!Verdicts
  <1>7. CASE given.plugin = "check_rabbitmq"
    BY <1>1, <1>7, RabbitmqIsFine DEF Query!Verdicts
  <1> QED
    BY <1>2, <1>3, <1>4, <1>5, <1>6, <1>7

-----------------------------------------------------------------------------
(* check_ldap_replication                                                   *)

LEMMA LdapInit ==
    ASSUME Ldap!Init
    PROVE  Ldap!IInv
  <1>1. csn \in [Databases -> [slave : 0 .. MaxTime, master : 0 .. MaxTime]]
    BY DEF Ldap!Init
  <1> QED
    BY <1>1 DEF Ldap!Init, Ldap!IInv

(* The databases that are compared are a sequence of databases. *)
LEMMA DatabasesAreSeq ==
    ASSUME NEW S \in SUBSET Databases, NEW s \in Ldap!SetToSeqs(S)
    PROVE  s \in Seq(Databases)
  <1>1. IsFiniteSet(S)
    BY VerdictsAssumption, FS_Subset
  <1>2. Cardinality(S) \in Nat
    BY <1>1, FS_CardinalityType
  <1>3. Ldap!Cardinality(S) = Cardinality(S)
    BY DEF Ldap!Cardinality, Cardinality
  <1>4. s \in [1 .. Cardinality(S) -> S]
    BY <1>3 DEF Ldap!SetToSeqs
  <1>5. s \in [1 .. Cardinality(S) -> Databases]
    BY <1>4
  <1> QED
    BY <1>2, <1>5, FcnIsSeq

(* A step of master or slave counts as a change, and keeps times in bounds. *)
LEMMA LdapServers ==
    ASSUME Ldap!IInv, NEW d \in Databases, Ldap!Change(d) \/ Ldap!Replicate(d)
    PROVE  Ldap!IInv'
  <1>1. /\ csn \in [Databases -> [slave : 0 .. MaxTime, master : 0 .. MaxTime]]
        /\ seen \in [changed : SUBSET Databases, compared : SUBSET Databases]
        /\ MaxTime \in Nat
    BY VerdictsAssumption DEF Ldap!IInv
  <1>2. /\ todo' = todo /\ given' = given /\ status' = status /\ pc' = pc /\ code' = code
        /\ seen' = [seen EXCEPT !.changed = @ \cup {d}]
    BY DEF Ldap!Change, Ldap!Replicate
  <1>3. seen' \in [changed : SUBSET Databases, compared : SUBSET Databases] /\ seen'.changed # {}
    BY <1>1, <1>2
  <1>4. csn' \in [Databases -> [slave : 0 .. MaxTime, master : 0 .. MaxTime]]
    <2>1. CASE Ldap!Change(d)
      <3>1. PICK t \in csn[d].master + 1 .. MaxTime : csn' = [csn EXCEPT ![d].master = t]
        BY <2>1 DEF Ldap!Change
      <3>2. t \in 0 .. MaxTime
        BY <1>1, <3>1
      <3> QED
        BY <1>1, <3>1, <3>2
    <2>2. CASE Ldap!Replicate(d)
      BY <1>1, <2>2 DEF Ldap!Replicate
    <2> QED
      BY <2>1, <2>2
  <1> QED
    BY <1>2, <1>3, <1>4 DEF Ldap!IInv

LEMMA LdapStep ==
    ASSUME Ldap!IInv, [Ldap!Next]_(Ldap!vars)
    PROVE  Ldap!IInv'
  <1>1. /\ csn \in [Databases -> [slave : 0 .. MaxTime, master : 0 .. MaxTime]]
        /\ seen \in [changed : SUBSET Databases, compared : SUBSET Databases]
        /\ todo \in Seq(Databases)
        /\ pc \in {"master", "compare"} => todo # <<>> /\ given \in 0 .. MaxTime
        /\ seen.changed = {} => /\ status = {}
                                /\ pc \in {"master", "compare"} => given = csn[Head(todo)].slave
                                /\ pc = "exited" => code = 0
    BY DEF Ldap!IInv, Ldap!STATE_OK
  <1>2. CASE \E d \in Databases : Ldap!Change(d) \/ Ldap!Replicate(d)
    BY <1>2, LdapServers
  <1>3. CASE Ldap!Search
    <2>1. todo' \in Seq(Databases)
      BY <1>3, DatabasesAreSeq DEF Ldap!Search
    <2> QED
      BY <1>1, <1>3, <2>1 DEF Ldap!Search, Ldap!IInv
  <1>4. CASE Ldap!ReadLocal
    <2>1. Head(todo) \in Databases
      BY <1>1, <1>4, TailFacts DEF Ldap!ReadLocal
    <2>2. csn[Head(todo)].slave \in 0 .. MaxTime
      BY <1>1, <2>1
    <2> QED
      BY <1>1, <1>4, <2>2 DEF Ldap!ReadLocal, Ldap!IInv
  <1>5. CASE Ldap!ConnectMaster
    BY <1>1, <1>5 DEF Ldap!ConnectMaster, Ldap!IInv
  <1>6. CASE Ldap!Compare
    <2>1. /\ todo # <<>> /\ pc' = "run" /\ todo' = Tail(todo) /\ csn' = csn
          /\ status' = status \cup Ldap!get_status(Ldap!lag)
          /\ seen' = [seen EXCEPT !.compared = @ \cup {Head(todo)}]
          /\ given \in 0 .. MaxTime
      BY <1>1, <1>6 DEF Ldap!Compare
    <2>2. Head(todo) \in Databases /\ Tail(todo) \in Seq(Databases)
      BY <1>1, <2>1, TailFacts
    <2>3. seen' \in [changed : SUBSET Databases, compared : SUBSET Databases] /\ seen'.changed = seen.changed
      BY <1>1, <2>1, <2>2
    <2>4. seen.changed = {} => Ldap!get_status(Ldap!lag) = {}
      <3>1. ASSUME seen.changed = {}
            PROVE  Ldap!lag = 0
        <4>1. given = csn[Head(todo)].slave
          BY <1>1, <1>6, <3>1 DEF Ldap!Compare
        <4> QED
          BY <2>1, <4>1 DEF Ldap!lag, Ldap!remote_time
      <3>2. LagWarn \in Nat /\ LagCrit \in Nat
        BY VerdictsAssumption
      <3>3. Ldap!get_status(0) = {}
        BY <3>2 DEF Ldap!get_status
      <3> QED
        BY <3>1, <3>3
    <2> QED
      BY <1>1, <2>1, <2>2, <2>3, <2>4 DEF Ldap!IInv
  <1>7. CASE Ldap!Report
    BY <1>1, <1>7 DEF Ldap!Report, Ldap!Leave, Ldap!IInv, Ldap!STATE_OK
  <1>8. CASE Ldap!Fails \/ Ldap!Crash \/ Ldap!Alarm
    BY <1>1, <1>8 DEF Ldap!Fails, Ldap!Crash, Ldap!Alarm, Ldap!Leave, Ldap!IInv
  <1>9. CASE UNCHANGED Ldap!vars
    BY <1>1, <1>9 DEF Ldap!vars, Ldap!IInv, Ldap!STATE_OK
  <1> QED
    BY <1>2, <1>3, <1>4, <1>5, <1>6, <1>7, <1>8, <1>9 DEF Ldap!Next, Ldap!Terminated

-----------------------------------------------------------------------------
(* check_fcgi_phpfpm and check_fcgi_ping                                    *)

(* mp_fcgi_putkv: what is written as one or four bytes is read as it was. *)
LEMMA LengthIsRead ==
    ASSUME NEW n \in Nat, n <= 2147483647
    PROVE  Fcgi!LengthOf(Fcgi!LengthBytes(n)) = n
  <1>1. CASE n < 128
    BY <1>1, SMT DEF Fcgi!LengthOf, Fcgi!LengthBytes
  <1>2. CASE ~ (n < 128)
    <2>1. PICK b : b = Fcgi!LengthBytes(n)
      BY SMT
    <2>2. /\ b[1] = ((n \div 16777216) % 128) + 128 /\ b[2] = (n \div 65536) % 256
          /\ b[3] = (n \div 256) % 256 /\ b[4] = n % 256
      BY <1>2, <2>1, SMT DEF Fcgi!LengthBytes
    <2>3. /\ n \div 256 \in Nat /\ n \div 65536 \in Nat /\ n \div 16777216 \in Nat
          /\ n = 256 * (n \div 256) + (n % 256)
          /\ n \div 65536 = (n \div 256) \div 256 /\ n \div 16777216 = (n \div 65536) \div 256
          /\ n \div 16777216 < 128
      <3>1. n \div 256 \in Nat /\ n \div 65536 \in Nat /\ n \div 16777216 \in Nat
        BY SMT
      <3>2. n = 256 * (n \div 256) + (n % 256)
        BY SMT
      <3>3. n \div 65536 = (n \div 256) \div 256
        BY SMT
      <3>4. n \div 16777216 = (n \div 65536) \div 256
        BY SMT
      <3>5. n \div 16777216 < 128
        BY SMT
      <3> QED
        BY <3>1, <3>2, <3>3, <3>4, <3>5, SMT
    <2>4. PICK a, c, d : a = n \div 256 /\ c = n \div 65536 /\ d = n \div 16777216
      BY SMT
    <2>5. a = 256 * c + (a % 256) /\ c = 256 * d + (c % 256) /\ d % 128 = d
      BY <2>3, <2>4, SMT
    <2>6. n = d * 16777216 + (c % 256) * 65536 + (a % 256) * 256 + (n % 256)
      BY <2>3, <2>4, <2>5, SMT
    <2>7. ~ (b[1] < 128) /\ b[1] - 128 = d
      BY <2>2, <2>3, <2>4, <2>5, SMT
    <2>8. Fcgi!LengthOf(b) = (b[1] - 128) * 16777216 + b[2] * 65536 + b[3] * 256 + b[4]
      BY <2>7, SMT DEF Fcgi!LengthOf
    <2> QED
      BY <2>1, <2>2, <2>4, <2>6, <2>7, <2>8, SMT
  <1> QED
    BY <1>1, <1>2, SMT

LEMMA FourOf ==
    ASSUME NEW T, NEW a \in T, NEW b \in T, NEW c \in T, NEW d \in T
    PROVE  /\ <<a, b, c, d>> \in Seq(T) /\ Len(<<a, b, c, d>>) = 4
           /\ <<b, c, d>> # <<>> /\ Len(<<b, c, d>>) = 3
  OBVIOUS

(* The length of a piece, and where its elements come from. *)
LEMMA PieceFacts ==
    ASSUME NEW T, NEW s \in Seq(T), NEW x \in 1 .. Len(s), NEW y \in 0 .. Len(s)
    PROVE  /\ SubSeq(s, x, y) \in Seq(T)
           /\ Len(SubSeq(s, x, y)) = IF x <= y THEN y - x + 1 ELSE 0
           /\ \A i \in 1 .. y - x + 1 : SubSeq(s, x, y)[i] = s[x + i - 1]
  <1>1. Len(s) \in Nat
    BY LenProperties
  <1>2. \A i \in x .. y : i \in 1 .. Len(s)
    BY <1>1
  <1>3. \A i \in x .. y : s[i] \in T
    BY <1>2, ElementOfSeq
  <1>4. x \in Int /\ y \in Int
    BY <1>1
  <1> QED
    BY <1>3, <1>4, SubSeqProperties

LEMMA PieceBounds ==
    ASSUME NEW x \in 1 .. 4, NEW y \in 0 .. 4, NEW n, n = IF x <= y THEN y - x + 1 ELSE 0,
           NEW k \in 1 .. n, k > 1, 3 = IF k <= n THEN n - k + 1 ELSE 0
    PROVE  x = 1 /\ y = 4
  OBVIOUS

LEMMA WholePiece ==
    ASSUME NEW T, NEW e \in Seq(T), Len(e) = 4, NEW d \in Seq(T), NEW x \in 1 .. 4, NEW y \in 0 .. 4,
           Len(d) = IF x <= y THEN y - x + 1 ELSE 0,
           \A i \in 1 .. y - x + 1 : d[i] = e[x + i - 1],
           \E k \in 1 .. Len(d) : k > 1 /\ 3 = IF k <= Len(d) THEN Len(d) - k + 1 ELSE 0
    PROVE  d = e
  <1>1. x = 1 /\ y = 4
    BY PieceBounds
  <1>2. Len(d) = 4 /\ \A i \in 1 .. 4 : d[i] = e[i]
    BY <1>1
  <1> QED
    BY <1>2, SeqEqual

(* What is left of a sequence behind a place other than the first one. *)
LEMMA HeadersEnd ==
    ASSUME NEW T, NEW d \in Seq(T), Fcgi!AfterHeaders(d) # <<>>
    PROVE  \E k \in 1 .. Len(d) : /\ k > 1
                                  /\ Len(Fcgi!AfterHeaders(d)) = IF k <= Len(d) THEN Len(d) - k + 1 ELSE 0
  <1> DEFINE S == {k \in DOMAIN d : d[k] = "separator" /\ k > 1}
  <1>1. S # {}
    BY DEF Fcgi!AfterHeaders
  <1>2. PICK k \in S : Fcgi!AfterHeaders(d) = SubSeq(d, k, Len(d))
    BY <1>1 DEF Fcgi!AfterHeaders
  <1>3. Len(d) \in Nat /\ DOMAIN d = 1 .. Len(d)
    BY LenProperties
  <1>4. k \in 1 .. Len(d) /\ k > 1 /\ Len(d) \in 0 .. Len(d)
    BY <1>2, <1>3
  <1>5. Len(SubSeq(d, k, Len(d))) = IF k <= Len(d) THEN Len(d) - k + 1 ELSE 0
    BY <1>4, PieceFacts
  <1> QED
    BY <1>2, <1>4, <1>5

LEMMA NothingAfter == Fcgi!AfterHeaders(<<>>) = <<>>
  <1>1. {k \in DOMAIN <<>> : <<>>[k] = "separator" /\ k > 1} = {}
    OBVIOUS
  <1> QED
    BY <1>1 DEF Fcgi!AfterHeaders

(* A piece of the document that holds all that follows the headers is the whole
   document. *)
LEMMA WholeDocument ==
    ASSUME NEW x \in 1 .. 4, NEW y \in 0 .. 4, NEW data, data = SubSeq(Fcgi!Document, x, y),
           NEW rest, rest = <<"separator", "json", "rest of json">>, Fcgi!AfterHeaders(data) = rest
    PROVE  data = Fcgi!Document
  <1> DEFINE T == {"headers", "separator", "json", "rest of json"}
  <1>1. "headers" \in T /\ "separator" \in T /\ "json" \in T /\ "rest of json" \in T
    OBVIOUS
  <1>3. PICK doc : doc = Fcgi!Document
    OBVIOUS
  <1>4. doc = <<"headers", "separator", "json", "rest of json">>
    BY <1>3 DEF Fcgi!Document
  <1> HIDE DEF T
  <1>5. doc \in Seq(T) /\ Len(doc) = 4 /\ rest # <<>> /\ Len(rest) = 3
    BY <1>1, <1>4, FourOf
  <1>6. /\ data \in Seq(T) /\ Len(data) = IF x <= y THEN y - x + 1 ELSE 0
        /\ \A i \in 1 .. y - x + 1 : data[i] = doc[x + i - 1]
    <2>1. x \in 1 .. Len(doc) /\ y \in 0 .. Len(doc)
      BY <1>5
    <2> QED
      BY <1>3, <1>5, <2>1, PieceFacts, Zenon
  <1>7. \E k \in 1 .. Len(data) : k > 1 /\ Len(rest) = IF k <= Len(data) THEN Len(data) - k + 1 ELSE 0
    BY <1>5, <1>6, HeadersEnd, Zenon
  <1>8. \E k \in 1 .. Len(data) : k > 1 /\ 3 = IF k <= Len(data) THEN Len(data) - k + 1 ELSE 0
    BY <1>5, <1>7
  <1>9. data = doc
    BY <1>5, <1>6, <1>8, WholePiece
  <1> QED
    BY <1>3, <1>9

LEMMA FcgiLengthsAreRead == \A n \in FcgiLengths : Fcgi!LengthOf(Fcgi!LengthBytes(n)) = n
  BY VerdictsAssumption, LengthIsRead, SMT DEF Fcgi!LegalLength

LEMMA FcgiRecords ==
    ASSUME given \in FcgiAnswers
    PROVE  /\ given.records \in Seq([type : STRING, content : Seq(STRING)])
           /\ Len(given.records) \in Nat /\ DOMAIN given.records = 1 .. Len(given.records)
           /\ \A k \in 1 .. Len(given.records) : given.records[k].type = "STDOUT" =>
                 \E x \in 1 .. 4, y \in 0 .. 4 : given.records[k].content = SubSeq(Fcgi!Document, x, y)
  <1>1. Fcgi!Legal(given)
    BY VerdictsAssumption
  <1>2. given.records \in Seq([type : STRING, content : Seq(STRING)])
    BY <1>1 DEF Fcgi!Legal
  <1>3. Len(given.records) \in Nat /\ DOMAIN given.records = 1 .. Len(given.records)
    BY <1>2, LenProperties
  <1> QED
    BY <1>1, <1>2, <1>3 DEF Fcgi!Legal

LEMMA FcgiInit ==
    ASSUME Fcgi!Init
    PROVE  Fcgi!IInv
  <1>1. given \in FcgiAnswers /\ todo = given.records /\ seen = <<>> /\ status = "NULL" /\ pc = "start"
    BY DEF Fcgi!Init
  <1>2. Fcgi!ReadSoFar = 0
    BY <1>1, FcgiRecords DEF Fcgi!ReadSoFar
  <1> QED
    BY <1>1, <1>2, FcgiRecords, FcgiLengthsAreRead DEF Fcgi!IInv, Fcgi!AnswerIsWhole

(* The loop that reads the records. *)
LEMMA FcgiRead ==
    ASSUME Fcgi!IInv, Fcgi!mp_fcgi_read
    PROVE  Fcgi!IInv'
  <1>1. PICK n, m, R, recs : /\ n = Len(todo) /\ m = Fcgi!ReadSoFar /\ recs = given.records
                             /\ R = [type : STRING, content : Seq(STRING)]
    OBVIOUS
  <1>2. /\ given \in FcgiAnswers /\ given' = given /\ todo \in Seq(R) /\ todo # <<>> /\ todo' = Tail(todo)
        /\ n <= Len(recs) /\ (\A k \in 1 .. n : todo[k] = recs[m + k]) /\ pc = "read" /\ m = Len(recs) - n
    BY <1>1 DEF Fcgi!IInv, Fcgi!mp_fcgi_read, Fcgi!ReadSoFar
  <1>3. Len(recs) \in Nat /\ recs \in Seq(R)
    BY <1>1, <1>2, FcgiRecords
  <1>4. /\ Head(todo) = todo[1] /\ Tail(todo) \in Seq(R) /\ n \in Nat /\ n # 0
        /\ Len(Tail(todo)) = n - 1 /\ \A i \in 1 .. n - 1 : Tail(todo)[i] = todo[i + 1]
    BY <1>1, <1>2, TailFacts
  <1>5. m \in Nat /\ m + 1 \in 1 .. Len(recs) /\ Head(todo) = recs[m + 1]
    BY <1>2, <1>3, <1>4
  <1>6. Fcgi!ReadSoFar' = m + 1 /\ Len(todo') = n - 1
    BY <1>1, <1>2, <1>3, <1>4 DEF Fcgi!ReadSoFar
  <1>7. /\ Len(todo') <= Len(given'.records) /\ todo' \in Seq(R)
        /\ \A k \in 1 .. Len(todo') : todo'[k] = recs[m + 1 + k]
    BY <1>1, <1>2, <1>3, <1>4, <1>5, <1>6
  <1>8. /\ seen = <<>> \/ \E k \in 1 .. m : Fcgi!IsLastStdout(k) /\ recs[k].content = seen
        /\ status = "NULL" \/ (status = "freed" /\ m >= 1 /\ recs[m].content # <<>>)
    BY <1>1, <1>2 DEF Fcgi!IInv
  <1>9. ASSUME NEW k \in 1 .. m, Fcgi!IsLastStdout(k), recs[m + 1].type # "STDOUT"
        PROVE  k \in 1 .. m + 1 /\ Fcgi!IsLastStdout(k)'
    <2>1. k \in 1 .. m + 1
      BY <1>5, <1>9
    <2>2. recs[k].type = "STDOUT" /\ \A j \in k + 1 .. m : recs[j].type # "STDOUT"
      BY <1>1, <1>9 DEF Fcgi!IsLastStdout
    <2>3. \A j \in k + 1 .. m + 1 : j \in k + 1 .. m \/ j = m + 1
      BY <1>5, <1>9
    <2> QED
      BY <1>1, <1>2, <1>6, <1>9, <2>1, <2>2, <2>3 DEF Fcgi!IsLastStdout
  <1>10. ASSUME recs[m + 1].type = "STDOUT"
         PROVE  m + 1 \in 1 .. m + 1 /\ Fcgi!IsLastStdout(m + 1)'
    <2>1. m + 1 \in 1 .. m + 1 /\ (m + 1) + 1 .. m + 1 = {}
      BY <1>5
    <2> QED
      BY <1>1, <1>2, <1>6, <1>10, <2>1 DEF Fcgi!IsLastStdout
  <1>11. Fcgi!phpfpm' = Fcgi!phpfpm /\ Fcgi!Ends' = Fcgi!Ends
    BY <1>2 DEF Fcgi!phpfpm, Fcgi!Ends
  <1>12. /\ given' \in FcgiAnswers /\ Len(todo') <= Len(given'.records)
         /\ todo' \in Seq([type : STRING, content : Seq(STRING)])
         /\ \A k \in 1 .. Len(todo') : todo'[k] = given'.records[Fcgi!ReadSoFar' + k]
    BY <1>1, <1>2, <1>6, <1>7
  <1>13. CASE pc' = "failed"
    <2>1. Fcgi!phpfpm => status' = "NULL"
      <3>1. Fcgi!phpfpm => status = "NULL"
        BY DEF Fcgi!IInv
      <3> QED
        BY <1>13, <3>1 DEF Fcgi!mp_fcgi_read, Fcgi!Leave, Fcgi!Goto, Fcgi!Crash
    <2>3. ~Fcgi!phpfpm => seen' = <<>>
      <3>1. ~Fcgi!phpfpm => seen = <<>>
        BY DEF Fcgi!IInv
      <3> QED
        BY <3>1 DEF Fcgi!mp_fcgi_read
    <2>2. Fcgi!AnswerIsWhole'
      BY <1>13, FcgiLengthsAreRead DEF Fcgi!AnswerIsWhole
    <2> QED
      BY <1>11, <1>12, <1>13, <2>1, <2>2, <2>3 DEF Fcgi!IInv
  <1>14. CASE /\ Fcgi!phpfpm /\ status' = status
              /\ seen' = IF recs[m + 1].type = "STDOUT" THEN recs[m + 1].content ELSE seen
              /\ pc' = IF recs[m + 1].type = Fcgi!Ends THEN "parse" ELSE "read"
    <2>1. status = "NULL" /\ pc' \in {"parse", "read"}
      BY <1>14 DEF Fcgi!IInv
    <2>2. seen' = <<>> \/ \E k \in 1 .. m + 1 : Fcgi!IsLastStdout(k)' /\ recs[k].content = seen'
      BY <1>8, <1>9, <1>10, <1>14
    <2>3. pc' = "parse" => recs[m + 1].type = Fcgi!Ends
      BY <1>14
    <2>4. Fcgi!AnswerIsWhole'
      BY <2>1, FcgiLengthsAreRead DEF Fcgi!AnswerIsWhole
    <2> QED
      BY <1>1, <1>2, <1>6, <1>11, <1>12, <1>14, <2>1, <2>2, <2>3, <2>4 DEF Fcgi!IInv
  <1>15. ASSUME NEW content, ~Fcgi!phpfpm, content = IF recs[m + 1].content # <<>> THEN "live" ELSE status,
                pc' = IF content = "freed" THEN "crashed" ELSE IF recs[m + 1].type = Fcgi!Ends THEN "exited" ELSE "read",
                status' = IF content = "NULL" THEN "NULL" ELSE "freed", seen' = seen
         PROVE  Fcgi!IInv'
    <2>1. CASE content = "freed"
      <3>1. recs[m + 1].content = <<>> /\ m >= 1 /\ recs[m].content # <<>>
        BY <1>8, <1>15, <2>1
      <3>2. m \in 1 .. (m + 1) - 1 /\ given'.records = recs
        BY <1>1, <1>2, <1>5, <3>1
      <3>3. Fcgi!AnswerIsWhole'
        BY <1>6, <1>15, <2>1, <3>1, <3>2, FcgiLengthsAreRead DEF Fcgi!AnswerIsWhole
      <3> QED
        BY <1>11, <1>12, <1>15, <2>1, <3>3 DEF Fcgi!IInv
    <2>2. CASE content # "freed" /\ recs[m + 1].type = Fcgi!Ends
      <3>1. given'.records = recs /\ pc' = "exited"
        BY <1>1, <1>2, <1>15, <2>2
      <3>2. Fcgi!AnswerIsWhole'
        BY <1>6, <1>11, <1>15, <2>2, <3>1, FcgiLengthsAreRead DEF Fcgi!AnswerIsWhole
      <3> QED
        BY <1>11, <1>12, <1>15, <3>1, <3>2 DEF Fcgi!IInv
    <2>3. CASE content # "freed" /\ recs[m + 1].type # Fcgi!Ends
      <3>1. given'.records = recs /\ pc' = "read" /\ seen' = seen
        BY <1>1, <1>2, <1>15, <2>3
      <3>2. status' = "NULL" \/ (status' = "freed" /\ m + 1 >= 1 /\ recs[m + 1].content # <<>>)
        BY <1>5, <1>8, <1>15, <2>3
      <3>3. Fcgi!AnswerIsWhole'
        BY <3>1, FcgiLengthsAreRead DEF Fcgi!AnswerIsWhole
      <3>4. seen = <<>>
        BY <1>15 DEF Fcgi!IInv
      <3> QED
        BY <1>6, <1>11, <1>12, <1>15, <3>1, <3>2, <3>3, <3>4 DEF Fcgi!IInv
    <2> QED
      BY <2>1, <2>2, <2>3
  <1> QED
    BY <1>1, <1>2, <1>5, <1>13, <1>14, <1>15 DEF Fcgi!mp_fcgi_read, Fcgi!Leave, Fcgi!Goto, Fcgi!Crash

LEMMA FcgiStep ==
    ASSUME Fcgi!IInv, [Fcgi!Next]_(Fcgi!vars)
    PROVE  Fcgi!IInv'
  <1>1. CASE Fcgi!mp_fcgi_read
    BY <1>1, FcgiRead
  <1> SUFFICES ASSUME ~Fcgi!mp_fcgi_read
               PROVE  Fcgi!IInv'
    BY <1>1
  <1>2. given' = given /\ todo' = todo /\ seen' = seen /\ status' = status
    BY DEF Fcgi!Next, Fcgi!vars, Fcgi!process_arguments, Fcgi!Send, Fcgi!Parse, Fcgi!Alarm, Fcgi!Terminated
  <1>3. /\ Fcgi!ReadSoFar' = Fcgi!ReadSoFar /\ Fcgi!phpfpm' = Fcgi!phpfpm /\ Fcgi!Ends' = Fcgi!Ends
        /\ \A k : Fcgi!IsLastStdout(k)' <=> Fcgi!IsLastStdout(k)
    BY <1>2 DEF Fcgi!ReadSoFar, Fcgi!phpfpm, Fcgi!Ends, Fcgi!IsLastStdout
  <1>4. CASE Fcgi!process_arguments \/ Fcgi!Send
    <2>1. /\ pc \in {"start", "send"} /\ pc' \in {"usage", "failed", "send", "read"} /\ (pc' = "send" => pc = "start")
      BY <1>4 DEF Fcgi!process_arguments, Fcgi!Send, Fcgi!Leave, Fcgi!Goto
    <2>2. Fcgi!AnswerIsWhole'
      BY <2>1, FcgiLengthsAreRead DEF Fcgi!AnswerIsWhole
    <2> QED
      BY <1>2, <1>3, <2>1, <2>2 DEF Fcgi!IInv
  <1>5. CASE Fcgi!Parse
    <2>1. Fcgi!phpfpm /\ given.records[Fcgi!ReadSoFar].type = Fcgi!Ends /\ given \in FcgiAnswers /\ pc = "parse"
          /\ (seen = <<>> \/ \E k \in 1 .. Fcgi!ReadSoFar : Fcgi!IsLastStdout(k) /\ given.records[k].content = seen)
      BY <1>5 DEF Fcgi!IInv, Fcgi!Parse
    <2>2. pc' \in {"crashed", "failed", "exited"}
      BY <1>5 DEF Fcgi!Parse, Fcgi!Leave, Fcgi!Crash
    <2>3. ASSUME pc' = "exited"
          PROVE  \E k \in 1 .. Fcgi!ReadSoFar : Fcgi!IsLastStdout(k) /\ given.records[k].content = Fcgi!Document
      <3>1. Fcgi!AfterHeaders(seen) = <<"separator", "json", "rest of json">> /\ Fcgi!AfterHeaders(seen) # <<>>
        BY <1>5, <2>3 DEF Fcgi!Parse, Fcgi!Leave, Fcgi!Crash
      <3>2. seen # <<>>
        BY <3>1, NothingAfter, Zenon
      <3>3. PICK k \in 1 .. Fcgi!ReadSoFar : Fcgi!IsLastStdout(k) /\ given.records[k].content = seen
        BY <2>1, <3>2
      <3>4. k \in 1 .. Len(given.records) /\ given.records[k].type = "STDOUT"
        <4>1. Len(todo) \in Nat /\ Len(given.records) \in Nat /\ Len(todo) <= Len(given.records)
          BY <2>1, FcgiRecords, LenProperties DEF Fcgi!IInv
        <4>2. k \in 1 .. Len(given.records) - Len(todo)
          BY <3>3 DEF Fcgi!ReadSoFar
        <4> QED
          BY <3>3, <4>1, <4>2 DEF Fcgi!IsLastStdout
      <3>5. PICK x \in 1 .. 4, y \in 0 .. 4 : seen = SubSeq(Fcgi!Document, x, y)
        BY <2>1, <3>3, <3>4, FcgiRecords
      <3>6. seen = Fcgi!Document
        <4>1. PICK rest, data : /\ rest = <<"separator", "json", "rest of json">> /\ data = seen
                                /\ Fcgi!AfterHeaders(data) = rest
          BY <3>1, Zenon
        <4>2. data = SubSeq(Fcgi!Document, x, y)
          BY <3>5, <4>1
        <4>3. data = Fcgi!Document
          BY <4>1, <4>2, WholeDocument
        <4> QED
          BY <4>1, <4>3
      <3> QED
        BY <3>3, <3>6
    <2>4. Fcgi!AnswerIsWhole'
      BY <1>2, <1>3, <2>1, <2>2, <2>3, FcgiLengthsAreRead DEF Fcgi!AnswerIsWhole, Fcgi!Document
    <2> QED
      BY <1>2, <1>3, <2>2, <2>4 DEF Fcgi!IInv
  <1>6. CASE Fcgi!Alarm
    <2>1. pc' = "alarmed"
      BY <1>6 DEF Fcgi!Alarm, Fcgi!Leave
    <2>2. Fcgi!AnswerIsWhole'
      BY <2>1, FcgiLengthsAreRead DEF Fcgi!AnswerIsWhole
    <2> QED
      BY <1>2, <1>3, <2>1, <2>2 DEF Fcgi!IInv
  <1>7. CASE pc' = pc
    <2>1. Fcgi!AnswerIsWhole'
      <3>1. Fcgi!AnswerIsWhole
        BY DEF Fcgi!IInv
      <3> QED
        BY <1>2, <1>3, <1>7, <3>1, FcgiLengthsAreRead DEF Fcgi!AnswerIsWhole, Fcgi!Document
    <2> QED
      BY <1>2, <1>3, <1>7, <2>1 DEF Fcgi!IInv
  <1> QED
    BY <1>4, <1>5, <1>6, <1>7 DEF Fcgi!Next, Fcgi!vars, Fcgi!Terminated

-----------------------------------------------------------------------------
(* check_ssl_cert and check_x509_cert                                       *)

LEMMA CertStatus ==
    ASSUME NEW v, NEW t
    PROVE  Certs!get_status(v, t) \in {0, 1, 2}
  BY DEF Certs!get_status, Certs!STATE_OK, Certs!STATE_WARNING, Certs!STATE_CRITICAL

(* A file makes the status worse or leaves it as it is. *)
LEMMA JudgedFacts ==
    ASSUME NEW f, NEW before \in {0, 1, 2}
    PROVE  /\ Certs!Judged(f, before) \in {0, 1, 2}
           /\ before <= Certs!Judged(f, before)
           /\ Certs!Judged(f, 0) \in {0, 1, 2}
           /\ Certs!Judged(f, 0) <= Certs!Judged(f, before)
           /\ Certs!Judged(f, before) = before \/ Certs!Judged(f, before) = Certs!Judged(f, 0)
           /\ ~f.readable => Certs!Judged(f, 0) = 2
  <1>1. PICK g : g = Certs!get_status(f.expire, given.limits)
    OBVIOUS
  <1>2. g \in {0, 1, 2}
    BY <1>1, CertStatus
  <1>3. PICK a : a = IF f.active THEN 0 ELSE 2
    OBVIOUS
  <1>4. \A b : Certs!Judged(f, b) = IF ~f.readable THEN 2 ELSE Certs!Worse(Certs!Worse(b, g), a)
    BY <1>1, <1>3 DEF Certs!Judged, Certs!STATE_OK, Certs!STATE_CRITICAL
  <1>5. a \in {0, 2}
    BY <1>3
  <1> QED
    BY <1>2, <1>4, <1>5 DEF Certs!Worse

LEMMA CertFiles ==
    ASSUME given \in CertWorlds
    PROVE  /\ Certs!Files \in Seq(Certs!ToSet(Certs!Files))
           /\ Len(Certs!Files) \in Nat /\ DOMAIN Certs!Files = 1 .. Len(Certs!Files)
           /\ given.plugin \in {"check_ssl_cert", "check_x509_cert"}
           /\ given.plugin = "check_ssl_cert" => Certs!Files \in Seq({"trusts", "trusts not"}) /\ given.cert.expire \in Int
           /\ given.plugin = "check_x509_cert" =>
                 Certs!Files \in Seq([readable : BOOLEAN, expire : Int, active : BOOLEAN])
           /\ given.limits.warn.n \in Int /\ given.limits.crit.n \in Int
  <1>1. Certs!Legal(given)
    BY VerdictsAssumption
  <1>2. PICK f : f = Certs!Files
    OBVIOUS
  <1>3. /\ given.plugin \in {"check_ssl_cert", "check_x509_cert"}
        /\ given.plugin = "check_ssl_cert" => f \in Seq({"trusts", "trusts not"}) /\ given.cert.expire \in Int
        /\ given.plugin = "check_x509_cert" => f \in Seq([readable : BOOLEAN, expire : Int, active : BOOLEAN])
        /\ given.limits.warn.n \in Int /\ given.limits.crit.n \in Int
    BY <1>1, <1>2 DEF Certs!Legal, Certs!Files
  <1>4. Len(f) \in Nat /\ DOMAIN f = 1 .. Len(f) /\ f = [k \in DOMAIN f |-> f[k]]
    <2>1. CASE given.plugin = "check_ssl_cert"
      BY <1>3, <2>1, LenProperties
    <2>2. CASE given.plugin = "check_x509_cert"
      BY <1>3, <2>2, LenProperties
    <2> QED
      BY <1>3, <2>1, <2>2
  <1>5. f \in [1 .. Len(f) -> Certs!ToSet(f)]
    BY <1>4 DEF Certs!ToSet
  <1>6. f \in Seq(Certs!ToSet(f))
    BY <1>4, <1>5, FcnIsSeq
  <1> QED
    BY <1>2, <1>3, <1>4, <1>6

LEMMA CertsInit ==
    ASSUME Certs!Init
    PROVE  Certs!IInv
  <1>1. /\ given \in CertWorlds /\ seen = <<>> /\ status = 0 /\ pc = "start"
        /\ seen \in Seq(Certs!Line)
    BY DEF Certs!Init, Certs!STATE_OK
  <1> QED
    BY <1>1 DEF Certs!IInv, Certs!DialogueIsKept, Certs!TlsIsAgreed, Certs!STATE_OK

(* One more file is looked at. *)
LEMMA CertsLoop ==
    ASSUME Certs!IInv, Certs!TrustFile \/ Certs!CertFile
    PROVE  Certs!IInv'
  <1>1. PICK n, m, F, S : n = Len(todo) /\ m = Certs!Done /\ F = Certs!Files /\ S = Certs!ToSet(F)
    OBVIOUS
  <1>2. /\ given \in CertWorlds /\ given' = given /\ pc = "judge" /\ todo # <<>> /\ todo' = Tail(todo) /\ seen' = seen
        /\ todo \in Seq(S) /\ n <= Len(F) /\ (\A k \in 1 .. n : todo[k] = F[m + k]) /\ m = Len(F) - n
        /\ Certs!StatusIsWorst /\ status \in {0, 1, 2} /\ seen \in Seq(Certs!Line)
        /\ Certs!TlsIsAgreed /\ Certs!DialogueIsKept
    BY <1>1 DEF Certs!IInv, Certs!TrustFile, Certs!CertFile, Certs!Done, Certs!STATE_OK, Certs!STATE_WARNING,
                Certs!STATE_CRITICAL
  <1>3. Len(F) \in Nat /\ F \in Seq(S)
    BY <1>1, <1>2, CertFiles
  <1>4. /\ Head(todo) = todo[1] /\ Tail(todo) \in Seq(S) /\ n \in Nat /\ n # 0
        /\ Len(Tail(todo)) = n - 1 /\ \A i \in 1 .. n - 1 : Tail(todo)[i] = todo[i + 1]
    BY <1>1, <1>2, TailFacts
  <1>5. m \in Nat /\ m + 1 \in 1 .. Len(F) /\ Head(todo) = F[m + 1]
    BY <1>2, <1>3, <1>4
  <1>6. Certs!Files' = F /\ Certs!Done' = m + 1 /\ Len(todo') = n - 1 /\ Certs!ToSet(F) = S
    <2>1. Certs!Files' = F
      BY <1>1, <1>2 DEF Certs!Files
    <2>2. Certs!Done' = Len(F) - Len(todo')
      BY <2>1 DEF Certs!Done
    <2> QED
      BY <1>1, <1>2, <1>3, <1>4, <2>1, <2>2
  <1>7. /\ todo' \in Seq(S) /\ Len(todo') <= Len(F)
        /\ \A k \in 1 .. Len(todo') : todo'[k] = F[m + 1 + k]
    BY <1>2, <1>3, <1>4, <1>5, <1>6
  <1>8. \A k \in 1 .. m + 1 : k \in 1 .. m \/ k = m + 1
    BY <1>5
  <1>9. m + 1 \in 1 .. m + 1 /\ \A k \in 1 .. m : k \in 1 .. m + 1
    BY <1>5
  <1>10. CASE pc' = "failed" /\ status' = status
    BY <1>2, <1>10 DEF Certs!IInv, Certs!DialogueIsKept, Certs!TlsIsAgreed, Certs!STATE_OK, Certs!STATE_WARNING,
                       Certs!STATE_CRITICAL
  <1>11. ASSUME pc' = pc, status' \in {0, 1, 2}, Certs!StatusIsWorst'
         PROVE  Certs!IInv'
    <2>1. Certs!TlsIsAgreed' /\ Certs!DialogueIsKept'
      BY <1>2, <1>11 DEF Certs!TlsIsAgreed, Certs!DialogueIsKept
    <2> QED
      BY <1>2, <1>6, <1>7, <1>11, <2>1 DEF Certs!IInv, Certs!STATE_OK, Certs!STATE_WARNING, Certs!STATE_CRITICAL
  <1>12. CASE Certs!TrustFile /\ pc' # "failed"
    <2>1. /\ pc' = pc /\ given.plugin = "check_ssl_cert"
          /\ status' = IF F[m + 1] = "trusts" THEN status ELSE 2
      BY <1>5, <1>12 DEF Certs!TrustFile, Certs!Leave, Certs!STATE_CRITICAL
    <2>2. F[m + 1] \in {"trusts", "trusts not"}
      BY <1>1, <1>2, <1>5, <2>1, CertFiles, ElementOfSeq
    <2> DEFINE Base == IF given.cert.expire < 0 \/ ~given.cert.active THEN 2
                       ELSE Certs!get_status(given.cert.expire, given.limits)
    <2>3. status = IF \E k \in 1 .. m : F[k] = "trusts not" THEN 2 ELSE Base
      BY <1>1, <1>2, <2>1 DEF Certs!StatusIsWorst, Certs!STATE_CRITICAL
    <2>4. Certs!StatusIsWorst' <=> status' = IF \E k \in 1 .. m + 1 : F[k] = "trusts not" THEN 2 ELSE Base
      BY <1>2, <1>6, <2>1 DEF Certs!StatusIsWorst, Certs!STATE_CRITICAL, Certs!get_status, Certs!check_range,
                              Certs!STATE_OK, Certs!STATE_WARNING
    <2> HIDE DEF Base
    <2>5. status' = IF \E k \in 1 .. m + 1 : F[k] = "trusts not" THEN 2 ELSE Base
      <3>1. CASE F[m + 1] = "trusts"
        <4>1. (\E k \in 1 .. m + 1 : F[k] = "trusts not") <=> (\E k \in 1 .. m : F[k] = "trusts not")
          BY <1>8, <1>9, <3>1
        <4> QED
          BY <2>1, <2>3, <3>1, <4>1
      <3>2. CASE F[m + 1] = "trusts not"
        BY <1>9, <2>1, <3>2
      <3> QED
        BY <2>2, <3>1, <3>2
    <2> QED
      BY <1>2, <1>11, <2>1, <2>4, <2>5
  <1>13. CASE Certs!CertFile
    <2>1. pc' = pc /\ given.plugin = "check_x509_cert" /\ status' = Certs!Judged(F[m + 1], status)
      BY <1>5, <1>13 DEF Certs!CertFile
    <2>2. /\ status' \in {0, 1, 2} /\ status <= status' /\ Certs!Judged(F[m + 1], 0) <= status'
          /\ status' = status \/ status' = Certs!Judged(F[m + 1], 0)
      BY <1>2, <2>1, JudgedFacts
    <2>3. /\ \A k \in 1 .. m : Certs!Judged(F[k], 0) <= status
          /\ status = 0 \/ \E k \in 1 .. m : status = Certs!Judged(F[k], 0)
      BY <1>1, <1>2, <2>1 DEF Certs!StatusIsWorst, Certs!STATE_OK
    <2>4. \A k : Certs!Judged(F[k], 0)' = Certs!Judged(F[k], 0)
      BY <1>2 DEF Certs!Judged, Certs!get_status, Certs!check_range, Certs!Worse, Certs!STATE_OK, Certs!STATE_WARNING,
                  Certs!STATE_CRITICAL
    <2>5. \A k \in 1 .. m + 1 : Certs!Judged(F[k], 0) <= status'
      <3>1. ASSUME NEW k \in 1 .. m PROVE Certs!Judged(F[k], 0) <= status'
        <4>1. Certs!Judged(F[k], 0) \in {0, 1, 2} /\ Certs!Judged(F[k], 0) <= status
          BY <2>3, JudgedFacts
        <4> QED
          BY <1>2, <2>2, <4>1
      <3> QED
        BY <1>8, <2>2, <3>1
    <2>6. status' = 0 \/ \E k \in 1 .. m + 1 : status' = Certs!Judged(F[k], 0)
      BY <1>9, <2>2, <2>3
    <2>7. Certs!StatusIsWorst'
      BY <1>2, <1>6, <2>1, <2>4, <2>5, <2>6 DEF Certs!StatusIsWorst, Certs!STATE_OK
    <2> QED
      BY <1>11, <2>1, <2>2, <2>7
  <1> QED
    BY <1>2, <1>10, <1>12, <1>13 DEF Certs!TrustFile, Certs!Leave

(* The lines of the server, one more at a time. *)
LEMMA CertsDialogue ==
    ASSUME Certs!IInv, Certs!Banner \/ Certs!Capability \/ Certs!Starttls
    PROVE  Certs!IInv'
  <1>1. PICK l \in Certs!Line :
           /\ seen' = Append(seen, l) /\ given' = given /\ todo' = todo /\ status' = status
           /\ pc \in {"banner", "capability", "starttls"}
           /\ pc = "banner" => pc' = IF l.at # "ok" THEN "failed"
                                     ELSE IF given.starttls = "pop" THEN "starttls" ELSE "capability"
           /\ pc = "capability" => /\ l.at = "bad" => pc' = "failed"
                                   /\ l.at = "more" => pc' = "capability"
                                   /\ l.at = "ok" => pc' \in {"starttls", "failed"} /\ (pc' = "starttls" => Certs!Offered')
           /\ pc = "starttls" => pc' = IF l.at = "ok" THEN "tls" ELSE "failed"
    BY DEF Certs!Banner, Certs!Capability, Certs!Starttls, Certs!Receive, Certs!Leave, Certs!Goto
  <1>2. PICK n : n = Len(seen)
    OBVIOUS
  <1>3. /\ seen \in Seq(Certs!Line) /\ given \in CertWorlds /\ status \in {0, 1, 2} /\ Certs!DialogueIsKept
    BY DEF Certs!IInv, Certs!STATE_OK, Certs!STATE_WARNING, Certs!STATE_CRITICAL
  <1>4. /\ seen' \in Seq(Certs!Line) /\ Len(seen') = n + 1 /\ n \in Nat
        /\ (\A k \in 1 .. n : seen'[k] = seen[k]) /\ seen'[n + 1] = l
    BY <1>1, <1>2, <1>3, AppendFacts, LenProperties
  <1>5. l.at \in {"ok", "more", "bad"}
    BY <1>1 DEF Certs!Line
  <1>6. /\ pc = "banner" => seen = <<>>
        /\ given.plugin = "check_ssl_cert"
        /\ pc \in {"capability", "starttls"} => n >= 1 /\ seen[1].at = "ok"
        /\ pc = "capability" => given.starttls # "pop" /\ \A k \in 2 .. n : seen[k].at = "more"
        /\ pc = "starttls" /\ given.starttls = "pop" => n = 1
        /\ pc = "starttls" /\ given.starttls # "pop" =>
              n >= 2 /\ Certs!Offered /\ seen[n].at = "ok" /\ \A k \in 2 .. n - 1 : seen[k].at = "more"
    BY <1>1, <1>2, <1>3 DEF Certs!DialogueIsKept
  <1>7. SUFFICES Certs!DialogueIsKept' /\ Certs!TlsIsAgreed' /\ pc' \in {"failed", "starttls", "capability", "tls"}
    BY <1>1, <1>3, <1>4, <1>7 DEF Certs!IInv, Certs!STATE_OK, Certs!STATE_WARNING, Certs!STATE_CRITICAL
  <1>8. CASE pc' = "failed"
    BY <1>8 DEF Certs!DialogueIsKept, Certs!TlsIsAgreed
  <1>9. CASE pc = "banner" /\ pc' # "failed"
    <2>1. n = 0
      BY <1>2, <1>6, <1>9
    <2>2. l.at = "ok" /\ Len(seen') = 1 /\ seen'[1] = l
      BY <1>1, <1>4, <1>9, <2>1
    <2>3. pc' = IF given.starttls = "pop" THEN "starttls" ELSE "capability"
      BY <1>1, <1>9
    <2> QED
      BY <1>1, <1>6, <2>2, <2>3 DEF Certs!DialogueIsKept, Certs!TlsIsAgreed
  <1>10. CASE pc = "capability" /\ pc' = "capability"
    <2>1. l.at = "more"
      BY <1>1, <1>5, <1>10
    <2>2. \A k \in 2 .. n + 1 : seen'[k].at = "more"
      BY <1>4, <1>6, <1>10, <2>1
    <2>3. n + 1 >= 1 /\ seen'[1].at = "ok" /\ given.starttls # "pop"
      BY <1>4, <1>6, <1>10
    <2> QED
      BY <1>1, <1>4, <1>6, <1>10, <2>2, <2>3 DEF Certs!DialogueIsKept, Certs!TlsIsAgreed
  <1>11. CASE pc = "capability" /\ pc' = "starttls"
    <2>1. l.at = "ok" /\ Certs!Offered'
      BY <1>1, <1>5, <1>11
    <2>2. n + 1 >= 2 /\ seen'[1].at = "ok" /\ seen'[n + 1].at = "ok" /\ given.starttls # "pop"
      BY <1>4, <1>6, <1>11, <2>1
    <2>3. \A k \in 2 .. (n + 1) - 1 : seen'[k].at = "more"
      BY <1>4, <1>6, <1>11
    <2>4. n + 1 >= 1
      BY <1>4
    <2> QED
      BY <1>1, <1>4, <1>6, <1>11, <2>1, <2>2, <2>3, <2>4 DEF Certs!DialogueIsKept, Certs!TlsIsAgreed
  <1>12. CASE pc = "starttls" /\ pc' = "tls"
    <2>1. l.at = "ok" /\ n >= 1 /\ seen[1].at = "ok"
      BY <1>1, <1>6, <1>12
    <2>2. n + 1 >= 2 /\ seen'[1].at = "ok" /\ seen'[n + 1].at = "ok"
      BY <1>4, <2>1
    <2>3. given.starttls = "pop" => n + 1 = 2
      BY <1>6, <1>12
    <2>4. ASSUME given.starttls # "pop"
          PROVE  /\ \E k \in 2 .. (n + 1) - 1 : seen'[k].tls
                 /\ seen'[(n + 1) - 1].at = "ok"
                 /\ \A k \in (2 .. (n + 1) - 1) \ {(n + 1) - 1} : seen'[k].at = "more"
      <3>1. n >= 2 /\ Certs!Offered /\ seen[n].at = "ok" /\ \A k \in 2 .. n - 1 : seen[k].at = "more"
        BY <1>6, <1>12, <2>4
      <3>2. (n + 1) - 1 = n /\ \A k \in 2 .. n : k \in 1 .. n
        BY <1>4
      <3>3. PICK k \in 2 .. n : seen[k].tls
        BY <1>2, <3>1 DEF Certs!Offered
      <3>4. seen'[n].at = "ok"
        BY <1>4, <3>1
      <3>5. \A j \in (2 .. n) \ {n} : j \in 2 .. n - 1
        BY <1>4
      <3> QED
        BY <1>4, <3>1, <3>2, <3>3, <3>4, <3>5
    <2>5. {k \in 2 .. (n + 1) - 1 : TRUE} = 2 .. (n + 1) - 1
      OBVIOUS
    <2>6. Certs!TlsIsAgreed'
      BY <1>1, <1>4, <1>12, <2>2, <2>3, <2>4, <2>5 DEF Certs!TlsIsAgreed
    <2> QED
      BY <1>1, <1>6, <1>12, <2>6 DEF Certs!DialogueIsKept
  <1> QED
    BY <1>1, <1>5, <1>8, <1>9, <1>10, <1>11, <1>12

(* The files are looked at from the first one on. *)
LEMMA CertsBegin ==
    ASSUME given \in CertWorlds, given' = given, todo' = Certs!Files,
           given.plugin = "check_x509_cert" => status' = 0,
           given.plugin = "check_ssl_cert" => status' = IF given.cert.expire < 0 \/ ~given.cert.active THEN 2
                                                        ELSE Certs!get_status(given.cert.expire, given.limits)
    PROVE  /\ (todo \in Seq(Certs!ToSet(Certs!Files)) /\ Len(todo) <= Len(Certs!Files))'
           /\ (\A k \in 1 .. Len(todo) : todo[k] = Certs!Files[Certs!Done + k])'
           /\ Certs!StatusIsWorst'
  <1>1. PICK F : F = Certs!Files
    OBVIOUS
  <1>2. F \in Seq(Certs!ToSet(F)) /\ Len(F) \in Nat /\ given.plugin \in {"check_ssl_cert", "check_x509_cert"}
    BY <1>1, CertFiles
  <1>3. Certs!Files' = F /\ todo' = F
    BY <1>1 DEF Certs!Files
  <1>4. Certs!Done' = 0 /\ 1 .. 0 = {}
    BY <1>2, <1>3 DEF Certs!Done
  <1>5. Certs!StatusIsWorst'
    BY <1>2, <1>3, <1>4 DEF Certs!StatusIsWorst, Certs!STATE_OK, Certs!STATE_WARNING, Certs!STATE_CRITICAL, Certs!get_status,
            Certs!check_range
  <1>6. \A k \in 1 .. Len(F) : 0 + k = k
    BY <1>2
  <1> QED
    BY <1>2, <1>3, <1>4, <1>5, <1>6

LEMMA CertsStep ==
    ASSUME Certs!IInv, [Certs!Next]_(Certs!vars)
    PROVE  Certs!IInv'
  <1>1. /\ given \in CertWorlds /\ seen \in Seq(Certs!Line) /\ status \in {0, 1, 2}
        /\ Certs!DialogueIsKept /\ Certs!TlsIsAgreed /\ (pc = "start" => status = 0)
        /\ given.plugin \in {"check_ssl_cert", "check_x509_cert"}
    BY CertFiles DEF Certs!IInv, Certs!STATE_OK, Certs!STATE_WARNING, Certs!STATE_CRITICAL
  <1>2. ASSUME given' = given, seen' = seen, status' \in {0, 1, 2}, pc' \in {"usage", "failed", "alarmed"}
        PROVE  Certs!IInv'
    BY <1>1, <1>2 DEF Certs!IInv, Certs!STATE_OK, Certs!STATE_WARNING, Certs!STATE_CRITICAL, Certs!DialogueIsKept,
                      Certs!TlsIsAgreed
  <1>3. CASE Certs!process_arguments
    <2>1. given' = given /\ seen' = seen /\ status' = status /\ pc = "start" /\ seen = <<>>
      BY <1>1, <1>3 DEF Certs!process_arguments, Certs!DialogueIsKept
    <2>2. CASE pc' \in {"usage", "failed"}
      BY <1>1, <1>2, <2>1, <2>2
    <2>3. CASE pc' = "judge" /\ given.plugin = "check_x509_cert" /\ todo' = given.files
      <3>1. todo' = Certs!Files
        BY <2>3 DEF Certs!Files
      <3>2. /\ (todo \in Seq(Certs!ToSet(Certs!Files)) /\ Len(todo) <= Len(Certs!Files))'
            /\ (\A k \in 1 .. Len(todo) : todo[k] = Certs!Files[Certs!Done + k])'
            /\ Certs!StatusIsWorst'
        BY <1>1, <2>1, <2>3, <3>1, CertsBegin
      <3>3. Certs!DialogueIsKept' /\ Certs!TlsIsAgreed'
        BY <2>1, <2>3 DEF Certs!DialogueIsKept, Certs!TlsIsAgreed
      <3> QED
        BY <1>1, <2>1, <2>3, <3>2, <3>3 DEF Certs!IInv, Certs!STATE_OK, Certs!STATE_WARNING, Certs!STATE_CRITICAL
    <2>4. CASE pc' = "tls" /\ given.plugin = "check_ssl_cert" /\ given.starttls = "none"
      <3>1. Certs!DialogueIsKept' /\ Certs!TlsIsAgreed'
        BY <2>1, <2>4 DEF Certs!DialogueIsKept, Certs!TlsIsAgreed
      <3> QED
        BY <1>1, <2>1, <2>4, <3>1 DEF Certs!IInv, Certs!STATE_OK, Certs!STATE_WARNING, Certs!STATE_CRITICAL
    <2>5. CASE pc' = "banner" /\ given.plugin = "check_ssl_cert"
      <3>1. Certs!DialogueIsKept' /\ Certs!TlsIsAgreed'
        BY <2>1, <2>5 DEF Certs!DialogueIsKept, Certs!TlsIsAgreed
      <3> QED
        BY <1>1, <2>1, <2>5, <3>1 DEF Certs!IInv, Certs!STATE_OK, Certs!STATE_WARNING, Certs!STATE_CRITICAL
    <2> QED
      BY <1>3, <2>2, <2>3, <2>4, <2>5 DEF Certs!process_arguments, Certs!Leave, Certs!Goto
  <1>4. CASE Certs!Banner \/ Certs!Capability \/ Certs!Starttls
    BY <1>4, CertsDialogue
  <1>5. CASE Certs!Handshake
    <2>1. given' = given /\ seen' = seen /\ pc = "tls" /\ given.plugin = "check_ssl_cert"
      BY <1>1, <1>5 DEF Certs!Handshake, Certs!DialogueIsKept
    <2>2. CASE pc' = "failed" /\ status' = status
      BY <1>1, <1>2, <2>1, <2>2
    <2>3. CASE /\ pc' = "judge" /\ todo' = given.ca_files
               /\ status' = IF given.cert.expire < 0 \/ ~given.cert.active THEN 2
                            ELSE Certs!get_status(given.cert.expire, given.limits)
      <3>1. todo' = Certs!Files
        BY <2>1, <2>3 DEF Certs!Files
      <3>2. status' \in {0, 1, 2}
        BY <2>3, CertStatus
      <3>3. /\ (todo \in Seq(Certs!ToSet(Certs!Files)) /\ Len(todo) <= Len(Certs!Files))'
            /\ (\A k \in 1 .. Len(todo) : todo[k] = Certs!Files[Certs!Done + k])'
            /\ Certs!StatusIsWorst'
        BY <1>1, <2>1, <2>3, <3>1, CertsBegin
      <3>4. Certs!DialogueIsKept' /\ Certs!TlsIsAgreed'
        BY <1>1, <2>1, <2>3 DEF Certs!DialogueIsKept, Certs!TlsIsAgreed
      <3> QED
        BY <1>1, <2>1, <2>3, <3>2, <3>3, <3>4 DEF Certs!IInv, Certs!STATE_OK, Certs!STATE_WARNING, Certs!STATE_CRITICAL
    <2> QED
      BY <1>5, <2>2, <2>3 DEF Certs!Handshake, Certs!Leave, Certs!Goto, Certs!STATE_CRITICAL
  <1>6. CASE Certs!TrustFile \/ Certs!CertFile
    BY <1>6, CertsLoop
  <1>7. CASE Certs!Report \/ UNCHANGED Certs!vars
    <2>1. /\ given' = given /\ seen' = seen /\ status' = status /\ todo' = todo
          /\ \/ pc' = pc /\ code' = code
             \/ pc = "judge" /\ pc' = "exited" /\ code' = status /\ todo = <<>>
      BY <1>7 DEF Certs!Report, Certs!vars, Certs!Leave
    <2>2. Certs!Files' = Certs!Files /\ Certs!Done' = Certs!Done
      BY <2>1 DEF Certs!Files, Certs!Done
    <2>3. Certs!StatusIsWorst' <=> Certs!StatusIsWorst
      BY <2>1, <2>2 DEF Certs!StatusIsWorst, Certs!Judged, Certs!get_status, Certs!check_range, Certs!Worse, Certs!STATE_OK,
                        Certs!STATE_WARNING, Certs!STATE_CRITICAL
    <2>4. Certs!DialogueIsKept' /\ Certs!TlsIsAgreed'
      BY <1>1, <2>1 DEF Certs!DialogueIsKept, Certs!TlsIsAgreed, Certs!Offered
    <2> QED
      BY <1>1, <2>1, <2>2, <2>3, <2>4 DEF Certs!IInv, Certs!STATE_OK, Certs!STATE_WARNING, Certs!STATE_CRITICAL
  <1>8. CASE Certs!Alarm
    BY <1>1, <1>2, <1>8 DEF Certs!Alarm, Certs!Leave
  <1> QED
    BY <1>3, <1>4, <1>5, <1>6, <1>7, <1>8 DEF Certs!Next, Certs!Terminated

(* A range that alerts soon enough is the limit that is documented. *)
LEMMA SoonIsRange ==
    ASSUME NEW v \in Int, NEW r, r.n \in Int, v >= 0 \/ r.colon
    PROVE  Certs!check_range(v, r) <=> Certs!Soon(v, r)
  BY DEF Certs!check_range, Certs!Soon

LEMMA VerdictIsStatus ==
    ASSUME given \in CertWorlds, NEW v \in Int, NEW active,
           v >= 0 \/ (given.limits.crit.colon /\ given.limits.warn.colon)
    PROVE  Certs!Verdict(v, active) = IF active THEN Certs!get_status(v, given.limits) ELSE 2
  <1>1. given.limits.warn.n \in Int /\ given.limits.crit.n \in Int
    BY CertFiles
  <1>2. Certs!check_range(v, given.limits.crit) <=> Certs!Soon(v, given.limits.crit)
    BY <1>1, SoonIsRange
  <1>3. Certs!check_range(v, given.limits.warn) <=> Certs!Soon(v, given.limits.warn)
    BY <1>1, SoonIsRange
  <1> QED
    BY <1>2, <1>3 DEF Certs!Verdict, Certs!get_status, Certs!STATE_OK, Certs!STATE_WARNING, Certs!STATE_CRITICAL

(* There is one worst state. *)
LEMMA WorstIsUnique ==
    ASSUME NEW S, S \subseteq {0, 1, 2}, NEW w \in S \cup {0}, \A r \in S : r <= w
    PROVE  Certs!WorstOf(S) = w
  <1>1. \E s \in S \cup {0} : \A r \in S : r <= s
    OBVIOUS
  <1>2. PICK v : v = Certs!WorstOf(S)
    OBVIOUS
  <1>3. v \in S \cup {0} /\ \A r \in S : r <= v
    BY <1>1, <1>2 DEF Certs!WorstOf, Certs!STATE_OK
  <1>4. v \in {0, 1, 2} /\ w \in {0, 1, 2}
    BY <1>3
  <1>5. v \in S => v <= w
    OBVIOUS
  <1>6. w \in S => w <= v
    BY <1>3
  <1>7. v <= w /\ w <= v
    BY <1>3, <1>4, <1>5, <1>6
  <1> QED
    BY <1>2, <1>4, <1>7

(* check_ssl_cert: the trust files and the certificate. *)
LEMMA SslIsJudged ==
    ASSUME Certs!IInv, pc = "exited", given.plugin = "check_ssl_cert"
    PROVE  code = IF given.cert.expire < 0 \/ "trusts not" \in Certs!ToSet(given.ca_files) THEN 2
                  ELSE Certs!Verdict(given.cert.expire, given.cert.active)
  <1>1. PICK F : F = given.ca_files
    OBVIOUS
  <1>2. Certs!Files = F
    BY <1>1 DEF Certs!Files
  <1>3. given \in CertWorlds /\ todo = <<>> /\ code = status /\ Certs!StatusIsWorst
    BY DEF Certs!IInv
  <1>4. Len(F) \in Nat /\ DOMAIN F = 1 .. Len(F) /\ given.cert.expire \in Int
    BY <1>2, <1>3, CertFiles
  <1>5. Certs!Done = Len(F)
    BY <1>2, <1>3, <1>4 DEF Certs!Done
  <1>6. "trusts not" \in Certs!ToSet(F) <=> \E k \in 1 .. Len(F) : F[k] = "trusts not"
    BY <1>4 DEF Certs!ToSet
  <1> DEFINE v == given.cert.expire
             Status == Certs!get_status(given.cert.expire, given.limits)
  <1>7. status = IF "trusts not" \in Certs!ToSet(F) THEN 2 ELSE IF v < 0 \/ ~given.cert.active THEN 2 ELSE Status
    BY <1>2, <1>3, <1>5, <1>6 DEF Certs!StatusIsWorst, Certs!STATE_CRITICAL
  <1>8. ~ (v < 0) => Certs!Verdict(v, given.cert.active) = IF given.cert.active THEN Status ELSE 2
    <2>1. ASSUME ~ (v < 0)
          PROVE  v >= 0
      BY <1>4, <2>1
    <2> QED
      BY <1>3, <1>4, <2>1, VerdictIsStatus
  <1> HIDE DEF v, Status
  <1>9. code = IF v < 0 \/ "trusts not" \in Certs!ToSet(F) THEN 2 ELSE Certs!Verdict(v, given.cert.active)
    BY <1>3, <1>7, <1>8
  <1> QED
    BY <1>1, <1>9 DEF v

(* check_x509_cert: the worst file, where no limit is one that an expired
   certificate escapes. *)
LEMMA X509IsJudged ==
    ASSUME Certs!IInv, pc = "exited", given.plugin = "check_x509_cert",
           NEW F, F = given.files, NEW readable, readable = {f \in Certs!ToSet(F) : f.readable},
           \A f \in readable : f.expire >= 0 \/ (given.limits.crit.colon /\ given.limits.warn.colon)
    PROVE  code = IF readable # Certs!ToSet(F) THEN 2
                  ELSE Certs!WorstOf({Certs!Verdict(f.expire, f.active) : f \in readable})
  <1>1. Certs!Files = F
    BY DEF Certs!Files
  <1>2. given \in CertWorlds /\ todo = <<>> /\ code = status /\ Certs!StatusIsWorst /\ status \in {0, 1, 2}
    BY DEF Certs!IInv, Certs!STATE_OK, Certs!STATE_WARNING, Certs!STATE_CRITICAL
  <1>3. Len(F) \in Nat /\ DOMAIN F = 1 .. Len(F) /\ F \in Seq([readable : BOOLEAN, expire : Int, active : BOOLEAN])
    BY <1>1, <1>2, CertFiles
  <1>4. Certs!Done = Len(F)
    BY <1>1, <1>2, <1>3 DEF Certs!Done
  <1>5. /\ \A k \in 1 .. Len(F) : Certs!Judged(F[k], 0) <= status
        /\ status = 0 \/ \E k \in 1 .. Len(F) : status = Certs!Judged(F[k], 0)
    BY <1>1, <1>2, <1>4 DEF Certs!StatusIsWorst, Certs!STATE_OK
  <1>6. \A f : f \in Certs!ToSet(F) <=> \E k \in 1 .. Len(F) : f = F[k]
    BY <1>3 DEF Certs!ToSet
  <1>7. CASE readable # Certs!ToSet(F)
    <2>1. PICK k \in 1 .. Len(F) : ~F[k].readable
      BY <1>6, <1>7
    <2>2. Certs!Judged(F[k], 0) = 2
      BY <2>1, JudgedFacts
    <2>3. 2 <= status
      BY <1>5, <2>1, <2>2
    <2> QED
      BY <1>2, <1>7, <2>3
  <1>8. CASE readable = Certs!ToSet(F)
    <2> DEFINE S == {Certs!Verdict(f.expire, f.active) : f \in readable}
    <2>1. ASSUME NEW k \in 1 .. Len(F)
          PROVE  F[k] \in readable /\ Certs!Judged(F[k], 0) = Certs!Verdict(F[k].expire, F[k].active)
                 /\ Certs!Judged(F[k], 0) \in {0, 1, 2}
      <3>1. F[k] \in readable /\ F[k] \in [readable : BOOLEAN, expire : Int, active : BOOLEAN]
        BY <1>3, <1>6, <1>8, ElementOfSeq
      <3>2. PICK v, a, g : v = F[k].expire /\ a = F[k].active /\ g = Certs!get_status(F[k].expire, given.limits)
        OBVIOUS
      <3>3. v \in Int /\ a \in BOOLEAN /\ g \in {0, 1, 2} /\ F[k].readable
        BY <3>1, <3>2, CertStatus
      <3>4. v >= 0 \/ (given.limits.crit.colon /\ given.limits.warn.colon)
        BY <3>1, <3>2
      <3>5. Certs!Verdict(v, a) = IF a THEN g ELSE 2
        BY <1>2, <3>2, <3>3, <3>4, VerdictIsStatus
      <3>6. Certs!Judged(F[k], 0) = Certs!Worse(Certs!Worse(0, g), IF a THEN 0 ELSE 2)
        BY <3>2, <3>3 DEF Certs!Judged, Certs!STATE_OK, Certs!STATE_CRITICAL
      <3>7. Certs!Worse(0, g) = g
        BY <3>3 DEF Certs!Worse
      <3>8. Certs!Worse(g, IF a THEN 0 ELSE 2) = IF a THEN g ELSE 2
        <4>1. CASE a
          BY <3>3, <4>1 DEF Certs!Worse
        <4>2. CASE ~a
          BY <3>3, <4>2 DEF Certs!Worse
        <4> QED
          BY <4>1, <4>2
      <3> QED
        BY <3>1, <3>2, <3>3, <3>5, <3>6, <3>7, <3>8
    <2>2. \A r \in S : \E k \in 1 .. Len(F) : r = Certs!Judged(F[k], 0)
      BY <1>6, <1>8, <2>1
    <2>3. \A k \in 1 .. Len(F) : Certs!Judged(F[k], 0) \in S
      BY <2>1
    <2> HIDE DEF S
    <2>4. S \subseteq {0, 1, 2} /\ status \in S \cup {0} /\ \A r \in S : r <= status
      BY <1>5, <2>1, <2>2, <2>3
    <2>5. Certs!WorstOf(S) = status
      BY <2>4, WorstIsUnique
    <2> QED
      BY <1>2, <1>8, <2>5 DEF S
  <1> QED
    BY <1>7, <1>8

(* The certificates of servers and files, for any number of files and any
   limits; TLS starts only where the server offered it and was asked. *)
THEOREM CertificatesWereJudged == VerdictsSpec => []CertificatesAreJudged
  <1> DEFINE I == check = "certs" => Certs!IInv
  <1>1. VerdictsInit => I
    BY CertsInit DEF VerdictsInit
  <1>2. I /\ [VerdictsNext]_verdictVars => I'
    BY OneVerdict, CertsStep
  <1>3. I => CertificatesAreJudged
    <2>1. ASSUME Certs!IInv
          PROVE  Certs!TlsIsAgreed /\ Certs!CertificatesAreJudged
      BY <2>1, SslIsJudged, X509IsJudged DEF Certs!IInv, Certs!CertificatesAreJudged, Certs!STATE_CRITICAL
    <2> QED
      BY <2>1 DEF CertificatesAreJudged
  <1> QED
    BY <1>1, <1>2, <1>3, PTL DEF VerdictsSpec

-----------------------------------------------------------------------------
(* check_dnssec_expiration and check_dns_authoritative                      *)

(* What is left to look at once the first has been. *)
LEMMA ZonesTail ==
    ASSUME NEW S, NEW s \in Seq(S), s # <<>>
    PROVE  /\ Tail(s) \in Seq(S) /\ Head(s) \in Zones!ToSet(s)
           /\ Zones!ToSet(s) = {Head(s)} \cup Zones!ToSet(Tail(s))
  <1>1. /\ Head(s) = s[1] /\ 1 \in DOMAIN s /\ Tail(s) \in Seq(S)
        /\ Len(s) \in Nat /\ DOMAIN Tail(s) = 1 .. Len(s) - 1 /\ DOMAIN s = 1 .. Len(s)
        /\ \A i \in DOMAIN Tail(s) : i + 1 \in DOMAIN s /\ Tail(s)[i] = s[i + 1]
    BY TailFacts, TopFacts
  <1>2. \A e : e \in Zones!ToSet(s) <=> \E i \in DOMAIN s : e = s[i]
    BY DEF Zones!ToSet
  <1>3. \A e : e \in Zones!ToSet(Tail(s)) <=> \E i \in DOMAIN Tail(s) : e = Tail(s)[i]
    BY DEF Zones!ToSet
  <1>4. \A e \in Zones!ToSet(Tail(s)) : e \in Zones!ToSet(s)
    BY <1>1, <1>2, <1>3
  <1>5. ASSUME NEW e \in Zones!ToSet(s), e # Head(s)
        PROVE  e \in Zones!ToSet(Tail(s))
    <2>1. PICK i \in DOMAIN s : e = s[i]
      BY <1>2, <1>5
    <2>2. PICK j : j = i - 1
      OBVIOUS
    <2>3. j \in DOMAIN Tail(s) /\ j + 1 = i
      BY <1>1, <1>5, <2>1, <2>2
    <2> QED
      BY <1>1, <1>3, <2>1, <2>3
  <1>6. Head(s) \in Zones!ToSet(s)
    BY <1>1, <1>2
  <1> QED
    BY <1>1, <1>4, <1>5, <1>6

LEMMA ZonesNothing == Zones!ToSet(<<>>) = {}
  <1>1. <<>> \in Seq({}) /\ DOMAIN <<>> = 1 .. 0
    BY EmptySeq, LenProperties
  <1> QED
    BY <1>1 DEF Zones!ToSet

LEMMA ZonesConcat ==
    ASSUME NEW S, NEW s \in Seq(S), NEW t \in Seq(S)
    PROVE  s \o t \in Seq(S) /\ Zones!ToSet(s \o t) = Zones!ToSet(s) \cup Zones!ToSet(t)
  <1> DEFINE u == s \o t
  <1>1. /\ u \in Seq(S) /\ DOMAIN u = 1 .. Len(s) + Len(t)
        /\ \A i \in DOMAIN s : i \in DOMAIN u /\ u[i] = s[i]
        /\ \A i \in DOMAIN t : Len(s) + i \in DOMAIN u /\ u[Len(s) + i] = t[i]
    BY ConcatFacts
  <1>2. Len(s) \in Nat /\ DOMAIN s = 1 .. Len(s) /\ Len(t) \in Nat /\ DOMAIN t = 1 .. Len(t)
    BY TopFacts
  <1> HIDE DEF u
  <1>3. /\ \A e : e \in Zones!ToSet(u) <=> \E i \in DOMAIN u : e = u[i]
        /\ \A e : e \in Zones!ToSet(s) <=> \E i \in DOMAIN s : e = s[i]
        /\ \A e : e \in Zones!ToSet(t) <=> \E i \in DOMAIN t : e = t[i]
    BY DEF Zones!ToSet
  <1>4. \A e : e \in Zones!ToSet(s) \cup Zones!ToSet(t) => e \in Zones!ToSet(u)
    BY <1>1, <1>3
  <1>5. ASSUME NEW i \in DOMAIN u
        PROVE  u[i] \in Zones!ToSet(s) \cup Zones!ToSet(t)
    <2>1. CASE i <= Len(s)
      <3>1. i \in DOMAIN s
        BY <1>1, <1>2, <1>5, <2>1
      <3> QED
        BY <1>1, <1>3, <3>1
    <2>2. CASE i > Len(s)
      <3>1. PICK j : j = i - Len(s)
        OBVIOUS
      <3>2. j \in DOMAIN t /\ Len(s) + j = i
        BY <1>1, <1>2, <1>5, <2>2, <3>1
      <3> QED
        BY <1>1, <1>3, <3>2
    <2> QED
      BY <1>1, <1>2, <2>1, <2>2
  <1> QED
    BY <1>1, <1>3, <1>4, <1>5 DEF u

LEMMA ZonesOne ==
    ASSUME NEW S, NEW e \in S
    PROVE  <<e>> \in Seq(S) /\ Zones!ToSet(<<e>>) = {e}
  <1>1. <<e>> \in Seq(S) /\ DOMAIN <<e>> = {1} /\ <<e>>[1] = e
    OBVIOUS
  <1> QED
    BY <1>1 DEF Zones!ToSet

(* The tests that the options leave turned on. *)
LEMMA ZonesProbes ==
    ASSUME NEW g, {g.udp, g.tcp, g.recursion, g.axfr} \subseteq BOOLEAN
    PROVE  /\ Zones!Probes(g) \in Seq(Zones!Tests)
           /\ Zones!ToSet(Zones!Probes(g)) =
                (IF g.udp THEN {"udp"} ELSE {}) \cup (IF g.udp /\ g.recursion THEN {"udp-rec"} ELSE {})
                \cup (IF g.tcp THEN {"tcp"} ELSE {}) \cup (IF g.tcp /\ g.recursion THEN {"tcp-rec"} ELSE {})
                \cup (IF g.axfr THEN {"axfr"} ELSE {})
  <1> DEFINE T == Zones!Tests
             ur == IF g.recursion THEN <<"udp-rec">> ELSE <<>>
             u == IF g.udp THEN <<"udp">> \o ur ELSE <<>>
             tr == IF g.recursion THEN <<"tcp-rec">> ELSE <<>>
             t == IF g.tcp THEN <<"tcp">> \o tr ELSE <<>>
             x == IF g.axfr THEN <<"axfr">> ELSE <<>>
  <1>1. /\ "udp" \in T /\ "udp-rec" \in T /\ "tcp" \in T /\ "tcp-rec" \in T /\ "axfr" \in T
        /\ <<>> \in Seq(T)
    BY EmptySeq DEF Zones!Tests
  <1>2. Zones!Probes(g) = (u \o t) \o x
    BY DEF Zones!Probes
  <1> HIDE DEF T
  <1>3. ur \in Seq(T) /\ Zones!ToSet(ur) = IF g.recursion THEN {"udp-rec"} ELSE {}
    BY <1>1, ZonesNothing, ZonesOne
  <1>4. tr \in Seq(T) /\ Zones!ToSet(tr) = IF g.recursion THEN {"tcp-rec"} ELSE {}
    BY <1>1, ZonesNothing, ZonesOne
  <1>5. x \in Seq(T) /\ Zones!ToSet(x) = IF g.axfr THEN {"axfr"} ELSE {}
    BY <1>1, ZonesNothing, ZonesOne
  <1> HIDE DEF ur, tr, x
  <1>6. u \in Seq(T) /\ Zones!ToSet(u) = IF g.udp THEN {"udp"} \cup Zones!ToSet(ur) ELSE {}
    <2>1. PICK o : o = <<"udp">>
      OBVIOUS
    <2>2. o \in Seq(T) /\ Zones!ToSet(o) = {"udp"}
      BY <1>1, <2>1, ZonesOne
    <2>3. o \o ur \in Seq(T) /\ Zones!ToSet(o \o ur) = Zones!ToSet(o) \cup Zones!ToSet(ur)
      BY <1>3, <2>2, ZonesConcat
    <2> QED
      BY <1>1, <2>1, <2>2, <2>3, ZonesNothing
  <1>7. t \in Seq(T) /\ Zones!ToSet(t) = IF g.tcp THEN {"tcp"} \cup Zones!ToSet(tr) ELSE {}
    <2>1. PICK o : o = <<"tcp">>
      OBVIOUS
    <2>2. o \in Seq(T) /\ Zones!ToSet(o) = {"tcp"}
      BY <1>1, <2>1, ZonesOne
    <2>3. o \o tr \in Seq(T) /\ Zones!ToSet(o \o tr) = Zones!ToSet(o) \cup Zones!ToSet(tr)
      BY <1>4, <2>2, ZonesConcat
    <2> QED
      BY <1>1, <2>1, <2>2, <2>3, ZonesNothing
  <1> HIDE DEF u, t
  <1>8. u \o t \in Seq(T) /\ Zones!ToSet(u \o t) = Zones!ToSet(u) \cup Zones!ToSet(t)
    BY <1>6, <1>7, ZonesConcat
  <1>9. (u \o t) \o x \in Seq(T)
        /\ Zones!ToSet((u \o t) \o x) = (Zones!ToSet(u) \cup Zones!ToSet(t)) \cup Zones!ToSet(x)
    <2>1. PICK y : y = u \o t
      OBVIOUS
    <2>2. y \in Seq(T) /\ Zones!ToSet(y) = Zones!ToSet(u) \cup Zones!ToSet(t)
      BY <1>8, <2>1
    <2>3. y \o x \in Seq(T) /\ Zones!ToSet(y \o x) = Zones!ToSet(y) \cup Zones!ToSet(x)
      BY <1>5, <2>2, ZonesConcat
    <2> QED
      BY <2>1, <2>2, <2>3
  <1>10. PICK P, a, b, c, d, e : /\ P = Zones!ToSet((u \o t) \o x) /\ a = Zones!ToSet(u) /\ b = Zones!ToSet(t)
                                 /\ c = Zones!ToSet(ur) /\ d = Zones!ToSet(tr) /\ e = Zones!ToSet(x)
    OBVIOUS
  <1>11. P = (a \cup b) \cup e
    BY <1>9, <1>10
  <1>12. /\ a = IF g.udp THEN {"udp"} \cup c ELSE {}
         /\ b = IF g.tcp THEN {"tcp"} \cup d ELSE {}
    BY <1>6, <1>7, <1>10
  <1>13. /\ c = IF g.recursion THEN {"udp-rec"} ELSE {}
         /\ d = IF g.recursion THEN {"tcp-rec"} ELSE {}
         /\ e = IF g.axfr THEN {"axfr"} ELSE {}
    BY <1>3, <1>4, <1>5, <1>10
  <1>14. P = (IF g.udp THEN {"udp"} ELSE {}) \cup (IF g.udp /\ g.recursion THEN {"udp-rec"} ELSE {})
                \cup (IF g.tcp THEN {"tcp"} ELSE {}) \cup (IF g.tcp /\ g.recursion THEN {"tcp-rec"} ELSE {})
                \cup (IF g.axfr THEN {"axfr"} ELSE {})
    BY <1>11, <1>12, <1>13
  <1> QED
    BY <1>2, <1>9, <1>10, <1>14 DEF T

(* The good signatures are those that verify. *)
LEMMA ZonesGood ==
    ASSUME given \in ZoneWorlds, given.plugin = "check_dnssec_expiration"
    PROVE  /\ given.rrsigs \in Seq(Zones!Rrsig)
           /\ Zones!Good \subseteq Zones!Rrsig
           /\ \A rr \in Zones!ToSet(given.rrsigs) : Zones!Verifies(rr) <=> rr \in Zones!Good
           /\ \A rr \in Zones!Good :
                /\ Zones!Left(rr) = rr.exp - rr.ttl /\ Zones!Left(rr) \in Nat
                /\ rr.exp \in Nat /\ rr.ttl \in Nat /\ rr.exp < Width /\ rr # <<>>
  <1>1. given.rrsigs \in Seq(Zones!Rrsig) /\ Width \in Nat /\ Now \in 1 .. Width - 1
    BY VerdictsAssumption DEF Zones!Legal
  <1>2. \A rr \in Zones!ToSet(given.rrsigs) : rr \in Zones!Rrsig
    BY <1>1, ElementOfSeq, LenProperties DEF Zones!ToSet
  <1>3. \A rr \in Zones!Good : rr \in Zones!Rrsig /\ Now <= rr.exp
    BY <1>2 DEF Zones!Good
  <1>4. \A rr \in Zones!Rrsig : /\ rr.exp \in 0 .. Width - 1 /\ rr.ttl \in 0 .. Now
                                /\ rr.by \in {"zsk", "ksk", "nobody"}
    BY DEF Zones!Rrsig
  <1>5. ASSUME NEW rr \in Zones!ToSet(given.rrsigs)
        PROVE  Zones!Verifies(rr) <=> rr \in Zones!Good
    BY <1>2, <1>4, <1>5 DEF Zones!Verifies, Zones!Good, Zones!rrl_keys
  <1>6. ASSUME NEW rr \in Zones!Good
        PROVE  /\ Zones!Left(rr) = rr.exp - rr.ttl /\ Zones!Left(rr) \in Nat
               /\ rr.exp \in Nat /\ rr.ttl \in Nat /\ rr.exp < Width
    <2>1. PICK a, b, w, m : a = rr.exp /\ b = rr.ttl /\ w = Width /\ m = Now
      OBVIOUS
    <2>2. a \in 0 .. w - 1 /\ b \in 0 .. m /\ m <= a /\ w \in Nat /\ m \in 1 .. w - 1
      BY <1>1, <1>3, <1>4, <1>6, <2>1
    <2>3. (a - b) % w = a - b /\ a - b \in Nat /\ a \in Nat /\ b \in Nat /\ a < w
      BY <2>2
    <2> QED
      BY <2>1, <2>3 DEF Zones!Left
  <1>7. \A rr \in Zones!Rrsig : rr # <<>>
    <2>1. \A rr \in Zones!Rrsig : "exp" \in DOMAIN rr
      BY DEF Zones!Rrsig
    <2>2. DOMAIN <<>> = {}
      BY EmptySeq, LenProperties
    <2> QED
      BY <2>1, <2>2
  <1> QED
    BY <1>1, <1>3, <1>5, <1>6, <1>7

LEMMA ZonesInit == Zones!Init => Zones!IInv
  BY DEF Zones!Init, Zones!IInv, Zones!Is

(* Every good signature is either still to come or was compared. *)
LEMMA ZonesLongest ==
    ASSUME Zones!IInv, Zones!LongestRrsig
    PROVE  Zones!NewestIsLongest'
  <1> USE DEF Zones!LongestRrsig, Zones!Is
  <1>1. Zones!NewestIsLongest /\ given \in ZoneWorlds /\ given' = given /\ todo' = Tail(todo) /\ todo # <<>>
    BY DEF Zones!IInv
  <1>2. PICK rr, S, G, R : rr = Head(todo) /\ S = Zones!Rrsig /\ G = Zones!Good /\ R = Zones!ToSet(given.rrsigs)
    OBVIOUS
  <1>3. Zones!Good' = G /\ todo \in Seq(S) /\ Zones!ToSet(todo) \subseteq R
    BY <1>1, <1>2 DEF Zones!Good, Zones!NewestIsLongest
  <1>4. /\ todo' \in Seq(S)
        /\ Zones!ToSet(todo) = {rr} \cup Zones!ToSet(todo')
    BY <1>1, <1>2, <1>3, ZonesTail
  <1>5. /\ \A r \in G : Zones!Left(r) \in Nat
        /\ Zones!Verifies(rr) <=> rr \in G
    BY <1>1, <1>2, <1>3, <1>4, ZonesGood
  <1>6. /\ \A r \in G : r \in Zones!ToSet(todo) \/ Zones!Left(r) <= status
        /\ \/ seen = <<>> /\ status = 0
           \/ seen \in G /\ status = Zones!Left(seen) /\ status > 0
    BY <1>1, <1>2 DEF Zones!NewestIsLongest, Zones!NoRR
  <1>7. \/ rr \in G /\ Zones!Left(rr) > status /\ seen' = rr /\ status' = Zones!Left(rr)
        \/ ~(rr \in G /\ Zones!Left(rr) > status) /\ seen' = seen /\ status' = status
    BY <1>2, <1>5
  <1>8. PICK L : L = [r \in G |-> Zones!Left(r)]
    OBVIOUS
  <1>9. \A r \in G : L[r] = Zones!Left(r) /\ L[r] \in Nat
    BY <1>5, <1>8
  <1>10. /\ \A r \in G : r \in Zones!ToSet(todo') \/ L[r] <= status'
         /\ \/ seen' = <<>> /\ status' = 0
            \/ seen' \in G /\ status' = L[seen'] /\ status' > 0
    <2>1. CASE rr \in G /\ L[rr] > status
      <3>1. seen' = rr /\ status' = L[rr] /\ status \in Nat
        BY <1>6, <1>7, <1>9, <2>1
      <3> QED
        BY <1>4, <1>6, <1>9, <2>1, <3>1
    <2>2. CASE ~(rr \in G /\ L[rr] > status)
      <3>1. seen' = seen /\ status' = status /\ status \in Nat
        BY <1>6, <1>7, <1>9, <2>2
      <3> QED
        BY <1>4, <1>6, <1>9, <2>2, <3>1
    <2> QED
      BY <2>1, <2>2
  <1>11. \A r : Zones!Left(r)' = Zones!Left(r)
    BY DEF Zones!Left
  <1>12. Zones!Rrsig' = S /\ Zones!ToSet(given.rrsigs)' = R /\ Zones!ToSet(todo') \subseteq R
    BY <1>1, <1>2, <1>3, <1>4 DEF Zones!Rrsig, Zones!ToSet
  <1>13. /\ todo' \in Seq(Zones!Rrsig') /\ Zones!ToSet(todo)' \subseteq Zones!ToSet(given.rrsigs)'
         /\ \A r \in Zones!Good' : r \in Zones!ToSet(todo)' \/ Zones!Left(r)' <= status'
         /\ \/ seen' = <<>> /\ status' = 0
            \/ seen' \in Zones!Good' /\ status' = Zones!Left(seen') /\ status' > 0
    BY <1>3, <1>4, <1>9, <1>10, <1>11, <1>12 DEF Zones!ToSet
  <1> QED
    BY <1>13 DEF Zones!NewestIsLongest, Zones!NoRR

(* The first signature is looked at with none found. *)
LEMMA ZonesAsk ==
    ASSUME Zones!IInv, Zones!QueryKeys
    PROVE  Zones!IInv'
  <1> USE DEF Zones!QueryKeys, Zones!Is, Zones!Leave, Zones!Goto
  <1>1. given' = given /\ seen' = seen /\ status' = status /\ pc = "ask" /\ given \in ZoneWorlds
    BY DEF Zones!IInv
  <1>2. given.plugin # "check_dns_authoritative"
    BY <1>1 DEF Zones!IInv
  <1>3. pc' = "failed" \/ (pc' = "run" /\ todo' = given.rrsigs)
    OBVIOUS
  <1>4. ASSUME given.plugin = "check_dnssec_expiration", pc' = "run"
        PROVE  Zones!NewestIsLongest'
    <2>1. seen' = <<>> /\ status' = 0 /\ todo' = given'.rrsigs
      BY <1>1, <1>3, <1>4 DEF Zones!IInv, Zones!NoRR
    <2>2. todo' \in Seq(Zones!Rrsig)
      BY <1>1, <1>4, <2>1, ZonesGood
    <2>3. Zones!Rrsig' = Zones!Rrsig
      BY DEF Zones!Rrsig
    <2>4. \A r \in Zones!Good' : r \in Zones!ToSet(todo)'
      BY <2>1 DEF Zones!Good, Zones!ToSet
    <2>5. Zones!ToSet(todo)' \subseteq Zones!ToSet(given.rrsigs)'
      BY <2>1 DEF Zones!ToSet
    <2> QED
      BY <2>1, <2>2, <2>3, <2>4, <2>5 DEF Zones!NewestIsLongest, Zones!NoRR
  <1> QED
    BY <1>1, <1>2, <1>3, <1>4 DEF Zones!IInv

LEMMA ZonesBegin ==
    ASSUME Zones!IInv, Zones!process_arguments
    PROVE  Zones!IInv'
  <1> USE DEF Zones!Is, Zones!Leave, Zones!Goto, Zones!Crash, Zones!createResolver
  <1>1. /\ given' = given /\ seen' = seen /\ status' = status /\ pc = "start" /\ given \in ZoneWorlds
    BY DEF Zones!IInv, Zones!process_arguments
  <1>2. CASE given.plugin = "check_dnssec_expiration"
    <2>1. pc' \in {"usage", "failed", "ask"}
      BY <1>2 DEF Zones!process_arguments
    <2> QED
      BY <1>1, <1>2, <2>1 DEF Zones!IInv
  <1>3. CASE given.plugin = "check_dns_authoritative"
    <2>1. pc' \in {"usage", "crashed"} \/ (pc' = "run" /\ given.host /\ todo' = Zones!Probes(given))
      BY <1>3 DEF Zones!process_arguments
    <2>2. ASSUME pc' = "run"
          PROVE  Zones!ComplaintsAreKept'
      <3>1. /\ given.host /\ todo' = Zones!Probes(given) /\ seen' = {}
        BY <1>1, <1>3, <2>1, <2>2 DEF Zones!IInv
      <3>2. Zones!Legal(given)
        BY <1>1, VerdictsAssumption
      <3>3. {given.udp, given.tcp, given.recursion, given.axfr} \subseteq BOOLEAN
        BY <1>3, <3>2 DEF Zones!Legal
      <3>4. Zones!Probes(given) \in Seq(Zones!Tests)
        BY <3>3, ZonesProbes
      <3>5. Zones!Probes(given)' = Zones!Probes(given) /\ Zones!Tests' = Zones!Tests
        BY <1>1 DEF Zones!Probes, Zones!Tests
      <3>6. Zones!ToSet(todo)' = Zones!ToSet(Zones!Probes(given)')
        BY <3>1, <3>5 DEF Zones!ToSet
      <3>7. todo' \in Seq(Zones!Tests') /\ given'.host /\ seen' = {}
        BY <1>1, <3>1, <3>4, <3>5
      <3> QED
        BY <3>6, <3>7 DEF Zones!ComplaintsAreKept
    <2> QED
      BY <1>1, <1>3, <2>1, <2>2 DEF Zones!IInv
  <1>4. CASE given.plugin \notin {"check_dnssec_expiration", "check_dns_authoritative"}
    BY <1>1, <1>4 DEF Zones!IInv
  <1> QED
    BY <1>2, <1>3, <1>4

(* A probe that was sent left its complaint, if it had one. *)
LEMMA ZonesProbe ==
    ASSUME Zones!IInv, Zones!Probe
    PROVE  Zones!ComplaintsAreKept'
  <1> USE DEF Zones!Probe, Zones!Is
  <1>1. /\ Zones!ComplaintsAreKept /\ given' = given /\ todo' = Tail(todo) /\ todo # <<>>
        /\ seen' = IF Zones!Complaint(Head(todo), given.server) THEN seen \cup {Head(todo)} ELSE seen
    BY DEF Zones!IInv
  <1>2. PICK h, S, P, C : /\ h = Head(todo) /\ S = Zones!Tests /\ P = Zones!ToSet(Zones!Probes(given))
                          /\ C = {p \in P : Zones!Complaint(p, given.server)}
    OBVIOUS
  <1>3. given.host /\ todo \in Seq(S) /\ Zones!ToSet(todo) \subseteq P /\ seen \subseteq C
        /\ \A p \in C : p \in seen \cup Zones!ToSet(todo)
    BY <1>1, <1>2 DEF Zones!ComplaintsAreKept
  <1>4. todo' \in Seq(S) /\ Zones!ToSet(todo) = {h} \cup Zones!ToSet(todo')
    BY <1>1, <1>2, <1>3, ZonesTail
  <1>5. seen' = IF h \in C THEN seen \cup {h} ELSE seen
    BY <1>1, <1>2, <1>3, <1>4
  <1>6. /\ Zones!ToSet(todo') \subseteq P /\ seen' \subseteq C
        /\ \A p \in C : p \in seen' \cup Zones!ToSet(todo')
    BY <1>3, <1>4, <1>5
  <1>7. /\ Zones!Tests' = S /\ Zones!ToSet(Zones!Probes(given))' = P /\ Zones!ToSet(todo)' = Zones!ToSet(todo')
        /\ {p \in P : Zones!Complaint(p, given.server)'} = C
    BY <1>1, <1>2 DEF Zones!Tests, Zones!ToSet, Zones!Probes, Zones!Complaint
  <1> QED
    BY <1>1, <1>3, <1>4, <1>6, <1>7 DEF Zones!ComplaintsAreKept

(* What is known of the past stays while nothing is looked at. *)
LEMMA NewestStays ==
    ASSUME Zones!NewestIsLongest, given' = given, todo' = todo, seen' = seen, status' = status
    PROVE  Zones!NewestIsLongest'
  BY DEF Zones!NewestIsLongest, Zones!Good, Zones!ToSet, Zones!Left, Zones!Rrsig, Zones!NoRR

LEMMA ComplaintsStay ==
    ASSUME Zones!ComplaintsAreKept, given' = given, todo' = todo, seen' = seen
    PROVE  Zones!ComplaintsAreKept'
  <1>1. PICK S, P, T, C : /\ S = Zones!Tests /\ P = Zones!ToSet(Zones!Probes(given)) /\ T = Zones!ToSet(todo)
                          /\ C = {p \in P : Zones!Complaint(p, given.server)}
    OBVIOUS
  <1>2. given.host /\ todo \in Seq(S) /\ T \subseteq P /\ seen \subseteq C
        /\ \A p \in C : p \in seen \cup T
    BY <1>1 DEF Zones!ComplaintsAreKept
  <1>3. /\ Zones!Tests' = S /\ Zones!ToSet(Zones!Probes(given))' = P /\ Zones!ToSet(todo)' = T
        /\ {p \in P : Zones!Complaint(p, given.server)'} = C
    BY <1>1 DEF Zones!Tests, Zones!ToSet, Zones!Probes, Zones!Complaint
  <1> QED
    BY <1>2, <1>3 DEF Zones!ComplaintsAreKept

LEMMA ZonesStep ==
    ASSUME Zones!IInv, [Zones!Next]_(Zones!vars)
    PROVE  Zones!IInv'
  <1> USE DEF Zones!Is, Zones!Leave, Zones!Goto
  <1> DEFINE X == given.plugin = "check_dnssec_expiration"
             A == given.plugin = "check_dns_authoritative"
  <1>1. CASE UNCHANGED Zones!vars
    <2>1. /\ given' = given /\ todo' = todo /\ seen' = seen /\ status' = status /\ pc' = pc /\ code' = code
      BY <1>1 DEF Zones!vars
    <2>2. (Zones!NewestIsLongest => Zones!NewestIsLongest') /\ (Zones!ComplaintsAreKept => Zones!ComplaintsAreKept')
      BY <2>1, NewestStays, ComplaintsStay
    <2> QED
      BY <2>1, <2>2 DEF Zones!IInv, Zones!get_status, Zones!NoRR, Zones!STATE_OK, Zones!STATE_WARNING,
                        Zones!STATE_CRITICAL
  <1>2. CASE Zones!process_arguments
    BY <1>2, ZonesBegin
  <1>3. CASE Zones!QueryKeys
    BY <1>3, ZonesAsk
  <1>4. CASE Zones!LongestRrsig
    <2>1. given' = given /\ pc' = pc /\ pc = "run" /\ X
      BY <1>4 DEF Zones!LongestRrsig
    <2> QED
      BY <1>4, <2>1, ZonesLongest DEF Zones!IInv
  <1>5. CASE Zones!JudgeRrsig
    <2>1. /\ given' = given /\ todo' = todo /\ seen' = seen /\ status' = status /\ pc' = "exited" /\ todo = <<>>
          /\ pc = "run" /\ X
          /\ code' = IF seen = Zones!NoRR THEN Zones!STATE_CRITICAL
                     ELSE Zones!get_status((seen.exp - seen.ttl - Now) % Width)
      BY <1>5 DEF Zones!JudgeRrsig
    <2>2. Zones!NewestIsLongest => Zones!NewestIsLongest'
      BY <2>1, NewestStays
    <2>3. code' = (IF seen = Zones!NoRR THEN Zones!STATE_CRITICAL
                   ELSE Zones!get_status((seen.exp - seen.ttl - Now) % Width))'
      BY <2>1 DEF Zones!get_status, Zones!NoRR, Zones!STATE_OK, Zones!STATE_WARNING, Zones!STATE_CRITICAL
    <2> QED
      BY <2>1, <2>2, <2>3 DEF Zones!IInv
  <1>6. CASE Zones!TestAnchor
    <2>1. given' = given /\ ~X /\ ~A
      BY <1>6 DEF Zones!TestAnchor
    <2> QED
      BY <2>1 DEF Zones!IInv
  <1>7. CASE Zones!Probe
    <2>1. given' = given /\ pc' = pc /\ pc = "run" /\ A
      BY <1>7 DEF Zones!Probe
    <2> QED
      BY <1>7, <2>1, ZonesProbe DEF Zones!IInv
  <1>8. CASE Zones!Report
    <2>1. /\ given' = given /\ todo' = todo /\ seen' = seen /\ pc' = "exited" /\ todo = <<>> /\ pc = "run" /\ ~X
          /\ code' = IF seen = {} THEN Zones!STATE_OK ELSE Zones!STATE_CRITICAL
      BY <1>8 DEF Zones!Report
    <2>2. Zones!ComplaintsAreKept => Zones!ComplaintsAreKept'
      BY <2>1, ComplaintsStay
    <2> QED
      BY <2>1, <2>2 DEF Zones!IInv, Zones!STATE_OK, Zones!STATE_CRITICAL
  <1>9. CASE Zones!Alarm
    <2>1. given' = given /\ pc' = "alarmed"
      BY <1>9 DEF Zones!Alarm
    <2> QED
      BY <2>1 DEF Zones!IInv
  <1>10. CASE Zones!Terminated
    BY <1>1, <1>10 DEF Zones!Terminated
  <1> QED
    BY <1>1, <1>2, <1>3, <1>4, <1>5, <1>6, <1>7, <1>8, <1>9, <1>10 DEF Zones!Next

(* check_dnssec_expiration: rr_newest is the signature of the greatest slack,
   as soon as there is one whose slack is not negative. *)
LEMMA ExpirationJudged ==
    ASSUME Zones!IInv
    PROVE  Zones!ExpirationIsJudged
  <1> SUFFICES ASSUME pc = "exited", given.plugin = "check_dnssec_expiration"
               PROVE  /\ Zones!Good = {} => code = Zones!STATE_CRITICAL
                      /\ \A rr \in Zones!Good :
                            (Zones!Slack(rr) >= 0 /\ \A r \in Zones!Good : Zones!Slack(r) <= Zones!Slack(rr))
                               => code = Zones!get_status(Zones!Slack(rr))
    BY DEF Zones!ExpirationIsJudged, Zones!Is
  <1>1. /\ given \in ZoneWorlds /\ Zones!NewestIsLongest /\ todo = <<>>
        /\ code = IF seen = Zones!NoRR THEN Zones!STATE_CRITICAL
                  ELSE Zones!get_status((seen.exp - seen.ttl - Now) % Width)
    BY DEF Zones!IInv, Zones!Is
  <1>2. /\ \A rr \in Zones!Good : Zones!Left(rr) <= status
        /\ \/ seen = <<>> /\ status = 0
           \/ seen \in Zones!Good /\ status = Zones!Left(seen) /\ status > 0
    BY <1>1, ZonesNothing DEF Zones!NewestIsLongest, Zones!NoRR
  <1>3. \A rr \in Zones!Good :
            /\ Zones!Left(rr) = rr.exp - rr.ttl /\ Zones!Left(rr) \in Nat
            /\ rr.exp \in Nat /\ rr.ttl \in Nat /\ rr.exp < Width /\ rr # <<>>
    BY <1>1, ZonesGood
  <1>4. Width \in Nat /\ Now \in 1 .. Width - 1
    BY VerdictsAssumption
  <1>5. Zones!Good = {} => code = Zones!STATE_CRITICAL
    BY <1>1, <1>2 DEF Zones!NoRR
  <1>6. ASSUME NEW rr \in Zones!Good, Zones!Slack(rr) >= 0,
               \A r \in Zones!Good : Zones!Slack(r) <= Zones!Slack(rr)
        PROVE  code = Zones!get_status(Zones!Slack(rr))
    <2>1. PICK a, b, m, w : a = rr.exp /\ b = rr.ttl /\ m = Now /\ w = Width
      OBVIOUS
    <2>2. a \in Nat /\ b \in Nat /\ m \in Nat /\ w \in Nat /\ m > 0 /\ Zones!Slack(rr) = a - b - m /\ a - b - m >= 0
      BY <1>3, <1>4, <1>6, <2>1 DEF Zones!Slack
    <2>3. Zones!Left(rr) = a - b /\ a - b > 0 /\ a - b <= status
      BY <1>2, <1>3, <1>6, <2>1, <2>2
    <2>4. seen \in Zones!Good /\ status = Zones!Left(seen)
      BY <1>2, <2>2, <2>3
    <2>5. PICK c, d : c = seen.exp /\ d = seen.ttl
      OBVIOUS
    <2>6. c \in Nat /\ d \in Nat /\ c < w /\ status = c - d /\ seen # <<>> /\ Zones!Slack(seen) = c - d - m
      BY <1>3, <2>1, <2>4, <2>5 DEF Zones!Slack
    <2>7. c - d - m <= a - b - m
      BY <1>6, <2>2, <2>4, <2>6
    <2>8. c - d - m = a - b - m /\ (c - d - m) % w = c - d - m
      BY <2>2, <2>3, <2>6, <2>7
    <2>9. code = Zones!get_status((c - d - m) % w)
      BY <1>1, <2>1, <2>5, <2>6 DEF Zones!NoRR
    <2> QED
      BY <2>2, <2>8, <2>9
  <1> QED
    BY <1>5, <1>6

(* check_dns_authoritative: no complaint is left of the tests turned on. *)
LEMMA AuthorityJudged ==
    ASSUME Zones!IInv
    PROVE  Zones!AuthorityIsJudged
  <1> DEFINE g == given
             s == given.server
             on == {t \in {"udp", "tcp"} : IF t = "udp" THEN given.udp ELSE given.tcp}
  <1> SUFFICES ASSUME pc = "exited", given.plugin = "check_dns_authoritative"
               PROVE  code = Zones!STATE_OK <=>
                        /\ \A t \in on : s.soa[t] = "authoritative"
                        /\ \A t \in on : g.recursion => s.rec[t] \in {"lost", "refused"}
                        /\ g.axfr => ~s.axfr
    BY DEF Zones!AuthorityIsJudged, Zones!Is
  <1>1. /\ g \in ZoneWorlds /\ Zones!ComplaintsAreKept /\ todo = <<>>
        /\ code = IF seen = {} THEN Zones!STATE_OK ELSE Zones!STATE_CRITICAL
    BY DEF Zones!IInv, Zones!Is
  <1>2. code = Zones!STATE_OK <=> seen = {}
    BY <1>1 DEF Zones!STATE_OK, Zones!STATE_CRITICAL
  <1>3. Zones!Legal(g) /\ g.host
    BY <1>1, VerdictsAssumption DEF Zones!ComplaintsAreKept
  <1>4. /\ {g.udp, g.tcp, g.recursion, g.axfr} \subseteq BOOLEAN
        /\ s \in [soa : [Zones!Transports -> {"lost", "other", "authoritative"}],
                  rec : [Zones!Transports -> {"lost", "refused", "answer"}], axfr : BOOLEAN]
    BY <1>3 DEF Zones!Legal
  <1>5. /\ s.rec["udp"] \in {"lost", "refused", "answer"} /\ s.rec["tcp"] \in {"lost", "refused", "answer"}
        /\ s.axfr \in BOOLEAN
    BY <1>4 DEF Zones!Transports
  <1>6. PICK P : P = Zones!ToSet(Zones!Probes(g))
    OBVIOUS
  <1>7. /\ "udp" \in P <=> g.udp
        /\ "tcp" \in P <=> g.tcp
        /\ "udp-rec" \in P <=> g.udp /\ g.recursion
        /\ "tcp-rec" \in P <=> g.tcp /\ g.recursion
        /\ "axfr" \in P <=> g.axfr
        /\ \A p \in P : p \in {"udp", "tcp", "udp-rec", "tcp-rec", "axfr"}
    BY <1>4, <1>6, ZonesProbes
  <1>8. seen = {} <=> \A p \in P : ~Zones!Complaint(p, s)
    BY <1>1, <1>6, ZonesNothing DEF Zones!ComplaintsAreKept
  <1>9. /\ Zones!Complaint("udp", s) <=> s.soa["udp"] # "authoritative"
        /\ Zones!Complaint("tcp", s) <=> s.soa["tcp"] # "authoritative"
        /\ Zones!Complaint("udp-rec", s) <=> s.rec["udp"] = "answer"
        /\ Zones!Complaint("tcp-rec", s) <=> s.rec["tcp"] = "answer"
        /\ Zones!Complaint("axfr", s) <=> s.axfr
    BY <1>5 DEF Zones!Complaint
  <1>10. \A t : t \in on <=> (t = "udp" /\ g.udp) \/ (t = "tcp" /\ g.tcp)
    OBVIOUS
  <1> HIDE DEF g, s, on
  <1>11. seen = {} <=> /\ g.udp => s.soa["udp"] = "authoritative" /\ (g.recursion => s.rec["udp"] # "answer")
                       /\ g.tcp => s.soa["tcp"] = "authoritative" /\ (g.recursion => s.rec["tcp"] # "answer")
                       /\ g.axfr => ~s.axfr
    BY <1>7, <1>8, <1>9
  <1> QED
    BY <1>2, <1>5, <1>10, <1>11

(* The longest signature and every test decide, however many signatures an
   answer has and wherever they stand. *)
THEOREM ZonesWereJudged == VerdictsSpec => []ZonesAreJudged
  <1> DEFINE I == check = "zones" => Zones!IInv
  <1>1. VerdictsInit => I
    BY ZonesInit DEF VerdictsInit
  <1>2. I /\ [VerdictsNext]_verdictVars => I'
    BY OneVerdict, ZonesStep
  <1>3. I => ZonesAreJudged
    BY ExpirationJudged, AuthorityJudged DEF ZonesAreJudged
  <1> QED
    BY <1>1, <1>2, <1>3, PTL DEF VerdictsSpec

-----------------------------------------------------------------------------
(* Thresholds                                                               *)

(* A maximum that is not negative keeps the order of two percentages. *)
LEMMA ScaledOrder ==
    ASSUME NEW a \in Int, NEW b \in Int, NEW m \in Nat, a <= b
    PROVE  a * m \in Int /\ b * m \in Int /\ a * m <= b * m
  OBVIOUS

(* A number with a multiplier is a number, and of a percentage the multiplier
   is 1. *)
LEMMA BoundFacts ==
    ASSUME NEW b, b.kind \in {"num", "tilde", "empty", "junk"}, b.n \in Int, NEW mult
    PROVE  /\ Ranges!BoundValue(b, mult) \in Int
           /\ Ranges!Percent(b) => Ranges!BoundValue(b, mult) = b.n \div 100
  <1>1. PICK v : v = IF b.unit = "%" THEN b.n \div 100 ELSE b.n
    OBVIOUS
  <1>2. v \in Int
    BY <1>1
  <1>3. PICK k : k = IF mult = "BISI" THEN Ranges!parse_multiplier_string(b.unit)
                                      ELSE Ranges!parse_time_multiplier_string(b.unit)
    OBVIOUS
  <1>4. k \in Int /\ (b.unit = "%" => k = 1)
    BY <1>3 DEF Ranges!parse_multiplier_string, Ranges!parse_time_multiplier_string
  <1>5. v * k \in Int /\ (k = 1 => v * k = v)
    BY <1>2, <1>4
  <1>6. Ranges!BoundValue(b, mult) = IF b.kind # "num" THEN 0 ELSE v * k
    BY <1>1, <1>3 DEF Ranges!BoundValue
  <1>7. Ranges!BoundValue(b, mult) \in Int
    BY <1>5, <1>6
  <1>8. Ranges!Percent(b) => b.kind = "num" /\ b.unit = "%"
    BY DEF Ranges!Percent
  <1> QED
    BY <1>1, <1>4, <1>5, <1>6, <1>7, <1>8

(* The fields of a range, as they were given and once they are absolute. *)
LEMMA RangeFields ==
    ASSUME NEW s
    PROVE  LET r == Ranges!OptionRange(s)
               A == IF s.colon THEN Ranges!BoundValue(s.from, todo.multiplier) ELSE 0
               B == Ranges!BoundValue(s.to, todo.multiplier)
               fi == s.colon /\ s.from.kind = "tilde"
               ti == s.to.kind \in {"tilde", "empty"}
               up == fi \/ ti \/ A <= B
           IN  /\ r.set = TRUE
               /\ r.start = IF up THEN A ELSE B
               /\ r.end = IF up THEN B ELSE A
               /\ r.start_infinity = fi /\ r.end_infinity = ti
               /\ r.start_percent = (s.colon /\ Ranges!Percent(s.from))
               /\ r.end_percent = Ranges!Percent(s.to)
               /\ r.alert_on = IF todo.at /\ ~s.colon THEN "INSIDE" ELSE IF s.at THEN "INSIDE" ELSE "OUTSIDE"
  BY DEF Ranges!OptionRange, Ranges!parse_range_string

LEMMA ResolvedFields ==
    ASSUME NEW r, NEW m, DOMAIN r = {"set", "start", "start_infinity", "start_percent",
                                     "end", "end_infinity", "end_percent", "alert_on"}
    PROVE  LET q == Ranges!percent_resolv_range(r, m) IN
           /\ DOMAIN q = DOMAIN r
           /\ q.set = r.set /\ q.alert_on = r.alert_on
           /\ q.start_infinity = r.start_infinity /\ q.end_infinity = r.end_infinity
           /\ q.start = IF r.start_percent THEN r.start * m ELSE r.start
           /\ q.end = IF r.end_percent THEN r.end * m ELSE r.end
           /\ q.start_percent = FALSE /\ q.end_percent = FALSE
  BY DEF Ranges!percent_resolv_range

LEMMA RangeDomain ==
    ASSUME NEW s
    PROVE  DOMAIN Ranges!OptionRange(s) = {"set", "start", "start_infinity", "start_percent",
                                           "end", "end_infinity", "end_percent", "alert_on"}
  BY DEF Ranges!OptionRange, Ranges!parse_range_string

(* Inside is the same for both. *)
LEMMA InsideAgrees ==
    ASSUME NEW x \in Int, NEW y \in Int, NEW f \in Int, NEW t \in Int, NEW v \in Int,
           NEW fi \in BOOLEAN, NEW ti \in BOOLEAN,
           fi \/ ti => x = f /\ y = t,
           ~fi /\ ~ti => (x = f /\ y = t /\ f <= t) \/ (x = t /\ y = f /\ t <= f)
    PROVE  ((v < x /\ ~fi) \/ (v > y /\ ~ti))
           <=> ~(/\ fi \/ v >= f \/ ((~fi /\ ~ti) /\ v >= t)
                 /\ ti \/ v <= t \/ ((~fi /\ ~ti) /\ v <= f))
  OBVIOUS

(* One range: an alert of the code is one of the manual page. *)
LEMMA AlertIsDocumented ==
    ASSUME NEW s \in Ranges!Accepted, todo.at \in BOOLEAN, NEW v \in Int, NEW m \in {-1} \cup Nat,
           NEW g, g = [set |-> TRUE, str |-> s], Ranges!Uniform(g), Ranges!HasPercent(g) => m # -1,
           NEW R, R = IF m = -1 THEN Ranges!OptionRange(s)
                      ELSE Ranges!percent_resolv_range(Ranges!OptionRange(s), m)
    PROVE  R.set /\ (Ranges!check_range(v, R) <=> Ranges!DocAlert(g, v, m))
  <1>1. s \in RangeStrings /\ Ranges!Legal(s) /\ s.to.kind # "junk"
    BY VerdictsAssumption DEF Ranges!Accepted, Ranges!RangeRefused
  <1>2. /\ s.at \in BOOLEAN /\ s.colon \in BOOLEAN
        /\ s.from.kind \in {"num", "tilde", "empty", "junk"} /\ s.from.n \in Int
        /\ s.to.kind \in {"num", "tilde", "empty", "junk"} /\ s.to.n \in Int
    BY <1>1 DEF Ranges!Legal
  <1>3. PICK r, bf, bt, A, B, pA, pB, fi, ti, up, a, b, in, f, t :
           /\ r = Ranges!OptionRange(s)
           /\ bf = Ranges!BoundValue(s.from, todo.multiplier)
           /\ bt = Ranges!BoundValue(s.to, todo.multiplier)
           /\ A = IF s.colon THEN bf ELSE 0
           /\ B = bt
           /\ pA = (s.colon /\ Ranges!Percent(s.from)) /\ pB = Ranges!Percent(s.to)
           /\ fi = (s.colon /\ s.from.kind = "tilde") /\ ti = (s.to.kind \in {"tilde", "empty"})
           /\ up = (fi \/ ti \/ A <= B)
           /\ a = (IF up THEN A ELSE B) /\ b = (IF up THEN B ELSE A)
           /\ in = (s.at \/ (todo.at /\ ~s.colon))
           /\ f = Ranges!FromValue(g, m) /\ t = Ranges!ToValue(g, m)
    OBVIOUS
  <1>4. /\ bf \in Int /\ (Ranges!Percent(s.from) => bf = s.from.n \div 100)
        /\ bt \in Int /\ (Ranges!Percent(s.to) => bt = s.to.n \div 100)
    BY <1>2, <1>3, BoundFacts
  <1>5. /\ A \in Int /\ B \in Int /\ pA \in BOOLEAN /\ pB \in BOOLEAN /\ up \in BOOLEAN
        /\ fi \in BOOLEAN /\ ti \in BOOLEAN /\ in \in BOOLEAN /\ m \in Int /\ (m = -1 \/ m >= 0)
    BY <1>2, <1>3, <1>4 DEF Ranges!Percent
  <1>6. /\ r.set = TRUE /\ r.start = a /\ r.end = b /\ r.start_infinity = fi /\ r.end_infinity = ti
        /\ r.start_percent = pA /\ r.end_percent = pB
        /\ r.alert_on = IF in THEN "INSIDE" ELSE "OUTSIDE"
    BY <1>2, <1>3, RangeFields
  <1>7. PICK x, y : x = R.start /\ y = R.end
    OBVIOUS
  <1>8. /\ R.set = TRUE /\ R.start_infinity = fi /\ R.end_infinity = ti
        /\ R.alert_on = IF in THEN "INSIDE" ELSE "OUTSIDE"
        /\ x = IF m # -1 /\ pA THEN a * m ELSE a
        /\ y = IF m # -1 /\ pB THEN b * m ELSE b
    <2>1. CASE m = -1
      BY <1>3, <1>6, <1>7, <2>1
    <2>2. CASE m # -1
      <3>1. PICK q : q = Ranges!percent_resolv_range(r, m)
        OBVIOUS
      <3>2. DOMAIN r = {"set", "start", "start_infinity", "start_percent",
                        "end", "end_infinity", "end_percent", "alert_on"}
        BY <1>3, RangeDomain
      <3>3. /\ q.set = r.set /\ q.alert_on = r.alert_on
            /\ q.start_infinity = r.start_infinity /\ q.end_infinity = r.end_infinity
            /\ q.start = IF r.start_percent THEN r.start * m ELSE r.start
            /\ q.end = IF r.end_percent THEN r.end * m ELSE r.end
        BY <3>1, <3>2, ResolvedFields
      <3>4. R = q
        BY <1>3, <2>2, <3>1
      <3> QED
        BY <1>6, <1>7, <2>2, <3>3, <3>4
    <2> QED
      BY <2>1, <2>2
  <1>9. g.set = TRUE /\ g.str = s
    OBVIOUS
  <1>10. /\ f = IF pA THEN A * m ELSE A
         /\ t = IF pB THEN B * m ELSE B
    BY <1>2, <1>3, <1>4, <1>9 DEF Ranges!FromValue, Ranges!ToValue, Ranges!Absolute
  <1>11. m = -1 => ~pA /\ ~pB
    BY <1>3, <1>9 DEF Ranges!HasPercent
  <1>12. \/ ~pA /\ ~pB
         \/ fi \/ ti
         \/ pA /\ pB
         \/ pB /\ ~pA /\ A = 0 /\ B >= 0
    <2>1. s.to.n >= 0 => s.to.n \div 100 >= 0
      BY <1>2
    <2>2. \/ ~pA /\ ~pB
          \/ fi \/ ti
          \/ pB /\ IF s.colon THEN pA ELSE s.to.n >= 0
      BY <1>3, <1>5, <1>9 DEF Ranges!Uniform, Ranges!HasPercent, Ranges!FromInfinite, Ranges!ToInfinite
    <2> QED
      BY <1>2, <1>3, <1>4, <2>1, <2>2
  <1>13. /\ x \in Int /\ y \in Int /\ f \in Int /\ t \in Int
         /\ fi \/ ti => x = f /\ y = t
         /\ ~fi /\ ~ti => (x = f /\ y = t /\ f <= t) \/ (x = t /\ y = f /\ t <= f)
    <2>1. up <=> (fi \/ ti \/ A <= B)
      BY <1>3
    <2>2. a = (IF up THEN A ELSE B) /\ b = (IF up THEN B ELSE A)
      BY <1>3
    <2>3. /\ x = IF m # -1 /\ pA THEN a * m ELSE a
          /\ y = IF m # -1 /\ pB THEN b * m ELSE b
      BY <1>8
    <2>4. A * m \in Int /\ B * m \in Int /\ a \in Int /\ b \in Int
      BY <1>5, <2>2
    <2>5. CASE fi \/ ti
      <3>1. a = A /\ b = B
        BY <1>5, <2>1, <2>2, <2>5
      <3> QED
        BY <1>5, <1>10, <1>11, <2>3, <2>4, <2>5, <3>1
    <2>6. CASE ~fi /\ ~ti /\ ~pA /\ ~pB
      <3>1. x = a /\ y = b /\ f = A /\ t = B
        BY <1>10, <2>3, <2>6
      <3> QED
        BY <1>5, <2>1, <2>2, <2>6, <3>1
    <2>7. CASE ~fi /\ ~ti /\ pA /\ pB
      <3>1. m \in Nat
        BY <1>5, <1>11, <2>7
      <3>2. x = a * m /\ y = b * m /\ f = A * m /\ t = B * m
        BY <1>10, <2>3, <2>7, <3>1
      <3>3. CASE A <= B
        <4>1. A * m <= B * m /\ a = A /\ b = B
          BY <1>5, <2>1, <2>2, <3>1, <3>3, ScaledOrder
        <4> QED
          BY <2>4, <2>7, <3>2, <4>1
      <3>4. CASE ~(A <= B)
        <4>1. B * m <= A * m /\ a = B /\ b = A
          BY <1>5, <2>1, <2>2, <2>7, <3>1, <3>4, ScaledOrder
        <4> QED
          BY <2>4, <2>7, <3>2, <4>1
      <3> QED
        BY <3>3, <3>4
    <2>8. CASE ~fi /\ ~ti /\ pB /\ ~pA /\ A = 0 /\ B >= 0
      <3>1. m \in Nat /\ 0 <= B * m
        BY <1>5, <1>11, <2>8, ScaledOrder
      <3>2. a = A /\ b = B
        BY <1>5, <2>1, <2>2, <2>8
      <3>3. x = 0 /\ y = B * m /\ f = 0 /\ t = B * m
        BY <1>10, <2>3, <2>8, <3>1, <3>2
      <3> QED
        BY <2>4, <2>8, <3>1, <3>3
    <2> QED
      BY <1>5, <1>12, <2>5, <2>6, <2>7, <2>8
  <1>14. PICK I \in BOOLEAN : I = (/\ fi \/ v >= f \/ ((~fi /\ ~ti) /\ v >= t)
                                   /\ ti \/ v <= t \/ ((~fi /\ ~ti) /\ v <= f))
    OBVIOUS
  <1>15. ((v < x /\ ~fi) \/ (v > y /\ ~ti)) <=> ~I
    BY <1>5, <1>13, <1>14, InsideAgrees
  <1>16. Ranges!check_range(v, R) <=> (I <=> in)
    BY <1>5, <1>7, <1>8, <1>15 DEF Ranges!check_range
  <1>17. Ranges!DocAlert(g, v, m) <=> (I <=> in)
    <2>1. (Ranges!FromInfinite(g) <=> fi) /\ (Ranges!ToInfinite(g) <=> ti)
      BY <1>3, <1>9 DEF Ranges!FromInfinite, Ranges!ToInfinite
    <2> QED
      BY <1>3, <1>5, <1>9, <1>14, <2>1 DEF Ranges!DocAlert
  <1> QED
    BY <1>8, <1>16, <1>17

(* What is absolute stays as it is. *)
LEMMA ResolvedOnce ==
    ASSUME NEW r, NEW m, NEW n, DOMAIN r = {"set", "start", "start_infinity", "start_percent",
                                            "end", "end_infinity", "end_percent", "alert_on"}
    PROVE  Ranges!percent_resolv_range(Ranges!percent_resolv_range(r, m), n) = Ranges!percent_resolv_range(r, m)
  <1> DEFINE F(p, k) == [x \in DOMAIN p |->
               CASE x = "start" -> IF p.start_percent THEN p.start * k ELSE p.start
                 [] x = "end" -> IF p.end_percent THEN p.end * k ELSE p.end
                 [] x \in {"start_percent", "end_percent"} -> FALSE
                 [] OTHER -> p[x]]
  <1>1. PICK q : q = Ranges!percent_resolv_range(r, m)
    OBVIOUS
  <1>2. q = F(r, m)
    BY <1>1 DEF Ranges!percent_resolv_range
  <1>3. Ranges!percent_resolv_range(q, n) = F(q, n)
    BY DEF Ranges!percent_resolv_range
  <1>4. DOMAIN q = DOMAIN r /\ q.start_percent = FALSE /\ q.end_percent = FALSE
    BY <1>2
  <1>5. q = [x \in DOMAIN q |-> q[x]]
    BY <1>2
  <1>6. ASSUME NEW x \in DOMAIN q
        PROVE  F(q, n)[x] = q[x]
    BY <1>4, <1>6
  <1>7. F(q, n) = [x \in DOMAIN q |-> q[x]]
    BY <1>6
  <1> QED
    BY <1>1, <1>3, <1>5, <1>7

LEMMA RangesInit == Ranges!Init => Ranges!IInv
  <1> SUFFICES ASSUME Ranges!Init
               PROVE  Ranges!IInv
    OBVIOUS
  <1>1. given = [l \in Ranges!Levels |-> Ranges!NotGiven] /\ seen = -1 /\ code = Ranges!NotJudged
        /\ todo \in [multiplier : Ranges!Multipliers, at : BOOLEAN]
        /\ status = [l \in Ranges!Levels |-> Ranges!Unset]
    BY DEF Ranges!Init
  <1>2. \A l \in Ranges!Levels : Ranges!RangeAt(l, -1) = Ranges!Unset
    BY <1>1 DEF Ranges!RangeAt, Ranges!NotGiven
  <1>3. status = [l \in Ranges!Levels |-> Ranges!RangeAt(l, seen)]
    BY <1>1, <1>2
  <1>4. given \in [Ranges!Levels -> {Ranges!NotGiven} \cup [set : {TRUE}, str : Ranges!Accepted]]
    BY <1>1
  <1> QED
    BY <1>1, <1>3, <1>4 DEF Ranges!IInv

(* The ranges depend on the options alone. *)
LEMMA RangesStay ==
    ASSUME given' = given, todo' = todo, NEW l, NEW m
    PROVE  Ranges!RangeAt(l, m)' = Ranges!RangeAt(l, m)
  BY DEF Ranges!RangeAt, Ranges!OptionRange, Ranges!parse_range_string, Ranges!BoundValue, Ranges!Percent,
         Ranges!Unset, Ranges!percent_resolv_range, Ranges!parse_multiplier_string,
         Ranges!parse_time_multiplier_string

LEMMA UnsetDomain ==
    DOMAIN Ranges!Unset = {"set", "start", "start_infinity", "start_percent",
                           "end", "end_infinity", "end_percent", "alert_on"}
  BY DEF Ranges!Unset

(* An option that is given again replaces the earlier one. *)
LEMMA RangesOption ==
    ASSUME Ranges!IInv, NEW l \in Ranges!Levels, NEW s \in RangeStrings, Ranges!getopt_wc(l, s)
    PROVE  Ranges!IInv'
  <1>1. /\ todo' = todo /\ seen' = seen /\ code' = code /\ seen = -1 /\ code = Ranges!NotJudged
        /\ todo \in [multiplier : Ranges!Multipliers, at : BOOLEAN]
        /\ given \in [Ranges!Levels -> {Ranges!NotGiven} \cup [set : {TRUE}, str : Ranges!Accepted]]
        /\ status = [k \in Ranges!Levels |-> Ranges!RangeAt(k, -1)]
    BY DEF Ranges!IInv, Ranges!getopt_wc
  <1>2. CASE Ranges!RangeRefused(s)
    <2>1. given' = given /\ status' = status
      BY <1>2 DEF Ranges!getopt_wc
    <2>2. \A k : Ranges!RangeAt(k, -1)' = Ranges!RangeAt(k, -1)
      BY <1>1, <2>1, RangesStay
    <2>3. status' = [k \in Ranges!Levels |-> Ranges!RangeAt(k, -1)']
      BY <1>1, <2>1, <2>2
    <2> QED
      BY <1>1, <2>1, <2>3 DEF Ranges!IInv, Ranges!Multipliers, Ranges!Levels, Ranges!NotGiven, Ranges!Accepted,
                              Ranges!RangeRefused, Ranges!NotJudged
  <1>3. CASE ~Ranges!RangeRefused(s)
    <2>1. /\ given' = [given EXCEPT ![l] = [set |-> TRUE, str |-> s]]
          /\ status' = [status EXCEPT ![l] = Ranges!OptionRange(s)]
      BY <1>3 DEF Ranges!getopt_wc
    <2>2. s \in Ranges!Accepted
      BY <1>3 DEF Ranges!Accepted
    <2>3. given' \in [Ranges!Levels -> {Ranges!NotGiven} \cup [set : {TRUE}, str : Ranges!Accepted]]
      BY <1>1, <2>1, <2>2
    <2>4. \A x : Ranges!OptionRange(x)' = Ranges!OptionRange(x)
      BY <1>1 DEF Ranges!OptionRange, Ranges!parse_range_string, Ranges!BoundValue, Ranges!Percent,
                  Ranges!parse_multiplier_string, Ranges!parse_time_multiplier_string
    <2>5. ASSUME NEW k \in Ranges!Levels
          PROVE  status'[k] = Ranges!RangeAt(k, -1)'
      <3>1. CASE k = l
        <4>1. given'[k].set = TRUE /\ given'[k].str = s /\ status'[k] = Ranges!OptionRange(s)
          BY <1>1, <2>1, <3>1
        <4> QED
          BY <2>4, <4>1 DEF Ranges!RangeAt
      <3>2. CASE k # l
        <4>1. given'[k] = given[k] /\ status'[k] = Ranges!RangeAt(k, -1)
          BY <1>1, <2>1, <2>5, <3>2
        <4>2. Ranges!Unset' = Ranges!Unset
          BY DEF Ranges!Unset
        <4> QED
          BY <2>4, <4>1, <4>2 DEF Ranges!RangeAt
      <3> QED
        BY <3>1, <3>2
    <2>6. status' = [k \in Ranges!Levels |-> Ranges!RangeAt(k, -1)']
      BY <1>1, <2>1, <2>5
    <2> QED
      BY <1>1, <2>3, <2>6 DEF Ranges!IInv, Ranges!Multipliers, Ranges!Levels, Ranges!NotGiven, Ranges!Accepted,
                              Ranges!RangeRefused, Ranges!NotJudged
  <1> QED
    BY <1>2, <1>3

(* Whatever was judged before, the ranges it was judged by are still known. *)
LEMMA VerdictStays ==
    ASSUME given' = given, todo' = todo, NEW r, NEW m
    PROVE  Ranges!get_status(r, [l \in Ranges!Levels |-> Ranges!RangeAt(l, m)])'
           = Ranges!get_status(r, [l \in Ranges!Levels |-> Ranges!RangeAt(l, m)])
  <1>1. PICK f : f = [l \in Ranges!Levels |-> Ranges!RangeAt(l, m)]
    OBVIOUS
  <1>2. [l \in Ranges!Levels |-> Ranges!RangeAt(l, m)]' = f
    BY <1>1, RangesStay DEF Ranges!Levels
  <1> QED
    BY <1>1, <1>2 DEF Ranges!get_status, Ranges!check_range, Ranges!STATE_OK, Ranges!STATE_WARNING,
                      Ranges!STATE_CRITICAL

(* The part of the invariant that is about the past, while the options stay. *)
LEMMA RangesKeep ==
    ASSUME Ranges!IInv, given' = given, todo' = todo, code' = code,
           seen' \in {-1, 0} \cup RangeMaxes,
           pc' = "args" => pc = "args" /\ seen' = seen,
           status' = [l \in Ranges!Levels |-> Ranges!RangeAt(l, seen')]
    PROVE  Ranges!IInv'
  <1>1. status' = [l \in Ranges!Levels |-> Ranges!RangeAt(l, seen)']
    <2>1. PICK m : m = seen'
      OBVIOUS
    <2>2. \A l : Ranges!RangeAt(l, m)' = Ranges!RangeAt(l, m)
      BY RangesStay
    <2>3. \A l : Ranges!RangeAt(l, seen)' = Ranges!RangeAt(l, m)'
      BY <2>1 DEF Ranges!RangeAt
    <2> QED
      BY <2>1, <2>2, <2>3
  <1>2. CASE code = Ranges!NotJudged
    BY <1>1, <1>2 DEF Ranges!IInv, Ranges!Multipliers, Ranges!Levels, Ranges!NotGiven, Ranges!Accepted,
                      Ranges!RangeRefused, Ranges!NotJudged
  <1>3. CASE code # Ranges!NotJudged
    <2>1. /\ code.max \in {-1, 0} \cup RangeMaxes /\ code.reading \in RangeReadings
          /\ code.verdict = Ranges!get_status(code.reading, [l \in Ranges!Levels |-> Ranges!RangeAt(l, code.max)])
      BY <1>3 DEF Ranges!IInv
    <2>2. PICK v, m : v = code.reading /\ m = code.max
      OBVIOUS
    <2>3. code'.verdict = Ranges!get_status(v, [l \in Ranges!Levels |-> Ranges!RangeAt(l, m)])'
      BY <2>1, <2>2, VerdictStays
    <2>4. Ranges!get_status(code.reading, [l \in Ranges!Levels |-> Ranges!RangeAt(l, code.max)])'
          = Ranges!get_status(v, [l \in Ranges!Levels |-> Ranges!RangeAt(l, m)])'
      BY <2>2
    <2>5. pc # "args"
      BY <1>3 DEF Ranges!IInv
    <2>6. code'.verdict = Ranges!get_status(code.reading, [l \in Ranges!Levels |-> Ranges!RangeAt(l, code.max)])'
      BY <2>3, <2>4
    <2>7. code'.max \in {-1, 0} \cup RangeMaxes /\ code'.reading \in RangeReadings
      BY <2>1
    <2> QED
      BY <1>1, <2>5, <2>6, <2>7 DEF Ranges!IInv, Ranges!Multipliers, Ranges!Levels, Ranges!NotGiven,
                                    Ranges!Accepted, Ranges!RangeRefused, Ranges!NotJudged
  <1> QED
    BY <1>2, <1>3

(* Percentages are resolved by the first maximum. *)
LEMMA RangesPerfdata ==
    ASSUME Ranges!IInv, NEW max \in {0} \cup RangeMaxes, Ranges!mp_perfdata(max)
    PROVE  Ranges!IInv'
  <1>1. /\ given' = given /\ todo' = todo /\ code' = code /\ pc' = pc /\ pc = "checking"
        /\ seen' = IF seen = -1 THEN max ELSE seen
        /\ status' = [l \in Ranges!Levels |-> Ranges!percent_resolv_range(status[l], max)]
    BY DEF Ranges!mp_perfdata, Ranges!mp_perfdata_percent_resolv
  <1>2. /\ seen \in {-1, 0} \cup RangeMaxes
        /\ status = [l \in Ranges!Levels |-> Ranges!RangeAt(l, seen)]
    BY DEF Ranges!IInv
  <1>3. max # -1 /\ seen' # -1 /\ seen' \in {-1, 0} \cup RangeMaxes
    BY <1>1, <1>2, VerdictsAssumption
  <1>4. PICK m : m = seen'
    OBVIOUS
  <1>5. ASSUME NEW l \in Ranges!Levels
        PROVE  status'[l] = Ranges!RangeAt(l, m)
    <2>1. PICK r : r = IF given[l].set THEN Ranges!OptionRange(given[l].str) ELSE Ranges!Unset
      OBVIOUS
    <2>2. DOMAIN r = {"set", "start", "start_infinity", "start_percent",
                      "end", "end_infinity", "end_percent", "alert_on"}
      BY <2>1, RangeDomain, UnsetDomain
    <2>3. Ranges!RangeAt(l, m) = Ranges!percent_resolv_range(r, m)
      BY <1>3, <1>4, <2>1 DEF Ranges!RangeAt
    <2>4. status'[l] = Ranges!percent_resolv_range(Ranges!RangeAt(l, seen), max)
      BY <1>1, <1>2, <1>5
    <2>5. CASE seen = -1
      <3>1. Ranges!RangeAt(l, seen) = r
        BY <2>1, <2>5 DEF Ranges!RangeAt
      <3> QED
        BY <1>1, <1>4, <2>3, <2>4, <2>5, <3>1
    <2>6. CASE seen # -1
      <3>1. m = seen /\ Ranges!RangeAt(l, seen) = Ranges!percent_resolv_range(r, m)
        BY <1>1, <1>4, <2>3, <2>6
      <3> QED
        BY <2>2, <2>3, <2>4, <3>1, ResolvedOnce
    <2> QED
      BY <2>5, <2>6
  <1>6. status' = [l \in Ranges!Levels |-> Ranges!RangeAt(l, seen')]
    BY <1>1, <1>4, <1>5
  <1> QED
    BY <1>1, <1>3, <1>6, RangesKeep

LEMMA RangesJudge ==
    ASSUME Ranges!IInv, NEW v \in RangeReadings, Ranges!Judge(v)
    PROVE  Ranges!IInv'
  <1>1. /\ given' = given /\ todo' = todo /\ pc' = pc /\ pc = "checking" /\ seen' = seen /\ status' = status
        /\ code' = [reading |-> v, max |-> seen, verdict |-> Ranges!get_status(v, status)]
    BY DEF Ranges!Judge
  <1>2. /\ seen \in {-1, 0} \cup RangeMaxes
        /\ status = [l \in Ranges!Levels |-> Ranges!RangeAt(l, seen)]
    BY DEF Ranges!IInv
  <1>3. code'.max = seen' /\ code'.reading = v /\ code'.verdict = Ranges!get_status(v, status)
    BY <1>1
  <1>4. \A l : Ranges!RangeAt(l, seen)' = Ranges!RangeAt(l, seen)
    <2>1. PICK m : m = seen
      OBVIOUS
    <2>2. \A l : Ranges!RangeAt(l, m)' = Ranges!RangeAt(l, m)
      BY <1>1, RangesStay
    <2> QED
      BY <1>1, <2>1, <2>2 DEF Ranges!RangeAt
  <1>5. status' = [l \in Ranges!Levels |-> Ranges!RangeAt(l, seen)']
    BY <1>1, <1>2, <1>4
  <1>6. code'.verdict = Ranges!get_status(code.reading, [l \in Ranges!Levels |-> Ranges!RangeAt(l, code.max)])'
    <2>1. PICK w, f : w = v /\ f = status
      OBVIOUS
    <2>2. [l \in Ranges!Levels |-> Ranges!RangeAt(l, code.max)]' = f
      BY <1>1, <1>3, <1>5, <2>1 DEF Ranges!RangeAt, Ranges!Levels
    <2>3. Ranges!get_status(code.reading, [l \in Ranges!Levels |-> Ranges!RangeAt(l, code.max)])'
          = Ranges!get_status(w, f)
      BY <1>3, <2>1, <2>2 DEF Ranges!get_status, Ranges!check_range, Ranges!STATE_OK, Ranges!STATE_WARNING,
                              Ranges!STATE_CRITICAL
    <2> QED
      BY <1>3, <2>1, <2>3
  <1>7. code'.max \in {-1, 0} \cup RangeMaxes /\ code'.reading \in RangeReadings
    BY <1>1, <1>2, <1>3
  <1> QED
    BY <1>1, <1>2, <1>5, <1>6, <1>7 DEF Ranges!IInv, Ranges!Multipliers, Ranges!Levels, Ranges!NotGiven,
                                        Ranges!Accepted, Ranges!RangeRefused, Ranges!NotJudged

LEMMA RangesStep ==
    ASSUME Ranges!IInv, [Ranges!Next]_(Ranges!vars)
    PROVE  Ranges!IInv'
  <1>1. CASE UNCHANGED Ranges!vars
    <2>1. given' = given /\ todo' = todo /\ code' = code /\ pc' = pc /\ seen' = seen /\ status' = status
      BY <1>1 DEF Ranges!vars
    <2>2. seen' \in {-1, 0} \cup RangeMaxes /\ status' = [l \in Ranges!Levels |-> Ranges!RangeAt(l, seen')]
      BY <2>1 DEF Ranges!IInv
    <2> QED
      BY <2>1, <2>2, RangesKeep
  <1>2. ASSUME NEW l \in Ranges!Levels, NEW s \in RangeStrings, Ranges!getopt_wc(l, s)
        PROVE  Ranges!IInv'
    BY <1>2, RangesOption
  <1>3. CASE Ranges!ArgumentsDone
    <2>1. given' = given /\ todo' = todo /\ code' = code /\ pc' = "checking" /\ seen' = seen /\ status' = status
      BY <1>3 DEF Ranges!ArgumentsDone
    <2>2. seen' \in {-1, 0} \cup RangeMaxes /\ status' = [l \in Ranges!Levels |-> Ranges!RangeAt(l, seen')]
      BY <2>1 DEF Ranges!IInv
    <2> QED
      BY <2>1, <2>2, RangesKeep
  <1>4. ASSUME NEW max \in RangeMaxes, Ranges!mp_perfdata_int2(max) \/ Ranges!mp_perfdata_float2(max)
        PROVE  Ranges!IInv'
    BY <1>4, RangesPerfdata DEF Ranges!mp_perfdata_int2, Ranges!mp_perfdata_float2
  <1>5. CASE Ranges!mp_perfdata_int
    BY <1>5, RangesPerfdata DEF Ranges!mp_perfdata_int
  <1>6. ASSUME NEW v \in RangeReadings, Ranges!Judge(v)
        PROVE  Ranges!IInv'
    BY <1>6, RangesJudge
  <1>7. CASE Ranges!Terminated
    BY <1>1, <1>7 DEF Ranges!Terminated
  <1> QED
    BY <1>1, <1>2, <1>3, <1>4, <1>5, <1>6, <1>7 DEF Ranges!Next

(* A verdict is the manual page's, range by range. *)
LEMMA VerdictIsDocumented ==
    ASSUME Ranges!IInv
    PROVE  Ranges!JudgedAsDocumented
  <1> SUFFICES ASSUME code.verdict # -1,
                      \A l \in Ranges!Levels : /\ Ranges!Uniform(given[l])
                                               /\ Ranges!HasPercent(given[l]) => code.max # -1
               PROVE  code.verdict = Ranges!DocStatus(code.reading, code.max)
    BY DEF Ranges!JudgedAsDocumented
  <1>1. PICK v, m : v = code.reading /\ m = code.max
    OBVIOUS
  <1>2. code # Ranges!NotJudged
    BY DEF Ranges!NotJudged
  <1>3. /\ m \in {-1} \cup Nat /\ v \in Int /\ todo.at \in BOOLEAN
        /\ given \in [Ranges!Levels -> {Ranges!NotGiven} \cup [set : {TRUE}, str : Ranges!Accepted]]
        /\ code.verdict = Ranges!get_status(v, [l \in Ranges!Levels |-> Ranges!RangeAt(l, m)])
    <2>1. /\ code.max \in {-1, 0} \cup RangeMaxes /\ code.reading \in RangeReadings
          /\ code.verdict = Ranges!get_status(code.reading, [l \in Ranges!Levels |-> Ranges!RangeAt(l, code.max)])
      BY <1>2 DEF Ranges!IInv
    <2>2. RangeReadings \subseteq Int /\ RangeMaxes \subseteq Nat
      BY VerdictsAssumption
    <2>3. /\ todo.at \in BOOLEAN
          /\ given \in [Ranges!Levels -> {Ranges!NotGiven} \cup [set : {TRUE}, str : Ranges!Accepted]]
      BY DEF Ranges!IInv
    <2>4. \A x \in {-1, 0} \cup RangeMaxes : x \in {-1} \cup Nat
      <3>1. -1 \in {-1} \cup Nat /\ 0 \in {-1} \cup Nat
        OBVIOUS
      <3> QED
        BY <2>2, <3>1, Zenon
    <2>5. m \in {-1} \cup Nat
      BY <1>1, <2>1, <2>4
    <2>6. v \in Int
      BY <1>1, <2>1, <2>2
    <2> QED
      BY <1>1, <2>1, <2>3, <2>5, <2>6
  <1>4. ASSUME NEW l \in Ranges!Levels
        PROVE  (Ranges!RangeAt(l, m).set /\ Ranges!check_range(v, Ranges!RangeAt(l, m)))
               <=> Ranges!DocAlert(given[l], v, m)
    <2>1. CASE given[l] = Ranges!NotGiven
      <3>1. given[l].set = FALSE
        BY <2>1 DEF Ranges!NotGiven
      <3>2. ~Ranges!DocAlert(given[l], v, m)
        BY <3>1 DEF Ranges!DocAlert
      <3>3. ~Ranges!RangeAt(l, m).set
        BY <3>1 DEF Ranges!RangeAt, Ranges!Unset, Ranges!percent_resolv_range
      <3> QED
        BY <3>2, <3>3
    <2>2. CASE given[l] # Ranges!NotGiven
      <3>1. PICK g, s : g = given[l] /\ s = given[l].str
        OBVIOUS
      <3>2. g \in [set : {TRUE}, str : Ranges!Accepted]
        BY <1>3, <1>4, <2>2, <3>1
      <3>3. s \in Ranges!Accepted /\ g = [set |-> TRUE, str |-> s]
        BY <3>1, <3>2
      <3>4. PICK R : R = Ranges!RangeAt(l, m)
        OBVIOUS
      <3>5. R = IF m = -1 THEN Ranges!OptionRange(s) ELSE Ranges!percent_resolv_range(Ranges!OptionRange(s), m)
        BY <3>1, <3>2, <3>4 DEF Ranges!RangeAt
      <3>6. Ranges!Uniform(g) /\ (Ranges!HasPercent(g) => m # -1)
        BY <1>1, <1>4, <3>1
      <3>7. R.set /\ (Ranges!check_range(v, R) <=> Ranges!DocAlert(g, v, m))
        BY <1>3, <3>3, <3>5, <3>6, AlertIsDocumented
      <3> QED
        BY <3>1, <3>4, <3>7
    <2> QED
      BY <2>1, <2>2
  <1>5. "critical" \in Ranges!Levels /\ "warning" \in Ranges!Levels
    BY DEF Ranges!Levels
  <1>6. PICK T : T = [l \in Ranges!Levels |-> Ranges!RangeAt(l, m)]
    OBVIOUS
  <1>7. T.critical = Ranges!RangeAt("critical", m) /\ T.warning = Ranges!RangeAt("warning", m)
    BY <1>5, <1>6
  <1>8. /\ (T.critical.set /\ Ranges!check_range(v, T.critical)) <=> Ranges!DocAlert(given["critical"], v, m)
        /\ (T.warning.set /\ Ranges!check_range(v, T.warning)) <=> Ranges!DocAlert(given["warning"], v, m)
    BY <1>4, <1>5, <1>7
  <1>9. Ranges!get_status(v, T) = Ranges!DocStatus(v, m)
    BY <1>8 DEF Ranges!get_status, Ranges!DocStatus
  <1> QED
    BY <1>1, <1>3, <1>6, <1>9

(* Any ranges, readings and maxima: the verdict is the one the manual page
   gives, however often an option was repeated or perfdata added. *)
THEOREM RangesWereDocumented == VerdictsSpec => []RangesAreDocumented
  <1> DEFINE I == check = "ranges" => Ranges!IInv
  <1>1. VerdictsInit => I
    BY RangesInit DEF VerdictsInit
  <1>2. I /\ [VerdictsNext]_verdictVars => I'
    BY OneVerdict, RangesStep
  <1>3. I => RangesAreDocumented
    BY VerdictIsDocumented DEF RangesAreDocumented
  <1> QED
    BY <1>1, <1>2, <1>3, PTL DEF VerdictsSpec

-----------------------------------------------------------------------------
(* check_cups_jobs, check_rhn_entitlements and the checks of one answer      *)

LEMMA ListsToSet == \A s : Lists!ToSet(s) = Zones!ToSet(s)
  BY DEF Lists!ToSet, Zones!ToSet

LEMMA ListsTail ==
    ASSUME NEW S, NEW s \in Seq(S), s # <<>>
    PROVE  /\ Tail(s) \in Seq(S) /\ Head(s) \in S /\ Head(s) \in Lists!ToSet(s)
           /\ Lists!ToSet(s) = {Head(s)} \cup Lists!ToSet(Tail(s))
  BY ListsToSet, ZonesTail, TailFacts

LEMMA ListsStatus ==
    ASSUME NEW v, NEW l
    PROVE  Lists!get_status(v, l) \in {0, 1, 2} /\ Lists!rhn_status(v, l) \in {0, 1, 2}
  BY DEF Lists!get_status, Lists!rhn_status, Lists!STATE_OK, Lists!STATE_WARNING, Lists!STATE_CRITICAL

LEMMA WorstFacts ==
    ASSUME NEW a \in {0, 1, 2}, NEW b \in {0, 1, 2}
    PROVE  /\ Lists!Worst(a, b) \in {0, 1, 2} /\ Lists!Worst(a, b) \in {a, b}
           /\ a <= Lists!Worst(a, b) /\ b <= Lists!Worst(a, b)
           /\ Lists!Worst(a, b) = 0 <=> a = 0 /\ b = 0
  BY DEF Lists!Worst

(* The worst of some results. *)
LEMMA WorstFound ==
    ASSUME NEW F, F \subseteq {0, 1, 2},
           NEW w, w = CHOOSE s \in F \cup {0} : \A r \in F : r <= s
    PROVE  w \in {0, 1, 2} /\ (w = 0 <=> \A r \in F : r = 0)
  <1>1. \E s \in F \cup {0} : \A r \in F : r <= s
    <2>1. CASE 2 \in F
      BY <2>1
    <2>2. CASE 2 \notin F /\ 1 \in F
      BY <2>2
    <2>3. CASE 2 \notin F /\ 1 \notin F
      BY <2>3
    <2> QED
      BY <2>1, <2>2, <2>3
  <1>2. w \in F \cup {0} /\ \A r \in F : r <= w
    BY <1>1
  <1>3. w \in {0, 1, 2}
    BY <1>2
  <1>4. \A r \in F : r \in {0, 1, 2}
    OBVIOUS
  <1>5. w = 0 => \A r \in F : r = 0
    BY <1>2, <1>4
  <1>6. (\A r \in F : r = 0) => w = 0
    BY <1>2
  <1> QED
    BY <1>3, <1>5, <1>6

LEMMA ListsAges ==
    ASSUME NEW d
    PROVE  /\ Lists!Ages(d) \in {0, 1, 2}
           /\ Lists!Ages(d) = 0 <=> \A k \in 1 .. Lists!JobsOf(d) : Lists!get_status(d.jobs[k], given.times) = 0
  <1>1. PICK F : F = {Lists!get_status(d.jobs[k], given.times) : k \in 1 .. Lists!JobsOf(d)}
    OBVIOUS
  <1>2. F \subseteq {0, 1, 2}
    BY <1>1, ListsStatus
  <1>3. Lists!Ages(d) = CHOOSE s \in F \cup {0} : \A r \in F : r <= s
    BY <1>1 DEF Lists!Ages, Lists!STATE_OK
  <1>4. Lists!Ages(d) \in {0, 1, 2} /\ (Lists!Ages(d) = 0 <=> \A r \in F : r = 0)
    BY <1>2, <1>3, WorstFound
  <1> QED
    BY <1>1, <1>4

LEMMA ListsOfPrinter ==
    ASSUME NEW d
    PROVE  /\ Lists!OfPrinter(d) \in {0, 1, 2}
           /\ Lists!OfPrinter(d) = 0 <=>
                 /\ given.summerize \/ Lists!get_status(Lists!JobsOf(d), given.counts) = 0
                 /\ Lists!Ages(d) = 0
  <1>1. PICK c, a : c = (IF given.summerize THEN 0 ELSE Lists!get_status(Lists!JobsOf(d), given.counts)) /\ a = Lists!Ages(d)
    OBVIOUS
  <1>2. c \in {0, 1, 2} /\ a \in {0, 1, 2}
    BY <1>1, ListsStatus, ListsAges
  <1>3. Lists!OfPrinter(d) = Lists!Worst(c, a)
    BY <1>1 DEF Lists!OfPrinter, Lists!STATE_OK
  <1> QED
    BY <1>1, <1>2, <1>3, WorstFacts

(* The printers that are asked for are the ones that are watched. *)
LEMMA ListsDests ==
    ASSUME given \in ListWorlds, given.plugin = "check_cups_jobs", ~Lists!Missing
    PROVE  Lists!Dests \in Seq(Lists!Watched) /\ Lists!ToSet(Lists!Dests) = Lists!Watched
  <1>1. PICK S, P, W : S = given.server /\ P = given.printer /\ W = Lists!Watched
    OBVIOUS
  <1>2. Lists!Legal(given)
    BY VerdictsAssumption
  <1>3. /\ S \in Seq(Lists!ToSet(S)) /\ P \in Seq(Lists!ToSet(P))
        /\ \A j, k \in DOMAIN S : S[j].name = S[k].name => j = k
    BY <1>1, <1>2 DEF Lists!Legal, Lists!LegalPrinters
  <1>4. /\ Len(S) \in Nat /\ DOMAIN S = 1 .. Len(S) /\ Len(P) \in Nat /\ DOMAIN P = 1 .. Len(P)
    BY <1>3, TopFacts
  <1>5. /\ \A d : d \in Lists!ToSet(S) <=> \E j \in DOMAIN S : d = S[j]
        /\ \A n : n \in Lists!ToSet(P) <=> \E k \in DOMAIN P : n = P[k]
    BY DEF Lists!ToSet
  <1>6. \A d : d \in W <=> d \in Lists!ToSet(S) /\ (P = <<>> \/ d.name \in Lists!ToSet(P))
    BY <1>1 DEF Lists!Watched
  <1>7. CASE P = <<>>
    <2>1. Lists!Dests = S /\ W = Lists!ToSet(S)
      BY <1>1, <1>6, <1>7 DEF Lists!Dests
    <2> QED
      BY <1>1, <1>3, <2>1
  <1>8. CASE P # <<>>
    <2> DEFINE at(k) == Lists!SelectInSeq(S, LAMBDA d : d.name = P[k])
    <2>1. ASSUME NEW k \in DOMAIN P
          PROVE  at(k) \in DOMAIN S /\ S[at(k)].name = P[k]
      <3>1. PICK I : I = {j \in 1 .. Len(S) : S[j].name = P[k]}
        OBVIOUS
      <3>2. I # {} /\ I \subseteq Nat
        BY <1>1, <1>4, <2>1, <3>1 DEF Lists!Missing
      <3>3. PICK x \in I : \A y \in I : x <= y
        BY <3>2, LeastNat
      <3>4. at(k) = Lists!Min(I)
        BY <3>1, <3>2 DEF Lists!SelectInSeq
      <3>5. Lists!Min(I) \in I
        BY <3>3 DEF Lists!Min
      <3> QED
        BY <1>4, <3>1, <3>4, <3>5
    <2>2. PICK D : D = Lists!Dests
      OBVIOUS
    <2>3. D = [k \in DOMAIN P |-> S[at(k)]]
      BY <1>1, <1>8, <2>2 DEF Lists!Dests
    <2> HIDE DEF at
    <2>4. ASSUME NEW k \in DOMAIN P
          PROVE  D[k] \in W
      BY <1>5, <1>6, <2>1, <2>3, <2>4
    <2>5. D \in [1 .. Len(P) -> W]
      BY <1>4, <2>3, <2>4
    <2>6. D \in Seq(W)
      BY <1>4, <2>5, FcnIsSeq
    <2>7. ASSUME NEW d \in W
          PROVE  \E k \in DOMAIN D : d = D[k]
      <3>1. PICK j \in DOMAIN S : d = S[j]
        BY <1>5, <1>6, <2>7
      <3>2. PICK k \in DOMAIN P : d.name = P[k]
        BY <1>5, <1>6, <1>8, <2>7
      <3>3. at(k) = j
        BY <1>3, <2>1, <3>1, <3>2
      <3> QED
        BY <2>3, <3>1, <3>2, <3>3
    <2>8. Lists!ToSet(D) = W
      BY <2>3, <2>4, <2>7 DEF Lists!ToSet
    <2> QED
      BY <1>1, <2>2, <2>6, <2>8
  <1> QED
    BY <1>7, <1>8

(* What was asked for is on the list, if the server has it. *)
LEMMA ListsEntitlements ==
    ASSUME given \in ListWorlds, given.plugin = "check_rhn_entitlements"
    PROVE  /\ Lists!Entitlements \in Seq(Lists!ToSet(Lists!Entitlements))
           /\ \A i : i \in Lists!Items <=> i \in Lists!ToSet(Lists!Entitlements) /\ Lists!AskedFor(i)
  <1>1. PICK s, c, u, v : /\ s = given.system /\ c = given.channel
                          /\ u = (IF given.system_name = {} THEN <<>> ELSE s)
                          /\ v = (IF given.channel_name = {} THEN <<>> ELSE c)
    OBVIOUS
  <1>2. Lists!LegalItems(s, "system") /\ Lists!LegalItems(c, "channel")
    <2>1. Lists!Legal(given)
      BY VerdictsAssumption
    <2> QED
      BY <1>1, <2>1 DEF Lists!Legal
  <1>3. PICK T : T = Lists!ToSet(s) \cup Lists!ToSet(c)
    OBVIOUS
  <1>4. /\ s \in Seq(Lists!ToSet(s)) /\ c \in Seq(Lists!ToSet(c)) /\ <<>> \in Seq(T)
        /\ \A i \in Lists!ToSet(s) : i.kind = "system"
        /\ \A i \in Lists!ToSet(c) : i.kind = "channel"
    BY <1>2, EmptySeq DEF Lists!LegalItems
  <1>5. s \in Seq(T) /\ c \in Seq(T)
    <2>1. Lists!ToSet(s) \subseteq T /\ Lists!ToSet(c) \subseteq T
      BY <1>3
    <2> QED
      BY <1>4, <2>1, SeqMonotonic
  <1>6. u \in Seq(T) /\ v \in Seq(T)
    BY <1>1, <1>4, <1>5
  <1>7. u \o v \in Seq(T) /\ Lists!ToSet(u \o v) = Lists!ToSet(u) \cup Lists!ToSet(v)
    BY <1>6, ZonesConcat, ListsToSet
  <1>8. Lists!ToSet(u) = (IF given.system_name = {} THEN {} ELSE Lists!ToSet(s))
        /\ Lists!ToSet(v) = (IF given.channel_name = {} THEN {} ELSE Lists!ToSet(c))
    BY <1>1, ZonesNothing, ListsToSet
  <1>9. PICK E : E = Lists!Entitlements
    OBVIOUS
  <1>10. E = u \o v
    BY <1>1, <1>9 DEF Lists!Entitlements
  <1>11. E \in Seq(Lists!ToSet(E))
    <2>1. E \in Seq(T)
      BY <1>7, <1>10
    <2>2. E = [i \in 1 .. Len(E) |-> E[i]] /\ Len(E) \in Nat /\ DOMAIN E = 1 .. Len(E)
      BY <2>1, SeqDef, LenProperties
    <2>3. \A i \in 1 .. Len(E) : E[i] \in Lists!ToSet(E)
      BY <2>2 DEF Lists!ToSet
    <2>4. E \in [1 .. Len(E) -> Lists!ToSet(E)]
      BY <2>2, <2>3
    <2> QED
      BY <2>2, <2>4, FcnIsSeq
  <1>12. \A i : i \in Lists!Items <=> i \in T /\ Lists!AskedFor(i)
    BY <1>1, <1>3 DEF Lists!Items
  <1>13. ASSUME NEW i
         PROVE  i \in Lists!Items <=> i \in Lists!ToSet(E) /\ Lists!AskedFor(i)
    <2>1. CASE i \in Lists!ToSet(s)
      BY <1>3, <1>4, <1>7, <1>8, <1>10, <1>12, <2>1 DEF Lists!AskedFor
    <2>2. CASE i \in Lists!ToSet(c)
      BY <1>3, <1>4, <1>7, <1>8, <1>10, <1>12, <2>2 DEF Lists!AskedFor
    <2>3. CASE i \notin T
      BY <1>3, <1>7, <1>8, <1>10, <1>12, <2>3
    <2> QED
      BY <1>3, <2>1, <2>2, <2>3
  <1> QED
    BY <1>9, <1>11, <1>13

LEMMA ListsInit == Lists!Init => Lists!IInv
  BY DEF Lists!Init, Lists!IInv, Lists!STATE_OK, Lists!STATE_WARNING, Lists!STATE_CRITICAL

(* What is known of the past depends on the world and what is left of it. *)
LEMMA PrintersStay ==
    ASSUME given' = given
    PROVE  /\ Lists!Watched' = Lists!Watched
           /\ \A d : Lists!OfPrinter(d)' = Lists!OfPrinter(d)
  <1>1. Lists!Watched' = Lists!Watched
    BY DEF Lists!Watched, Lists!ToSet
  <1>2. \A v, l : Lists!get_status(v, l)' = Lists!get_status(v, l)
    BY DEF Lists!get_status, Lists!Outside, Lists!NONE, Lists!STATE_OK, Lists!STATE_WARNING, Lists!STATE_CRITICAL
  <1>3. \A d : Lists!JobsOf(d)' = Lists!JobsOf(d)
    BY DEF Lists!JobsOf, Lists!NONE
  <1>4. \A d : Lists!Ages(d)' = Lists!Ages(d)
    BY <1>2, <1>3 DEF Lists!Ages, Lists!STATE_OK
  <1>5. \A d : Lists!OfPrinter(d)' = Lists!OfPrinter(d)
    BY <1>2, <1>3, <1>4 DEF Lists!OfPrinter, Lists!Worst, Lists!STATE_OK
  <1> QED
    BY <1>1, <1>5

LEMMA ItemsStay ==
    ASSUME given' = given
    PROVE  /\ Lists!Items' = Lists!Items /\ Lists!ToSet(Lists!Entitlements)' = Lists!ToSet(Lists!Entitlements)
           /\ \A i : Lists!OfItem(i)' = Lists!OfItem(i)
  <1>1. Lists!Items' = Lists!Items
    BY DEF Lists!Items, Lists!ToSet, Lists!AskedFor
  <1>2. Lists!ToSet(Lists!Entitlements)' = Lists!ToSet(Lists!Entitlements)
    BY DEF Lists!Entitlements, Lists!ToSet
  <1>3. \A i : Lists!OfItem(i)' = Lists!OfItem(i)
    BY DEF Lists!OfItem, Lists!rhn_status, Lists!Free, Lists!STATE_OK, Lists!STATE_WARNING, Lists!STATE_CRITICAL
  <1> QED
    BY <1>1, <1>2, <1>3

LEMMA ListsStay ==
    ASSUME given' = given, todo' = todo, seen' = seen, status' = status
    PROVE  /\ Lists!PrintersAreKept => Lists!PrintersAreKept'
           /\ Lists!ItemsAreKept => Lists!ItemsAreKept'
  <1>1. Lists!ToSet(todo)' = Lists!ToSet(todo)
    BY DEF Lists!ToSet
  <1>2. ASSUME Lists!PrintersAreKept
        PROVE  Lists!PrintersAreKept'
    BY <1>1, <1>2, PrintersStay DEF Lists!PrintersAreKept, Lists!STATE_OK
  <1>3. ASSUME Lists!ItemsAreKept
        PROVE  Lists!ItemsAreKept'
    BY <1>1, <1>3, ItemsStay DEF Lists!ItemsAreKept, Lists!STATE_OK
  <1> QED
    BY <1>2, <1>3

(* One printer more was looked at. *)
LEMMA ListsPrinter ==
    ASSUME Lists!IInv, Lists!cupsGetJobs
    PROVE  /\ status' \in {0, 1, 2}
           /\ Lists!PrintersAreKept => Lists!PrintersAreKept'
  <1>1. PICK d, W, r : d = Head(todo) /\ W = Lists!Watched /\ r = Lists!OfPrinter(Head(todo))
    OBVIOUS
  <1>2. given' = given /\ todo' = Tail(todo) /\ todo # <<>> /\ status \in {0, 1, 2}
    BY DEF Lists!cupsGetJobs, Lists!IInv, Lists!STATE_OK, Lists!STATE_WARNING, Lists!STATE_CRITICAL
  <1>3. PICK c, a : /\ c = (IF given.summerize THEN 0 ELSE Lists!get_status(Lists!JobsOf(d), given.counts))
                    /\ a = Lists!Ages(d)
    OBVIOUS
  <1>4. c \in {0, 1, 2} /\ a \in {0, 1, 2}
    BY <1>3, ListsStatus, ListsAges
  <1>5. status' = Lists!Worst(Lists!Worst(status, c), a)
    BY <1>1, <1>3 DEF Lists!cupsGetJobs, Lists!STATE_OK
  <1>6. r = Lists!Worst(c, a)
    BY <1>1, <1>3 DEF Lists!OfPrinter, Lists!STATE_OK
  <1>7. r \in {0, 1, 2} /\ status' \in {0, 1, 2} /\ status <= status' /\ r <= status' /\ status' \in {status, r}
    BY <1>2, <1>4, <1>5, <1>6 DEF Lists!Worst
  <1>8. ASSUME Lists!PrintersAreKept
        PROVE  Lists!PrintersAreKept'
    <2>1. PICK G : G = [e \in W |-> Lists!OfPrinter(e)]
      OBVIOUS
    <2>2. \A e \in W : G[e] = Lists!OfPrinter(e) /\ G[e] \in {0, 1, 2}
      BY <2>1, ListsOfPrinter
    <2>3. /\ todo \in Seq(W)
          /\ \A e \in W : e \in Lists!ToSet(todo) \/ G[e] <= status
          /\ status = 0 \/ \E e \in W : status = G[e]
      BY <1>1, <1>8, <2>2 DEF Lists!PrintersAreKept, Lists!STATE_OK
    <2>4. todo' \in Seq(W) /\ d \in W /\ Lists!ToSet(todo) = {d} \cup Lists!ToSet(todo')
      BY <1>1, <1>2, <2>3, ListsTail
    <2>5. r = G[d]
      BY <1>1, <2>2, <2>4
    <2>6. \A e \in W : e \in Lists!ToSet(todo') \/ G[e] <= status'
      BY <1>2, <1>7, <2>2, <2>3, <2>4, <2>5
    <2>7. status' = 0 \/ \E e \in W : status' = G[e]
      BY <1>7, <2>3, <2>4, <2>5
    <2>8. Lists!Watched' = W /\ \A e \in W : Lists!OfPrinter(e)' = G[e]
      BY <1>1, <1>2, <2>2, PrintersStay
    <2>9. Lists!ToSet(todo)' = Lists!ToSet(todo')
      BY DEF Lists!ToSet
    <2> QED
      BY <2>4, <2>6, <2>7, <2>8, <2>9 DEF Lists!PrintersAreKept, Lists!STATE_OK
  <1> QED
    BY <1>7, <1>8

(* One item more was looked at: it was judged, or not asked for. *)
LEMMA ListsItem ==
    ASSUME Lists!IInv, Lists!Entitlement
    PROVE  /\ status' \in {0, 1, 2}
           /\ pc' # "failed" => Lists!ItemsAreKept'
  <1>1. PICK h, N, r, E : h = Head(todo) /\ N = Lists!Items /\ r = Lists!OfItem(Head(todo)) /\ E = Lists!ToSet(Lists!Entitlements)
    OBVIOUS
  <1>2. /\ given' = given /\ todo' = Tail(todo) /\ todo # <<>> /\ status \in {0, 1, 2} /\ given \in ListWorlds
        /\ given.plugin = "check_rhn_entitlements" /\ Lists!ItemsAreKept
    BY DEF Lists!Entitlement, Lists!IInv, Lists!STATE_OK, Lists!STATE_WARNING, Lists!STATE_CRITICAL
  <1>3. \/ ~Lists!AskedFor(h) /\ seen' = seen /\ status' = status
        \/ Lists!AskedFor(h) /\ seen' = Append(seen, h) /\ status' = Lists!Worst(status, r)
        \/ pc' = "failed" /\ status' = status
    BY <1>1 DEF Lists!Entitlement, Lists!Leave, Lists!OfItem
  <1>4. r \in {0, 1, 2}
    BY <1>1, ListsStatus DEF Lists!OfItem
  <1>5. /\ Lists!Worst(status, r) \in {0, 1, 2} /\ Lists!Worst(status, r) \in {status, r}
        /\ status <= Lists!Worst(status, r) /\ r <= Lists!Worst(status, r)
    BY <1>2, <1>4, WorstFacts
  <1>6. status' \in {0, 1, 2}
    BY <1>2, <1>3, <1>5
  <1>7. ASSUME pc' # "failed"
        PROVE  Lists!ItemsAreKept'
    <2>1. PICK G : G = [e \in N |-> Lists!OfItem(e)]
      OBVIOUS
    <2>2. \A e \in N : G[e] = Lists!OfItem(e) /\ G[e] \in {0, 1, 2}
      BY <2>1, ListsStatus DEF Lists!OfItem
    <2>3. /\ todo \in Seq(E) /\ seen \in Seq(N)
          /\ \A e \in N : e \in Lists!ToSet(todo) \/ G[e] <= status
          /\ IF seen = <<>> THEN status = 0 ELSE \E e \in N : status = G[e]
      BY <1>1, <1>2, <2>2 DEF Lists!ItemsAreKept, Lists!STATE_OK
    <2>4. todo' \in Seq(E) /\ h \in E /\ Lists!ToSet(todo) = {h} \cup Lists!ToSet(todo')
      BY <1>1, <1>2, <2>3, ListsTail
    <2>5. h \in N <=> Lists!AskedFor(h)
      BY <1>1, <1>2, <2>4, ListsEntitlements
    <2>6. /\ seen' \in Seq(N)
          /\ \A e \in N : e \in Lists!ToSet(todo') \/ G[e] <= status'
          /\ IF seen' = <<>> THEN status' = 0 ELSE \E e \in N : status' = G[e]
      <3>1. CASE ~Lists!AskedFor(h) /\ seen' = seen /\ status' = status
        BY <2>3, <2>4, <2>5, <3>1
      <3>2. CASE Lists!AskedFor(h) /\ seen' = Append(seen, h) /\ status' = Lists!Worst(status, r)
        <4>1. seen' \in Seq(N) /\ seen' # <<>>
          BY <2>3, <2>5, <3>2, AppendFacts
        <4>2. h \in N /\ G[h] = r
          BY <1>1, <2>2, <2>5, <3>2
        <4>3. \A e \in N : e \in Lists!ToSet(todo') \/ G[e] <= status'
          BY <1>2, <1>4, <1>5, <2>2, <2>3, <2>4, <3>2, <4>2
        <4>4. \E e \in N : status' = G[e]
          <5>1. CASE status' = r
            BY <4>2, <5>1
          <5>2. CASE status' = status /\ status # r
            <6>1. status # 0
              BY <1>4, <1>5, <3>2, <5>2
            <6> QED
              BY <2>3, <5>2, <6>1
          <5> QED
            BY <1>5, <3>2, <5>1, <5>2
        <4> QED
          BY <4>1, <4>3, <4>4
      <3> QED
        BY <1>3, <1>7, <3>1, <3>2
    <2>7. Lists!Items' = N /\ Lists!ToSet(Lists!Entitlements)' = E /\ \A e \in N : Lists!OfItem(e)' = G[e]
      BY <1>1, <1>2, <2>2, ItemsStay
    <2>8. Lists!ToSet(todo)' = Lists!ToSet(todo')
      BY DEF Lists!ToSet
    <2> QED
      BY <2>4, <2>6, <2>7, <2>8 DEF Lists!ItemsAreKept, Lists!STATE_OK
  <1> QED
    BY <1>6, <1>7

(* The calls that check_rhn_entitlements makes are its own. *)
LEMMA ListsRhnCalls ==
    ASSUME given.plugin = "check_rhn_entitlements"
    PROVE  Lists!Calls \in Seq(Lists!RhnCalls) /\ Lists!Calls # <<>>
  <1>1. PICK a, b : a = <<"xmlrpc_client_init2">> /\ b = <<"auth.login", "key", "satellite.listEntitlements", "STRUCT">>
    OBVIOUS
  <1>2. a \in Seq(Lists!RhnCalls) /\ Len(a) = 1 /\ b \in Seq(Lists!RhnCalls) /\ Len(b) = 4
    BY <1>1 DEF Lists!RhnCalls
  <1>3. Lists!Calls = a \o b
    BY <1>1 DEF Lists!Calls, Lists!mp_xmlrpc_init
  <1>4. a \o b \in Seq(Lists!RhnCalls) /\ Len(a \o b) = Len(a) + Len(b)
    <2>1. a \in Seq(Lists!RhnCalls) /\ b \in Seq(Lists!RhnCalls)
      BY <1>2
    <2> QED
      BY <2>1, ConcatFacts
  <1>5. a \o b # <<>>
    <2>1. PICK c : c = a \o b
      OBVIOUS
    <2>2. c \in Seq(Lists!RhnCalls) /\ Len(c) # 0
      BY <1>2, <1>4, <2>1
    <2>3. c # <<>>
      BY <2>2, TopFacts
    <2> QED
      BY <2>1, <2>3
  <1> QED
    BY <1>3, <1>4, <1>5

(* The list is there, and none of it was looked at. *)
LEMMA ListsCall ==
    ASSUME Lists!IInv, Lists!Call
    PROVE  Lists!IInv'
  <1>1. /\ given' = given /\ status' = status /\ pc = "calls" /\ given \in ListWorlds /\ status = 0
        /\ Lists!STATE_OK = 0 /\ Lists!STATE_WARNING = 1 /\ Lists!STATE_CRITICAL = 2
    BY DEF Lists!Call, Lists!IInv, Lists!STATE_OK, Lists!STATE_WARNING, Lists!STATE_CRITICAL
  <1>2. /\ pc' \in {"calls", "crashed", "run"}
        /\ pc' = "run" /\ given.plugin = "check_cups_jobs" => todo' = Lists!Dests /\ ~Lists!Missing
        /\ pc' = "run" /\ given.plugin = "check_rhn_entitlements" => todo' = Lists!Entitlements /\ seen' = <<>>
        /\ pc' = "calls" => Len(todo) > 1 /\ todo' = Tail(todo)
    BY <1>1 DEF Lists!Call
  <1>3. ASSUME pc' = "run", given.plugin = "check_cups_jobs"
        PROVE  Lists!PrintersAreKept'
    <2>1. todo' \in Seq(Lists!Watched) /\ Lists!ToSet(todo') = Lists!Watched
      BY <1>1, <1>2, <1>3, ListsDests
    <2>2. Lists!Watched' = Lists!Watched
      BY <1>1, PrintersStay
    <2>3. Lists!ToSet(todo)' = Lists!ToSet(todo')
      BY DEF Lists!ToSet
    <2>4. status' = 0
      BY <1>1
    <2> QED
      BY <2>1, <2>2, <2>3, <2>4 DEF Lists!PrintersAreKept, Lists!STATE_OK
  <1>4. ASSUME pc' = "run", given.plugin = "check_rhn_entitlements"
        PROVE  Lists!ItemsAreKept'
    <2>1. PICK E, N : E = Lists!ToSet(Lists!Entitlements) /\ N = Lists!Items
      OBVIOUS
    <2>2. todo' \in Seq(E) /\ Lists!ToSet(todo') = E /\ \A i \in N : i \in E
      BY <1>1, <1>2, <1>4, <2>1, ListsEntitlements
    <2>3. Lists!Items' = N /\ Lists!ToSet(Lists!Entitlements)' = E
      BY <1>1, <2>1, ItemsStay
    <2>4. Lists!ToSet(todo)' = Lists!ToSet(todo')
      BY DEF Lists!ToSet
    <2>5. seen' = <<>> /\ seen' \in Seq(N) /\ status' = 0
      BY <1>1, <1>2, <1>4, EmptySeq
    <2> QED
      BY <2>2, <2>3, <2>4, <2>5 DEF Lists!ItemsAreKept, Lists!STATE_OK
  <1>5. ASSUME pc' = "calls", given.plugin = "check_rhn_entitlements"
        PROVE  todo' # <<>> /\ todo' \in Seq(Lists!RhnCalls')
    <2>1. todo # <<>> /\ todo \in Seq(Lists!RhnCalls) /\ Len(todo) > 1 /\ todo' = Tail(todo)
      BY <1>1, <1>2, <1>5 DEF Lists!IInv
    <2>2. todo' \in Seq(Lists!RhnCalls) /\ Len(todo') = Len(todo) - 1 /\ Len(todo) \in Nat
      BY <2>1, TailFacts
    <2>3. todo' # <<>>
      <3>1. PICK c : c = todo'
        OBVIOUS
      <3>2. c \in Seq(Lists!RhnCalls) /\ Len(c) # 0
        BY <2>1, <2>2, <3>1
      <3>3. c # <<>>
        BY <3>2, TopFacts
      <3> QED
        BY <3>1, <3>3
    <2> QED
      BY <2>2, <2>3 DEF Lists!RhnCalls
  <1> QED
    BY <1>1, <1>2, <1>3, <1>4, <1>5 DEF Lists!IInv, Lists!STATE_OK, Lists!STATE_WARNING, Lists!STATE_CRITICAL

LEMMA ListsStep ==
    ASSUME Lists!IInv, [Lists!Next]_(Lists!vars)
    PROVE  Lists!IInv'
  <1> DEFINE C == given.plugin = "check_cups_jobs"
             R == given.plugin = "check_rhn_entitlements"
             A == IF given.plugin = "check_koji_builder" THEN Lists!check_koji_builder
                  ELSE Lists!get_status(given.time, given.times)
  <1> USE DEF Lists!Leave, Lists!Crash
  <1>1. status \in {0, 1, 2} /\ given \in ListWorlds
    BY DEF Lists!IInv, Lists!STATE_OK, Lists!STATE_WARNING, Lists!STATE_CRITICAL
  <1>2. /\ Lists!STATE_OK = 0 /\ Lists!STATE_WARNING = 1 /\ Lists!STATE_CRITICAL = 2
        /\ Lists!STATE_OK' = 0 /\ Lists!STATE_WARNING' = 1 /\ Lists!STATE_CRITICAL' = 2
    BY DEF Lists!STATE_OK, Lists!STATE_WARNING, Lists!STATE_CRITICAL
  <1>3. given' = given => /\ Lists!get_status(given.time, given.times)' = Lists!get_status(given.time, given.times)
                          /\ Lists!check_koji_builder' = Lists!check_koji_builder
    BY DEF Lists!get_status, Lists!check_koji_builder, Lists!Outside, Lists!NONE, Lists!STATE_OK,
           Lists!STATE_WARNING, Lists!STATE_CRITICAL
  <1>4. CASE UNCHANGED Lists!vars
    <2>1. given' = given /\ todo' = todo /\ seen' = seen /\ status' = status /\ pc' = pc /\ code' = code
      BY <1>4 DEF Lists!vars
    <2>2. (Lists!PrintersAreKept => Lists!PrintersAreKept') /\ (Lists!ItemsAreKept => Lists!ItemsAreKept')
      BY <2>1, ListsStay
    <2> QED
      BY <1>2, <1>3, <2>1, <2>2 DEF Lists!IInv, Lists!RhnCalls
  <1>5. ASSUME given' = given, status' = status, pc' \notin {"run", "exited"},
               pc' \in {"start", "calls"} => pc \in {"start", "calls"},
               pc' = "calls" /\ R => todo' # <<>> /\ todo' \in Seq(Lists!RhnCalls')
        PROVE  Lists!IInv'
    BY <1>2, <1>5 DEF Lists!IInv
  <1>6. CASE Lists!process_arguments
    <2>1. /\ given' = given /\ status' = status /\ pc = "start" /\ pc' \in {"usage", "calls"}
          /\ pc' = "calls" => todo' = Lists!Calls
      BY <1>6 DEF Lists!process_arguments
    <2>2. Lists!RhnCalls' = Lists!RhnCalls
      BY DEF Lists!RhnCalls
    <2> QED
      BY <1>5, <2>1, <2>2, ListsRhnCalls
  <1>7. CASE Lists!Call
    BY <1>7, ListsCall
  <1>8. CASE Lists!Fail
    <2>1. /\ given' = given /\ status' = status /\ pc = "calls" /\ (C => ~given.alive)
          /\ pc' \in {"run", "failed", "crashed"}
      BY <1>8 DEF Lists!Fail
    <2>2. pc' = "run" => Head(todo) = "cupsGetDests"
      BY <1>8 DEF Lists!Fail
    <2>3. ASSUME R
          PROVE  Head(todo) \in Lists!RhnCalls
      <3>1. todo # <<>> /\ todo \in Seq(Lists!RhnCalls)
        BY <2>1, <2>3 DEF Lists!IInv
      <3> QED
        BY <3>1, TailFacts
    <2>4. pc' = "run" => ~R
      BY <2>2, <2>3 DEF Lists!RhnCalls
    <2>5. CASE pc' = "run"
      <3>1. /\ given' = given /\ status' = status /\ pc' = "run" /\ ~R /\ (C => ~given.alive)
        BY <2>1, <2>4, <2>5
      <3> QED
        BY <1>1, <1>2, <3>1 DEF Lists!IInv
    <2>6. CASE pc' # "run"
      BY <1>5, <2>1, <2>6
    <2> QED
      BY <2>5, <2>6
  <1>9. CASE Lists!cupsGetJobs
    <2>1. given' = given /\ pc' = pc /\ pc = "run" /\ C
      BY <1>9 DEF Lists!cupsGetJobs
    <2> QED
      BY <1>2, <1>9, <2>1, ListsPrinter DEF Lists!IInv
  <1>10. CASE Lists!check_cups_jobs
    <2>1. /\ given' = given /\ todo' = todo /\ seen' = seen /\ status' = status /\ pc' = "exited" /\ pc = "run" /\ C
          /\ todo = <<>>
          /\ code' = IF given.summerize THEN Lists!Worst(status, Lists!get_status(seen[1], given.counts)) ELSE status
      BY <1>10 DEF Lists!check_cups_jobs
    <2>2. Lists!Worst(status, Lists!get_status(seen[1], given.counts)) = 0 => status = 0
      BY <1>1, ListsStatus, WorstFacts
    <2>3. Lists!PrintersAreKept => Lists!PrintersAreKept'
      BY <2>1, ListsStay
    <2>4. IF given.summerize THEN code' = 0 => status' = 0 ELSE code' = status'
      BY <2>1, <2>2
    <2> QED
      BY <1>2, <2>1, <2>3, <2>4 DEF Lists!IInv
  <1>11. CASE Lists!Entitlement
    <2>1. given' = given /\ (pc' = pc \/ pc' = "failed") /\ pc = "run" /\ R
      BY <1>11 DEF Lists!Entitlement
    <2> QED
      BY <1>2, <1>11, <2>1, ListsItem DEF Lists!IInv
  <1>12. CASE Lists!check_rhn_entitlements
    <2>1. /\ given' = given /\ todo' = todo /\ seen' = seen /\ status' = status /\ pc = "run" /\ R /\ todo = <<>>
          /\ \/ pc' = "crashed"
             \/ pc' = "exited" /\ seen # <<>> /\ code' = status
      BY <1>12 DEF Lists!check_rhn_entitlements
    <2>2. Lists!ItemsAreKept => Lists!ItemsAreKept'
      BY <2>1, ListsStay
    <2> QED
      BY <1>2, <2>1, <2>2 DEF Lists!IInv
  <1>13. CASE Lists!Report
    <2>1. /\ given' = given /\ status' = status /\ pc' = "exited" /\ pc = "run" /\ ~C /\ ~R
          /\ given.plugin = "check_koji_builder" => code' = Lists!check_koji_builder
          /\ given.plugin \in {"check_smb_share", "check_koji_hub"} =>
                code' = Lists!get_status(given.time, given.times)
      BY <1>13 DEF Lists!Report, Lists!check_smb_share, Lists!check_koji_hub
    <2> QED
      BY <1>2, <1>3, <2>1 DEF Lists!IInv
  <1>14. CASE Lists!Alarm
    <2>1. given' = given /\ status' = status /\ pc' = "alarmed"
      BY <1>14 DEF Lists!Alarm
    <2> QED
      BY <1>5, <2>1
  <1>15. CASE Lists!Terminated
    BY <1>4, <1>15 DEF Lists!Terminated
  <1> QED
    BY <1>4, <1>6, <1>7, <1>8, <1>9, <1>10, <1>11, <1>12, <1>13, <1>14, <1>15 DEF Lists!Next

(* A number that is not negative is fine exactly where its status is OK. *)
LEMMA ListsFine ==
    ASSUME NEW v \in Nat, NEW l, Lists!LegalLimits(l)
    PROVE  Lists!get_status(v, l) = 0 <=> Lists!Fine(v, l)
  <1>1. PICK w, c : w = l.warn /\ c = l.crit
    OBVIOUS
  <1>2. w \in {-1} \cup Nat /\ c \in {-1} \cup Nat
    BY <1>1 DEF Lists!LegalLimits, Lists!Limit, Lists!NONE
  <1>3. Lists!get_status(v, l) = 0 <=> ~(c # -1 /\ (v < 0 \/ v > c)) /\ ~(w # -1 /\ (v < 0 \/ v > w))
    BY <1>1 DEF Lists!get_status, Lists!Outside, Lists!NONE, Lists!STATE_OK, Lists!STATE_WARNING,
                Lists!STATE_CRITICAL
  <1>4. Lists!Fine(v, l) <=> (w # -1 => v <= w) /\ (c # -1 => v <= c)
    BY <1>1 DEF Lists!Fine, Lists!NONE
  <1> QED
    BY <1>2, <1>3, <1>4

(* What a printer adds is nothing if its jobs are few and young. *)
LEMMA PrinterIsFine ==
    ASSUME NEW d, d.jobs = <<Lists!NONE>> \/ d.jobs \in Seq(Nat),
           Lists!LegalLimits(given.times), Lists!LegalLimits(given.counts)
    PROVE  /\ Lists!Ages(d) = 0 <=> Lists!Young(d)
           /\ Lists!get_status(Lists!JobsOf(d), given.counts) = 0 <=>
                Lists!Readable(d) /\ (d.jobs # <<Lists!NONE>> => Lists!Fine(Len(d.jobs), given.counts))
  <1>1. CASE d.jobs = <<Lists!NONE>>
    <2>1. Lists!JobsOf(d) = -1 /\ Lists!Young(d)
      BY <1>1 DEF Lists!JobsOf, Lists!Young
    <2>2. Lists!Ages(d) = 0
      <3>1. \A k \in 1 .. -1 : FALSE
        OBVIOUS
      <3> QED
        BY <2>1, <3>1, ListsAges
    <2>3. Lists!get_status(-1, given.counts) = 0 <=> given.counts.warn = -1 /\ given.counts.crit = -1
      BY DEF Lists!get_status, Lists!Outside, Lists!NONE, Lists!STATE_OK, Lists!STATE_WARNING,
             Lists!STATE_CRITICAL
    <2>4. Lists!Readable(d) <=> given.counts.warn = -1 /\ given.counts.crit = -1
      BY <1>1 DEF Lists!Readable, Lists!NONE
    <2> QED
      BY <1>1, <2>1, <2>2, <2>3, <2>4
  <1>2. CASE d.jobs # <<Lists!NONE>>
    <2>1. PICK n : n = Len(d.jobs)
      OBVIOUS
    <2>2. n \in Nat /\ DOMAIN d.jobs = 1 .. n /\ (\A k \in 1 .. n : d.jobs[k] \in Nat) /\ Lists!JobsOf(d) = n
      BY <1>2, <2>1, TopFacts DEF Lists!JobsOf
    <2>3. Lists!Young(d) <=> \A k \in 1 .. n : Lists!Fine(d.jobs[k], given.times)
      BY <1>2, <2>2 DEF Lists!Young
    <2>4. \A k \in 1 .. n : Lists!get_status(d.jobs[k], given.times) = 0 <=> Lists!Fine(d.jobs[k], given.times)
      BY <2>2, ListsFine
    <2>5. Lists!Ages(d) = 0 <=> Lists!Young(d)
      BY <2>2, <2>3, <2>4, ListsAges
    <2>6. Lists!get_status(n, given.counts) = 0 <=> Lists!Fine(n, given.counts)
      BY <2>2, ListsFine
    <2>7. Lists!Readable(d)
      BY <1>2 DEF Lists!Readable
    <2> QED
      BY <1>2, <2>1, <2>2, <2>5, <2>6, <2>7
  <1> QED
    BY <1>1, <1>2

(* What an entitlement adds, in the words of the manual: for a limit that means them. *)
LEMMA ItemIsScarce ==
    ASSUME NEW i, i.total_slots \in Int, i.used_slots \in Int,
           given.limits.warn.n \in Int, given.limits.crit.n \in Int
    PROVE  LET warn == given.limits.warn
               crit == given.limits.crit
           IN  /\ Lists!OfItem(i) \in {0, 1, 2}
               /\ Lists!Meant(i, crit) /\ Lists!Scarce(i, crit) => Lists!OfItem(i) = 2
               /\ Lists!Meant(i, warn) /\ Lists!Scarce(i, warn) => Lists!OfItem(i) # 0
               /\ (\A l \in {warn, crit} : Lists!Meant(i, l) /\ ~Lists!Scarce(i, l)) => Lists!OfItem(i) = 0
  <1>1. PICK v, warn, crit : /\ v = i.total_slots - i.used_slots
                             /\ warn = given.limits.warn /\ crit = given.limits.crit
    OBVIOUS
  <1>2. v \in Int /\ warn.n \in Int /\ crit.n \in Int
    BY <1>1
  <1>3. ASSUME NEW l, l.n \in Int, Lists!Meant(i, l)
        PROVE  Lists!Free(v, l) <=> Lists!Scarce(i, l)
    <2>1. Lists!Scarce(i, l) <=> v < l.n
      BY <1>1 DEF Lists!Scarce, Lists!Left
    <2>2. l.colon \/ (v >= 0 /\ v # l.n)
      BY <1>1, <1>3 DEF Lists!Meant, Lists!Left
    <2>3. Lists!Free(v, l) <=> IF l.colon THEN v < l.n ELSE v >= 0 /\ v <= l.n
      BY DEF Lists!Free
    <2> QED
      BY <1>2, <1>3, <2>1, <2>2, <2>3
  <1>4. Lists!OfItem(i) = IF Lists!Free(v, crit) THEN 2 ELSE IF Lists!Free(v, warn) THEN 1 ELSE 0
    BY <1>1 DEF Lists!OfItem, Lists!rhn_status, Lists!STATE_OK, Lists!STATE_WARNING, Lists!STATE_CRITICAL
  <1> QED
    BY <1>1, <1>2, <1>3, <1>4

LEMMA ListsAreJudged ==
    ASSUME Lists!IInv
    PROVE  Lists!ListIsJudged
  <1> SUFFICES ASSUME pc = "exited"
               PROVE  Lists!ListIsJudged
    BY DEF Lists!ListIsJudged
  <1>1. given \in ListWorlds /\ Lists!Legal(given) /\ Lists!STATE_OK = 0
    BY VerdictsAssumption DEF Lists!IInv, Lists!STATE_OK
  <1>2. CASE given.plugin = "check_cups_jobs"
    <2>1. ASSUME given.alive
          PROVE  /\ code = 0 => \A d \in Lists!Watched : Lists!Young(d)
                 /\ ~given.summerize =>
                     (code = 0 <=>
                        \A d \in Lists!Watched :
                            /\ Lists!Readable(d) /\ Lists!Young(d)
                            /\ d.jobs # <<Lists!NONE>> => Lists!Fine(Len(d.jobs), given.counts))
      <3>1. /\ Lists!PrintersAreKept /\ todo = <<>> /\ status \in {0, 1, 2}
            /\ IF given.summerize THEN code = 0 => status = 0 ELSE code = status
        BY <1>2, <2>1 DEF Lists!IInv, Lists!STATE_OK, Lists!STATE_WARNING, Lists!STATE_CRITICAL
      <3>2. Lists!ToSet(<<>>) = {}
        BY ZonesNothing, ListsToSet
      <3>3. /\ \A d \in Lists!Watched : Lists!OfPrinter(d) <= status
            /\ status = 0 \/ \E d \in Lists!Watched : status = Lists!OfPrinter(d)
        BY <3>1, <3>2 DEF Lists!PrintersAreKept, Lists!STATE_OK
      <3>4. status = 0 <=> \A d \in Lists!Watched : Lists!OfPrinter(d) = 0
        BY <3>1, <3>3, ListsOfPrinter
      <3>5. Lists!LegalLimits(given.times) /\ Lists!LegalLimits(given.counts) /\ Lists!LegalPrinters(given.server)
        BY <1>1, <1>2 DEF Lists!Legal
      <3>6. \A d \in Lists!Watched : d.jobs = <<Lists!NONE>> \/ d.jobs \in Seq(Nat)
        BY <3>5 DEF Lists!LegalPrinters, Lists!Watched
      <3>7. \A d \in Lists!Watched :
                /\ Lists!Ages(d) = 0 <=> Lists!Young(d)
                /\ Lists!get_status(Lists!JobsOf(d), given.counts) = 0 <=>
                     Lists!Readable(d) /\ (d.jobs # <<Lists!NONE>> => Lists!Fine(Len(d.jobs), given.counts))
        BY <3>5, <3>6, PrinterIsFine
      <3>8. \A d \in Lists!Watched :
                Lists!OfPrinter(d) = 0 <=>
                 /\ given.summerize \/ Lists!get_status(Lists!JobsOf(d), given.counts) = 0
                 /\ Lists!Ages(d) = 0
        BY ListsOfPrinter
      <3>9. code = 0 => status = 0
        BY <3>1
      <3> QED
        BY <3>1, <3>4, <3>7, <3>8, <3>9
    <2> QED
      BY <1>1, <1>2, <2>1 DEF Lists!ListIsJudged
  <1>3. CASE given.plugin = "check_rhn_entitlements"
    <2>1. /\ Lists!ItemsAreKept /\ todo = <<>> /\ seen # <<>> /\ code = status
      BY <1>3 DEF Lists!IInv
    <2>2. Lists!ToSet(<<>>) = {}
      BY ZonesNothing, ListsToSet
    <2>3. /\ \A i \in Lists!Items : Lists!OfItem(i) <= code
          /\ \E i \in Lists!Items : code = Lists!OfItem(i)
      BY <2>1, <2>2 DEF Lists!ItemsAreKept
    <2>4. /\ Lists!LegalItems(given.system, "system") /\ Lists!LegalItems(given.channel, "channel")
          /\ given.limits.warn.n \in Int /\ given.limits.crit.n \in Int
      BY <1>1, <1>3 DEF Lists!Legal
    <2>5. \A i \in Lists!Items : i.total_slots \in Int /\ i.used_slots \in Int
      BY <2>4 DEF Lists!LegalItems, Lists!Items
    <2> DEFINE warn == given.limits.warn
               crit == given.limits.crit
    <2>6. \A i \in Lists!Items :
            /\ Lists!OfItem(i) \in {0, 1, 2}
            /\ Lists!Meant(i, crit) /\ Lists!Scarce(i, crit) => Lists!OfItem(i) = 2
            /\ Lists!Meant(i, warn) /\ Lists!Scarce(i, warn) => Lists!OfItem(i) # 0
            /\ (\A l \in {warn, crit} : Lists!Meant(i, l) /\ ~Lists!Scarce(i, l)) => Lists!OfItem(i) = 0
      BY <2>4, <2>5, ItemIsScarce
    <2>7. code \in {0, 1, 2} /\ Lists!Items # {}
      BY <2>3, <2>6
    <2>8. \A i \in Lists!Items : /\ Lists!OfItem(i) = 2 => code = 2
                                 /\ Lists!OfItem(i) # 0 => code # 0
      BY <2>3, <2>6, <2>7
    <2>9. /\ \A i \in Lists!Items : Lists!Meant(i, crit) /\ Lists!Scarce(i, crit) => code = 2
          /\ \A i \in Lists!Items : Lists!Meant(i, warn) /\ Lists!Scarce(i, warn) => code # 0
      BY <2>6, <2>8
    <2>10. ASSUME \A l \in {warn, crit}, i \in Lists!Items : Lists!Meant(i, l) /\ ~Lists!Scarce(i, l)
           PROVE  code = 0
      <3>1. \A i \in Lists!Items : \A l \in {warn, crit} : Lists!Meant(i, l) /\ ~Lists!Scarce(i, l)
        BY <2>10
      <3> QED
        BY <2>3, <2>6, <3>1
    <2> QED
      BY <1>1, <1>3, <2>7, <2>9, <2>10 DEF Lists!ListIsJudged, Lists!STATE_CRITICAL
  <1>4. CASE given.plugin = "check_koji_builder"
    <2>1. given.enabled \in BOOLEAN /\ given.ready \in BOOLEAN
      BY <1>1, <1>4 DEF Lists!Legal
    <2>2. code = IF ~given.enabled THEN 2 ELSE IF ~given.ready THEN 1 ELSE 0
      BY <1>4 DEF Lists!IInv, Lists!check_koji_builder, Lists!STATE_OK, Lists!STATE_WARNING,
                  Lists!STATE_CRITICAL
    <2> QED
      BY <1>1, <1>4, <2>1, <2>2 DEF Lists!ListIsJudged
  <1>5. CASE given.plugin \notin {"check_cups_jobs", "check_rhn_entitlements", "check_koji_builder"}
    <2>1. /\ given.plugin \in {"check_smb_share", "check_koji_hub"}
          /\ given.time \in Nat /\ Lists!LegalLimits(given.times)
      BY <1>1, <1>5 DEF Lists!Legal
    <2>2. code = Lists!get_status(given.time, given.times)
      BY <2>1 DEF Lists!IInv
    <2>3. code = 0 <=> Lists!Fine(given.time, given.times)
      BY <2>1, <2>2, ListsFine
    <2> QED
      BY <1>1, <1>5, <2>3 DEF Lists!ListIsJudged
  <1> QED
    BY <1>2, <1>3, <1>4, <1>5

(* The checks that ask one server, for every answer that a server can give and all
   limits: OK if and only if what was asked for is fine, but for the cases that
   Query!Unclear and Lists!ListIsJudged name (days of an interval that two limits of
   an hour or more would tell apart, a silent print server, --summerize, limits
   without a colon at their boundary, and entitlements that the server does not list). *)
THEOREM OkWasTrue == VerdictsSpec => []OkIsTrue
  <1> DEFINE I == /\ check = "query" => Query!IInv
                  /\ check = "ldap" => Ldap!IInv
                  /\ check = "fcgi" => Fcgi!IInv
                  /\ check = "lists" => Lists!IInv
  <1>1. VerdictsInit => I
    BY QueryInit, LdapInit, FcgiInit, ListsInit DEF VerdictsInit
  <1>2. I /\ [VerdictsNext]_verdictVars => I'
    BY OneVerdict, QueryStep, LdapStep, FcgiStep, ListsStep
  <1>3. I => OkIsTrue
    BY QueryIsTrue, ListsAreJudged DEF OkIsTrue, Ldap!IInv, Ldap!QuietIsOk, Fcgi!IInv
  <1> QED
    BY <1>1, <1>2, <1>3, PTL DEF VerdictsSpec
====
