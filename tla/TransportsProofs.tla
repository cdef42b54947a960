--------------------------- MODULE TransportsProofs ---------------------------
(* Proofs about the conversations of the plugins, for every value of the
   constants.  One conversation runs at a time, so each component's invariant
   is shown to be kept by that component's steps.                           *)
EXTENDS MCTransports, SeqFacts

(* A conversation is not exchanged for another one, and its steps are those of
   its component. *)
LEMMA OneTalk ==
    ASSUME [Next]_vars
    PROVE  /\ talk' = talk
           /\ talk = "dhcp" => [Dhcp!Next]_(Dhcp!vars)
           /\ talk = "child" => [Child!Next]_(Child!vars)
           /\ talk = "modem" => [Modem!Next]_(Modem!vars)
           /\ talk = "net" => [Net!Next]_(Net!vars)
           /\ talk = "query" => [Query!Next]_(Query!vars)
  BY DEF Next, vars, BesidesDhcp, BesidesChild, BesidesModem, BesidesNet, BesidesQuery,
         dhcpOnly, childOnly, modemOnly, netOnly, queryOnly, Dhcp!vars, Child!vars, Child!given,
         Child!result, Modem!vars, Net!vars, Query!vars, Query!call, Query!agent

-----------------------------------------------------------------------------
(* check_dhcp                                                               *)

LEMMA DhcpInit ==
    ASSUME Dhcp!Init
    PROVE  Dhcp!IInv
  BY TransportsAssumption
     DEF Dhcp!Init, Dhcp!IInv, Dhcp!Types, Dhcp!Deadline, Dhcp!T, Dhcp!SilenceIsCritical

LEMMA DhcpStep ==
    ASSUME Dhcp!IInv, [Dhcp!Next]_(Dhcp!vars)
    PROVE  Dhcp!IInv'
  <1> USE DEF Dhcp!IInv, Dhcp!T, Dhcp!Deadline
  <1>0. options.mp_timeout \in Nat
    BY TransportsAssumption
  <1>1. CASE UNCHANGED Dhcp!vars
    BY <1>1 DEF Dhcp!vars, Dhcp!SilenceIsCritical, Dhcp!Ours
  <1>2. CASE Dhcp!Resolve \/ Dhcp!dhcp_setup
    BY <1>0, <1>2 DEF Dhcp!Resolve, Dhcp!dhcp_setup, Dhcp!Exit, Dhcp!SilenceIsCritical, Dhcp!STATE_OK,
                Dhcp!STATE_UNKNOWN, Dhcp!STATE_WARNING, Dhcp!STATE_CRITICAL
  <1>3. CASE Dhcp!mp_dhcp_send
    BY <1>0, <1>3 DEF Dhcp!mp_dhcp_send, Dhcp!Exit, Dhcp!SilenceIsCritical, Dhcp!STATE_OK, Dhcp!STATE_WARNING
  <1>4. CASE Dhcp!Receive
    <2>1. PICK p \in Dhcp!Packets :
            IF Dhcp!Dropped(p) THEN UNCHANGED <<pc, since, accepted, code>>
            ELSE IF ~Dhcp!Fits(p) THEN since' = now /\ UNCHANGED <<pc, accepted, code>>
            ELSE accepted' = p /\ Dhcp!Exit(Dhcp!STATE_OK) /\ UNCHANGED since
      BY <1>4 DEF Dhcp!Receive
    <2>2. p # Dhcp!NONE
      <3>1. p.type # "none" /\ Dhcp!NONE.type = "none"
        BY DEF Dhcp!Packets, Dhcp!Types, Dhcp!NONE
      <3> QED
        BY <3>1
    <2>3. CASE Dhcp!Dropped(p) \/ ~Dhcp!Fits(p)
      BY <1>0, <1>4, <2>1, <2>3 DEF Dhcp!Receive, Dhcp!SilenceIsCritical
    <2>4. CASE ~Dhcp!Dropped(p) /\ Dhcp!Fits(p)
      <3>1. accepted' = p /\ pc' = "exited" /\ UNCHANGED <<since, options, now>>
        BY <1>4, <2>1, <2>4 DEF Dhcp!Receive, Dhcp!Exit
      <3>2. options.hostent => Dhcp!FromHost(p)
        BY <2>4 DEF Dhcp!Fits
      <3> QED
        BY <2>2, <2>4, <3>1, <3>2 DEF Dhcp!SilenceIsCritical, Dhcp!Ours, Dhcp!Dropped, Dhcp!FromHost
    <2> QED
      BY <2>3, <2>4
  <1>5. CASE Dhcp!ReceiveFails
    BY <1>0, <1>5 DEF Dhcp!ReceiveFails, Dhcp!Silence, Dhcp!Exit, Dhcp!SilenceIsCritical
  <1>6. CASE Dhcp!SelectTimeout
    <2>1. options.mp_timeout = 0
      BY <1>0, <1>6 DEF Dhcp!SelectTimeout
    <2> QED
      BY <1>0, <1>6, <2>1 DEF Dhcp!SelectTimeout, Dhcp!Silence, Dhcp!Exit, Dhcp!SilenceIsCritical
  <1>7. CASE Dhcp!Alarm \/ Dhcp!Tick
    BY <1>0, <1>7 DEF Dhcp!Alarm, Dhcp!Tick, Dhcp!Exit, Dhcp!SilenceIsCritical, Dhcp!STATE_OK,
                      Dhcp!STATE_CRITICAL
  <1> QED
    BY <1>1, <1>2, <1>3, <1>4, <1>5, <1>6, <1>7 DEF Dhcp!Next, Dhcp!Terminated

(* The invariant of mp_dhcp_recv and the alarm. *)
THEOREM DhcpInvariant == Spec => [](talk = "dhcp" => Dhcp!IInv)
  <1>1. Init => (talk = "dhcp" => Dhcp!IInv)
    BY DhcpInit DEF Init
  <1>2. (talk = "dhcp" => Dhcp!IInv) /\ [Next]_vars => (talk = "dhcp" => Dhcp!IInv)'
    BY OneTalk, DhcpStep
  <1> QED
    BY <1>1, <1>2, PTL DEF Spec

(* With a timeout check_dhcp is OK only for an answer to its own request, of the
   host that is named as long as that is found. *)
THEOREM SilenceCritical == Spec => []SilenceIsCritical
  <1>1. (talk = "dhcp" => Dhcp!IInv) => SilenceIsCritical
    BY DEF Dhcp!IInv, SilenceIsCritical
  <1> QED
    BY <1>1, DhcpInvariant, PTL

-----------------------------------------------------------------------------
(* mp_snmp_query and mp_snmp_values_fetch1                                  *)

(* Leaving one place out keeps the others. *)
LEMMA RemoveFacts ==
    ASSUME NEW S, NEW s \in Seq(S), NEW i \in DOMAIN s
    PROVE  /\ Query!RemoveAt(s, i) \in Seq(S)
           /\ \A x \in S : (\E j \in DOMAIN s : s[j] = x) /\ x # s[i] =>
                 \E j \in DOMAIN Query!RemoveAt(s, i) : Query!RemoveAt(s, i)[j] = x
  <1> DEFINE n == Len(s)
             u == SubSeq(s, 1, i - 1)
             v == SubSeq(s, i + 1, n)
  <1>1. n \in Nat /\ DOMAIN s = 1 .. n /\ i \in 1 .. n /\ \A j \in 1 .. n : s[j] \in S
    BY TopFacts
  <1>2. /\ u \in Seq(S) /\ Len(u) = i - 1 /\ \A j \in 1 .. i - 1 : u[j] = s[j]
    <2>1. /\ u \in Seq(S)
          /\ Len(u) = IF 1 <= i - 1 THEN (i - 1) - 1 + 1 ELSE 0
          /\ \A j \in 1 .. (i - 1) - 1 + 1 : u[j] = s[1 + j - 1]
      BY <1>1, SubSeqProperties
    <2> QED
      BY <1>1, <2>1
  <1>3. /\ v \in Seq(S) /\ Len(v) = n - i /\ \A j \in 1 .. n - i : v[j] = s[i + j]
    <2>1. /\ v \in Seq(S)
          /\ Len(v) = IF i + 1 <= n THEN n - (i + 1) + 1 ELSE 0
          /\ \A j \in 1 .. n - (i + 1) + 1 : v[j] = s[(i + 1) + j - 1]
      BY <1>1, SubSeqProperties
    <2> HIDE DEF n, v
    <2>2. /\ n - (i + 1) + 1 = n - i /\ (IF i + 1 <= n THEN n - (i + 1) + 1 ELSE 0) = n - i
      BY <1>1
    <2>3. \A j \in 1 .. n - i : (i + 1) + j - 1 = i + j
      BY <1>1
    <2> QED
      BY <2>1, <2>2, <2>3
  <1>4. Query!RemoveAt(s, i) = u \o v
    BY DEF Query!RemoveAt
  <1> HIDE DEF n, u, v
  <1>5. /\ u \o v \in Seq(S)
        /\ \A j \in DOMAIN u : j \in DOMAIN (u \o v) /\ (u \o v)[j] = u[j]
        /\ \A j \in DOMAIN v : Len(u) + j \in DOMAIN (u \o v) /\ (u \o v)[Len(u) + j] = v[j]
    BY <1>2, <1>3, ConcatFacts
  <1>6. DOMAIN u = 1 .. i - 1 /\ DOMAIN v = 1 .. n - i
    BY <1>2, <1>3, TopFacts
  <1>7. ASSUME NEW j \in 1 .. n, j # i
        PROVE  \E l \in DOMAIN (u \o v) : (u \o v)[l] = s[j]
    <2>1. CASE j < i
      <3>1. j \in DOMAIN u /\ u[j] = s[j]
        BY <1>1, <1>2, <1>6, <1>7, <2>1
      <3> QED
        BY <3>1, <1>5
    <2>2. CASE j > i
      <3>1. j - i \in 1 .. n - i /\ i + (j - i) = j
        BY <1>1, <1>7, <2>2
      <3>2. j - i \in DOMAIN v /\ v[j - i] = s[j]
        BY <1>3, <1>6, <3>1
      <3> QED
        BY <3>2, <1>5
    <2> QED
      BY <1>1, <1>7, <2>1, <2>2
  <1> QED
    BY <1>1, <1>4, <1>5, <1>7

LEMMA ObjectFacts ==
    ASSUME Query!TypeOK
    PROVE  /\ DOMAIN pdu = 1 .. Len(pdu) /\ Len(pdu) \in Nat
           /\ \A k \in DOMAIN pdu : pdu[k] \in Query!Objects
           /\ pdu = <<>> <=> Len(pdu) = 0
  BY TopFacts DEF Query!TypeOK

LEMMA QueryInit ==
    ASSUME Query!Init
    PROVE  Query!IInv
  <1>1. Wanted \in Seq(Query!Objects)
    <2>1. /\ Wanted \in Seq(STRING) /\ Len(Wanted) \in Nat /\ DOMAIN Wanted = 1 .. Len(Wanted)
      BY TransportsAssumption, TopFacts
    <2>2. \A k \in 1 .. Len(Wanted) : Wanted[k] \in Query!Objects
      BY <2>1 DEF Query!Objects, Query!ToSet
    <2> QED
      BY <2>1, <2>2, SeqDef
  <1>2. Query!TypeOK
    BY <1>1 DEF Query!Init, Query!TypeOK
  <1>3. Query!OnlyBlamedAreDropped
    BY DEF Query!Init, Query!OnlyBlamedAreDropped, Query!Objects
  <1> QED
    BY <1>2, <1>3 DEF Query!Init, Query!IInv, Query!AnswerHasSteady, Query!SuccessHasValues,
                      Query!DefaultsAreKept

(* A step in which the query neither ends nor gets an answer. *)
LEMMA QuerySilent ==
    ASSUME Query!IInv, Query!TypeOK', pc' \in {"send", "agent"}, pc # "done",
           Query!OnlyBlamedAreDropped'
    PROVE  Query!IInv'
  BY DEF Query!IInv, Query!TypeOK, Query!AnswerHasSteady, Query!SuccessHasValues, Query!DefaultsAreKept

(* The agent's objects change. *)
LEMMA QueryChange ==
    ASSUME Query!IInv, NEW o \in Query!Objects, NEW s \in {"absent", "right", "wrong"}, Query!Change(o, s)
    PROVE  Query!IInv'
  <1>1. Query!TypeOK'
    BY DEF Query!IInv, Query!TypeOK, Query!Change, Query!call
  <1>2. Query!OnlyBlamedAreDropped' /\ Query!AnswerHasSteady'
    BY DEF Query!IInv, Query!OnlyBlamedAreDropped, Query!AnswerHasSteady, Query!Change, Query!call
  <1>3. Query!SuccessHasValues' /\ Query!DefaultsAreKept'
    BY DEF Query!IInv, Query!SuccessHasValues, Query!DefaultsAreKept, Query!Change, Query!call
  <1> QED
    BY <1>1, <1>2, <1>3 DEF Query!IInv

(* An answer: every steady object has its right type now. *)
LEMMA QueryAnswer ==
    ASSUME Query!IInv, NEW e, NEW i, Query!Answer(e, i), i = 0 \/ i \in DOMAIN pdu,
           i = 0 => e \in {Query!NOERROR, Query!TOOBIG}
    PROVE  Query!IInv'
  <1> DEFINE vs == [k \in DOMAIN pdu |-> [name |-> pdu[k], type |-> mib[pdu[k]]]]
  <1>0. Query!TypeOK /\ Query!OnlyBlamedAreDropped
    BY DEF Query!IInv
  <1>1. /\ pc = "agent" /\ pc' = "response" /\ UNCHANGED <<func, version, mib, changes, steady, pdu, target, rc>>
        /\ response'.errstat = e /\ response'.errindex = i /\ response'.variables = vs
        /\ blamed' = IF i = 0 THEN blamed ELSE blamed \cup {pdu[i]}
    BY DEF Query!Answer, Query!call, Query!agent
  <1>2. Query!TypeOK'
    BY <1>0, <1>1 DEF Query!TypeOK
  <1>3. Query!OnlyBlamedAreDropped'
    BY <1>0, <1>1 DEF Query!OnlyBlamedAreDropped
  <1>4. ASSUME NEW o \in steady \ blamed'
        PROVE  \E k \in DOMAIN vs : vs[k] = [name |-> o, type |-> "right"]
    <2>1. o \in Query!Objects /\ mib[o] = "right" /\ o \notin blamed
      BY <1>0, <1>1, <1>4 DEF Query!TypeOK
    <2>2. PICK k \in DOMAIN pdu : pdu[k] = o
      BY <1>0, <2>1 DEF Query!OnlyBlamedAreDropped, Query!ToSet
    <2> QED
      BY <2>1, <2>2
  <1>5. \A k \in DOMAIN vs : vs[k] = [name |-> vs[k].name, type |-> vs[k].type]
    OBVIOUS
  <1> HIDE DEF vs
  <1>6. i # 0 => pdu[i] \in blamed' /\ i \in DOMAIN pdu
    BY <1>1
  <1>7. Query!AnswerHasSteady'
    BY <1>1, <1>4, <1>5, <1>6 DEF Query!AnswerHasSteady
  <1>8. Query!SuccessHasValues' /\ Query!DefaultsAreKept'
    BY <1>0, <1>1 DEF Query!SuccessHasValues, Query!DefaultsAreKept, Query!TypeOK
  <1> QED
    BY <1>2, <1>3, <1>7, <1>8 DEF Query!IInv

LEMMA QueryReplies ==
    ASSUME Query!IInv, Query!Reply
    PROVE  Query!IInv'
  <1>0. Query!TypeOK
    BY DEF Query!IInv
  <1>1. CASE Query!Get
    <2>1. CASE Query!Missing # {} /\ Query!Answer(Query!NOSUCHNAME, Query!Min(Query!Missing))
      <3>1. Query!Missing \subseteq Nat /\ Query!Missing \subseteq DOMAIN pdu
        BY <1>0, ObjectFacts DEF Query!Missing
      <3>2. \E x \in Query!Missing : \A y \in Query!Missing : x <= y
        BY <2>1, <3>1, LeastNat
      <3> DEFINE m == Query!Min(Query!Missing)
      <3>3. m \in Query!Missing
        BY <3>2 DEF Query!Min
      <3> HIDE DEF m
      <3>4. m \in DOMAIN pdu /\ DOMAIN pdu = 1 .. Len(pdu) /\ Len(pdu) \in Nat
        BY <1>0, <3>1, <3>3, ObjectFacts
      <3>5. m # 0
        BY <3>4
      <3>6. Query!Answer(Query!NOSUCHNAME, m)
        BY <2>1 DEF m
      <3> QED
        BY <3>4, <3>5, <3>6, QueryAnswer
    <2>2. CASE Query!Answer(Query!NOERROR, 0)
      BY <2>2, QueryAnswer
    <2> QED
      BY <1>1, <2>1, <2>2 DEF Query!Get
  <1>2. CASE Query!GenErr
    <2>1. PICK i \in DOMAIN pdu : Query!Answer(Query!GENERR, i)
      BY <1>2 DEF Query!GenErr
    <2>2. i # 0
      BY <1>0, ObjectFacts
    <2> QED
      BY <2>1, <2>2, QueryAnswer
  <1>3. CASE Query!TooBig
    BY <1>3, QueryAnswer DEF Query!TooBig
  <1>4. CASE Query!Lost
    <2>1. Query!TypeOK'
      BY <1>0, <1>4 DEF Query!TypeOK, Query!Lost, Query!call, Query!agent
    <2> QED
      BY <1>0, <1>4, <2>1
         DEF Query!IInv, Query!Lost, Query!TypeOK, Query!OnlyBlamedAreDropped, Query!AnswerHasSteady,
             Query!SuccessHasValues, Query!DefaultsAreKept, Query!call, Query!agent, Query!STAT_SUCCESS,
             Query!STAT_ERROR
  <1> QED
    BY <1>1, <1>2, <1>3, <1>4 DEF Query!Reply

LEMMA QueryRetry ==
    ASSUME Query!IInv, Query!Retry
    PROVE  Query!IInv'
  <1> DEFINE i == response.errindex
  <1>0. Query!TypeOK /\ Query!OnlyBlamedAreDropped /\ Query!AnswerHasSteady
    BY DEF Query!IInv
  <1>1. i \in DOMAIN pdu /\ pdu[i] \in blamed /\ pdu \in Seq(Query!Objects)
    BY <1>0 DEF Query!AnswerHasSteady, Query!TypeOK, Query!Retry
  <1>2. /\ UNCHANGED <<func, version, mib, changes, steady, target, blamed>>
        /\ pdu' = Query!RemoveAt(pdu, i) /\ pc = "response" /\ response' = Query!NoResponse
        /\ IF pdu' = <<>>
           THEN pc' = "done" /\ rc' = IF func = "mp_snmp_query" THEN Query!STAT_SUCCESS ELSE Query!STAT_ERROR
           ELSE pc' = "send" /\ rc' = rc
    BY DEF Query!Retry, Query!call, Query!agent
  <1> HIDE DEF i
  <1>3. /\ pdu' \in Seq(Query!Objects)
        /\ \A o \in Query!Objects : (\E j \in DOMAIN pdu : pdu[j] = o) /\ o # pdu[i] =>
              \E j \in DOMAIN pdu' : pdu'[j] = o
    <2> DEFINE S == Query!Objects
               t == Query!RemoveAt(pdu, i)
    <2> HIDE DEF S, t
    <2>1. pdu \in Seq(S) /\ i \in DOMAIN pdu
      BY <1>1 DEF S
    <2>2. /\ t \in Seq(S)
          /\ \A o \in S : (\E j \in DOMAIN pdu : pdu[j] = o) /\ o # pdu[i] => \E j \in DOMAIN t : t[j] = o
      BY <2>1, RemoveFacts DEF t
    <2> QED
      BY <1>2, <2>2 DEF S, t
  <1>4. Query!OnlyBlamedAreDropped'
    <2> SUFFICES ASSUME NEW o \in Query!Objects, o \notin blamed
                 PROVE  \E j \in DOMAIN pdu' : pdu'[j] = o
      BY <1>2 DEF Query!OnlyBlamedAreDropped, Query!ToSet
    <2>1. \E j \in DOMAIN pdu : pdu[j] = o
      BY <1>0 DEF Query!OnlyBlamedAreDropped, Query!ToSet
    <2> QED
      BY <1>1, <1>3, <2>1
  <1>5. Query!TypeOK'
    BY <1>0, <1>2, <1>3 DEF Query!TypeOK
  <1>6. CASE pc' = "send"
    BY <1>2, <1>4, <1>5, <1>6, QuerySilent
  <1>7. CASE pdu' = <<>>
    <2>1. Query!Objects \subseteq blamed'
      BY <1>4, <1>7 DEF Query!OnlyBlamedAreDropped, Query!ToSet
    <2>2. steady' \subseteq Query!Objects
      BY <1>5 DEF Query!TypeOK
    <2>3. Query!SuccessHasValues'
      BY <2>1, <2>2 DEF Query!SuccessHasValues
    <2>4. Query!DefaultsAreKept'
      BY <1>0, <1>2 DEF Query!DefaultsAreKept, Query!TypeOK
    <2> QED
      BY <1>2, <1>4, <1>5, <1>7, <2>3, <2>4 DEF Query!IInv, Query!AnswerHasSteady
  <1> QED
    BY <1>2, <1>6, <1>7

LEMMA QueryStore ==
    ASSUME Query!IInv, Query!Store
    PROVE  Query!IInv'
  <1>0. Query!TypeOK /\ Query!OnlyBlamedAreDropped /\ Query!AnswerHasSteady
    BY DEF Query!IInv
  <1>1. /\ UNCHANGED <<func, version, mib, changes, steady, pdu, response, rc, blamed>>
        /\ pc = "response" /\ pc' = "done"
        /\ target' = [o \in Query!Objects |->
              IF \E k \in DOMAIN response.variables :
                    response.variables[k].name = o /\ response.variables[k].type = "right"
              THEN "value" ELSE target[o]]
    BY DEF Query!Store, Query!call, Query!agent, Query!copy_value
  <1>2. target = [o \in Query!Objects |-> "default"] /\ rc = Query!STAT_SUCCESS
    BY <1>0, <1>1 DEF Query!TypeOK
  <1>3. Query!TypeOK'
    BY <1>0, <1>1, <1>2 DEF Query!TypeOK
  <1>4. Query!OnlyBlamedAreDropped'
    BY <1>0, <1>1 DEF Query!OnlyBlamedAreDropped
  <1>5. ASSUME NEW o \in steady \ blamed
        PROVE  target'[o] = "value"
    <2>1. PICK k \in DOMAIN response.variables : response.variables[k] = [name |-> o, type |-> "right"]
      BY <1>0, <1>1, <1>5 DEF Query!AnswerHasSteady
    <2>2. response.variables[k].name = o /\ response.variables[k].type = "right" /\ o \in Query!Objects
      BY <1>0, <2>1 DEF Query!TypeOK
    <2> QED
      BY <1>1, <2>2
  <1>6. ASSUME NEW o \in Query!Objects, target'[o] = "value"
        PROVE  \E k \in DOMAIN response.variables : response.variables[k] = [name |-> o, type |-> "right"]
    <2>1. PICK k \in DOMAIN response.variables :
             response.variables[k].name = o /\ response.variables[k].type = "right"
      BY <1>1, <1>2, <1>6
    <2>2. response.variables[k] = [name |-> response.variables[k].name, type |-> response.variables[k].type]
      BY <1>0, <1>1 DEF Query!AnswerHasSteady
    <2> QED
      BY <2>1, <2>2
  <1>7. Query!SuccessHasValues'
    BY <1>1, <1>5 DEF Query!SuccessHasValues
  <1>8. Query!DefaultsAreKept'
    BY <1>1, <1>2, <1>6 DEF Query!DefaultsAreKept
  <1> QED
    BY <1>1, <1>3, <1>4, <1>7, <1>8 DEF Query!IInv, Query!AnswerHasSteady

LEMMA QueryOtherError ==
    ASSUME Query!IInv, Query!OtherError
    PROVE  Query!IInv'
  <1>0. Query!TypeOK /\ Query!OnlyBlamedAreDropped /\ Query!AnswerHasSteady
    BY DEF Query!IInv
  <1>1. /\ UNCHANGED <<func, version, mib, changes, steady, pdu, response, target, blamed>>
        /\ pc = "response" /\ pc' = "done" /\ response.errstat = Query!TOOBIG
        /\ rc' = IF func = "mp_snmp_query" THEN Query!STAT_SUCCESS ELSE Query!STAT_ERROR
    BY <1>0 DEF Query!OtherError, Query!call, Query!agent, Query!AnswerHasSteady
  <1>2. Query!TypeOK' /\ Query!OnlyBlamedAreDropped'
    BY <1>0, <1>1 DEF Query!TypeOK, Query!OnlyBlamedAreDropped
  <1>3. Query!SuccessHasValues'
    BY <1>1 DEF Query!SuccessHasValues, Query!STAT_SUCCESS, Query!STAT_ERROR
  <1>4. Query!DefaultsAreKept'
    BY <1>0, <1>1 DEF Query!DefaultsAreKept, Query!TypeOK
  <1> QED
    BY <1>1, <1>2, <1>3, <1>4 DEF Query!IInv, Query!AnswerHasSteady

LEMMA QueryStep ==
    ASSUME Query!IInv, [Query!Next]_(Query!vars)
    PROVE  Query!IInv'
  <1>1. CASE UNCHANGED Query!vars
    BY <1>1 DEF Query!vars, Query!call, Query!agent, Query!IInv, Query!TypeOK, Query!OnlyBlamedAreDropped,
                Query!AnswerHasSteady, Query!SuccessHasValues, Query!DefaultsAreKept
  <1>2. CASE Query!Send
    <2>1. Query!TypeOK' /\ Query!OnlyBlamedAreDropped' /\ pc = "send" /\ pc' = "agent"
      BY <1>2 DEF Query!IInv, Query!Send, Query!call, Query!agent, Query!TypeOK, Query!OnlyBlamedAreDropped
    <2> QED
      BY <2>1, QuerySilent
  <1> QED
    BY <1>1, <1>2, QueryChange, QueryReplies, QueryRetry, QueryStore, QueryOtherError
       DEF Query!Next, Query!Client, Query!Terminated

(* The invariant of the loop around snmp_synch_response. *)
THEOREM QueryInvariant == Spec => [](talk = "query" => Query!IInv)
  <1>1. Init => (talk = "query" => Query!IInv)
    BY QueryInit DEF Init
  <1>2. (talk = "query" => Query!IInv) /\ [Next]_vars => (talk = "query" => Query!IInv)'
    BY OneTalk, QueryStep
  <1> QED
    BY <1>1, <1>2, PTL DEF Spec

(* A successful query of mp_snmp_query or mp_snmp_values_fetch1 has stored every
   object that was there all the time and that no error of the agent named,
   whichever others came, went or were refused. *)
THEOREM SuccessIsComplete == Spec => []SuccessHasValues
  <1>1. (talk = "query" => Query!IInv) => SuccessHasValues
    BY DEF Query!IInv, SuccessHasValues
  <1> QED
    BY <1>1, QueryInvariant, PTL

(* copy_value writes a target only for an object of the right type, and a failed
   query writes none. *)
THEOREM DefaultsStay == Spec => []DefaultsAreKept
  <1>1. (talk = "query" => Query!IInv) => DefaultsAreKept
    BY DEF Query!IInv, DefaultsAreKept
  <1> QED
    BY <1>1, QueryInvariant, PTL

-----------------------------------------------------------------------------
(* The AT dialogue of notify_sms and check_gsm_signal                       *)

(* What the lines of a modem are told apart by. *)
LEMMA LineFacts ==
    /\ Modem!OK.kind = "OK" /\ Modem!ERROR.kind = "ERROR" /\ Modem!CMS.kind = "+CMS ERROR"
    /\ \A l \in Modem!Answers : l.kind = "answer" /\ l.value \in Modem!Values
    /\ \A c, v : /\ Modem!Line(c, v).kind = "answer"
                           /\ Modem!Line(c, v).cmd = c
                           /\ Modem!Line(c, v).value = v
  <1>1. Modem!OK.kind = "OK" /\ Modem!ERROR.kind = "ERROR" /\ Modem!CMS.kind = "+CMS ERROR"
    BY DEF Modem!OK, Modem!ERROR, Modem!CMS
  <1>2. \A c, v : /\ Modem!Line(c, v).kind = "answer"
                            /\ Modem!Line(c, v).cmd = c
                            /\ Modem!Line(c, v).value = v
    BY DEF Modem!Line
  <1>3. \A l \in Modem!Answers : \E c, v : l = Modem!Line(c, v)
    BY DEF Modem!Answers
  <1>4. \A l \in Modem!Answers : l.value \in Modem!Values
    BY DEF Modem!Values
  <1>5. \A l \in Modem!Answers : l.kind = "answer"
    BY <1>2, <1>3
  <1> QED
    BY <1>1, <1>2, <1>4, <1>5

(* A reply is a status line, or an answer followed by OK. *)
LEMMA ReplyShape ==
    ASSUME NEW r \in Modem!Replies
    PROVE  /\ r \in Seq(Modem!Statuses \cup Modem!Answers)
           /\ Len(r) \in 1 .. 2
           /\ DOMAIN r = 1 .. Len(r)
           /\ \A i \in DOMAIN r : r[i] \in {Modem!OK, Modem!ERROR} => i = Len(r)
           /\ r = <<Modem!CMS>> => \A i \in DOMAIN r : r[i] # Modem!OK
  <1>1. CASE \E s \in Modem!Statuses : r = <<s>>
    <2>1. PICK s \in Modem!Statuses : r = <<s>>
      BY <1>1
    <2>2. Len(r) = 1 /\ r[1] = s /\ DOMAIN r = 1 .. 1
      BY <2>1
    <2>3. r = <<Modem!CMS>> => s = Modem!CMS
      BY <2>2
    <2>4. Modem!OK # Modem!CMS
      BY LineFacts
    <2> QED
      BY <2>1, <2>2, <2>3, <2>4
  <1>2. CASE \E a \in Modem!Answers : r = <<a, Modem!OK>>
    <2>1. PICK a \in Modem!Answers : r = <<a, Modem!OK>>
      BY <1>2
    <2>2. a \notin {Modem!OK, Modem!ERROR}
      BY LineFacts
    <2>3. Modem!OK \in Modem!Statuses
      BY DEF Modem!Statuses
    <2>4. Len(r) = 2 /\ r[1] = a /\ r[2] = Modem!OK /\ DOMAIN r = 1 .. 2
      BY <2>1
    <2>5. r # <<Modem!CMS>>
      BY <2>4
    <2> QED
      BY <2>1, <2>2, <2>3, <2>4, <2>5
  <1> QED
    BY <1>1, <1>2 DEF Modem!Replies

(* What a command does to the modem, and what its reply says about the SIM. *)
LEMMA ReplyFacts ==
    ASSUME modem \in [sim : Modem!SimStates, entered : Nat, accepted : Nat],
           NEW cmd \in Modem!Commands, NEW r \in Modem!Replies, NEW m, Modem!Reply(cmd, r, m)
    PROVE  /\ m \in [sim : Modem!SimStates, entered : Nat, accepted : Nat]
           /\ cmd # "CPIN=" => m.sim = modem.sim /\ m.entered = modem.entered
           /\ cmd = "CPIN=" => m.entered = modem.entered + 1
           /\ cmd # "CMGS" => m.accepted = modem.accepted
           /\ cmd = "CMGS" => m.accepted = modem.accepted + 1 \/ (r = <<Modem!CMS>> /\ m = modem)
           /\ \A i \in DOMAIN r : r[i].kind = "answer" /\ r[i].cmd = "CPIN" => r[i].value = modem.sim
  <1> DEFINE NoPin == \A i \in DOMAIN r : r[i].kind = "answer" => r[i].cmd # "CPIN"
  <1>1. \A s \in {Modem!OK, Modem!ERROR, Modem!CMS} : r = <<s>> => NoPin
    <2> SUFFICES ASSUME NEW s \in {Modem!OK, Modem!ERROR, Modem!CMS}, r = <<s>>
                 PROVE  NoPin
      OBVIOUS
    <2>1. s.kind # "answer"
      BY LineFacts
    <2>2. \A i \in DOMAIN r : r[i] = s
      OBVIOUS
    <2> QED
      BY <2>1, <2>2
  <1>2. \A c, v : c # "CPIN" /\ r = <<Modem!Line(c, v), Modem!OK>> => NoPin
    <2> SUFFICES ASSUME NEW c, NEW v, c # "CPIN", r = <<Modem!Line(c, v), Modem!OK>>
                 PROVE  NoPin
      OBVIOUS
    <2>1. Modem!OK.kind # "answer" /\ Modem!Line(c, v).cmd = c
      BY LineFacts
    <2>2. \A i \in DOMAIN r : r[i] = Modem!Line(c, v) \/ r[i] = Modem!OK
      OBVIOUS
    <2> QED
      BY <2>1, <2>2
  <1> DEFINE T == [sim : Modem!SimStates, entered : Nat, accepted : Nat]
  <1>3. CASE cmd = "AT" \/ cmd = "CMGF"
    <2>1. m = modem /\ \E s \in {Modem!OK, Modem!ERROR, Modem!CMS} : r = <<s>>
      BY <1>3 DEF Modem!Reply
    <2> QED
      BY <1>1, <1>3, <2>1
  <1>4. CASE cmd \in {"CPIN?", "CPIN? again"}
    <2>1. m = modem /\ r = IF modem.sim = "none" THEN <<Modem!ERROR>> ELSE <<Modem!Line("CPIN", modem.sim), Modem!OK>>
      BY <1>4 DEF Modem!Reply
    <2>3. CASE modem.sim = "none"
      BY <1>1, <1>4, <2>1, <2>3
    <2>4. CASE modem.sim # "none"
      <3>1. \A i \in DOMAIN r : r[i].kind = "answer" => r[i].value = modem.sim
        <4>1. \A i \in DOMAIN r : r[i] = Modem!Line("CPIN", modem.sim) \/ r[i] = Modem!OK
          BY <2>1, <2>4
        <4>2. Modem!OK.kind # "answer" /\ Modem!Line("CPIN", modem.sim).value = modem.sim
          BY DEF Modem!OK, Modem!Line
        <4> QED
          BY <4>1, <4>2
      <3> QED
        BY <1>4, <2>1, <3>1
    <2> QED
      BY <2>3, <2>4
  <1>5. CASE cmd = "CPIN="
    <2>1. NoPin
      BY <1>1, <1>5 DEF Modem!Reply
    <2>2. \/ m = [modem EXCEPT !.sim = "READY", !.entered = modem.entered + 1]
          \/ m = [modem EXCEPT !.entered = modem.entered + 1]
      BY <1>5 DEF Modem!Reply
    <2>3. "READY" \in Modem!SimStates /\ modem.entered \in Nat
      <3>1. modem.entered \in Nat
        OBVIOUS
      <3> QED
        BY <3>1 DEF Modem!SimStates
    <2>4. m \in T /\ m.entered = modem.entered + 1 /\ m.accepted = modem.accepted
      <3>1. CASE m = [modem EXCEPT !.sim = "READY", !.entered = modem.entered + 1]
        <4>1. m = [sim |-> "READY", entered |-> modem.entered + 1, accepted |-> modem.accepted]
          BY <3>1
        <4>2. modem.entered + 1 \in Nat /\ modem.accepted \in Nat
          BY <2>3
        <4> QED
          BY <2>3, <4>1, <4>2
      <3>2. CASE m = [modem EXCEPT !.entered = modem.entered + 1]
        BY <2>3, <3>2
      <3> QED
        BY <2>2, <3>1, <3>2
    <2> HIDE DEF T
    <2> QED
      BY <1>5, <2>1, <2>4 DEF T
  <1>6. CASE cmd = "CMGS"
    <2>1. CASE r = <<Modem!Line("CMGS", "ref"), Modem!OK>> /\ m = [modem EXCEPT !.accepted = modem.accepted + 1]
      <3>1. m \in T /\ m.sim = modem.sim /\ m.entered = modem.entered /\ m.accepted = modem.accepted + 1
        BY <2>1
      <3>2. NoPin
        BY <1>2, <2>1
      <3>3. \A i \in DOMAIN r : r[i].kind = "answer" /\ r[i].cmd = "CPIN" => r[i].value = modem.sim
        BY <3>2
      <3> HIDE DEF NoPin, T
      <3>4. m \in T
        BY <3>1
      <3>5. /\ cmd # "CPIN=" => m.sim = modem.sim /\ m.entered = modem.entered
            /\ cmd = "CPIN=" => m.entered = modem.entered + 1
            /\ cmd # "CMGS" => m.accepted = modem.accepted
            /\ cmd = "CMGS" => m.accepted = modem.accepted + 1
        BY <1>6, <3>1
      <3>6. cmd = "CMGS" => m.accepted = modem.accepted + 1 \/ (r = <<Modem!CMS>> /\ m = modem)
        BY <3>5, Zenon
      <3> QED
        BY <3>3, <3>4, <3>5, <3>6, Zenon DEF T
    <2>2. CASE r = <<Modem!CMS>> /\ m = modem
      BY <1>1, <1>6, <2>2
    <2> QED
      BY <1>6, <2>1, <2>2 DEF Modem!Reply
  <1>7. CASE cmd \in {"COPS?", "COPN", "CSQ"}
    <2>1. /\ m = modem
          /\ r = <<Modem!ERROR>> \/ \E c, v : c # "CPIN" /\ r = <<Modem!Line(c, v), Modem!OK>>
      <3>1. CASE cmd = "COPS?"
        BY <3>1 DEF Modem!Reply
      <3>2. CASE cmd = "COPN"
        BY <3>2 DEF Modem!Reply
      <3>3. CASE cmd = "CSQ"
        BY <3>3 DEF Modem!Reply
      <3> QED
        BY <1>7, <3>1, <3>2, <3>3
    <2>2. NoPin
      BY <1>1, <1>2, <2>1
    <2> QED
      BY <1>7, <2>1, <2>2
  <1> QED
    BY <1>3, <1>4, <1>5, <1>6, <1>7 DEF Modem!Commands, Modem!SmsCommands

LEMMA ModemInit ==
    ASSUME Modem!Init
    PROVE  Modem!IInv
  <1>1. /\ modem \in [sim : Modem!SimStates, entered : Nat, accepted : Nat]
        /\ modem.entered = 0 /\ modem.accepted = 0
    BY DEF Modem!Init
  <1>2. /\ plugin \in Plugins /\ queue = <<>> /\ wire = <<>> /\ step = "AT" /\ pc = "send"
        /\ answer = <<>> /\ answers = 0 /\ timeouts = 0 /\ code = -1
    BY DEF Modem!Init
  <1>3. Modem!TypeOK
    <2>1. step \in Modem!Commands
      BY <1>2 DEF Modem!Commands, Modem!SmsCommands
    <2>2. Len(answer) = 0 /\ answer \in Seq(Modem!Values)
      BY <1>2
    <2>3. queue \in Seq(Modem!Commands) /\ wire \in Seq(Modem!Statuses \cup Modem!Answers)
      BY <1>2
    <2>4. pc \in {"send", "wait", "result", "exited", "crashed"} /\ timeouts \in Nat
      BY <1>2
    <2>5. answers \in 0 .. Len(answer)
      BY <1>2, <2>2
    <2> QED
      BY <1>1, <1>2, <2>1, <2>2, <2>3, <2>4, <2>5 DEF Modem!TypeOK
  <1>4. Modem!OnePin
    <2>1. DOMAIN queue = {} /\ DOMAIN wire = {}
      BY <1>2
    <2> QED
      BY <1>1, <1>2, <2>1 DEF Modem!OnePin, Modem!ToSet
  <1>5. Modem!InStep
    BY <1>1, <1>2 DEF Modem!InStep, Modem!SmsCommands, Modem!STATE_OK
  <1> QED
    BY <1>3, <1>4, <1>5 DEF Modem!IInv

(* What follows a command changes neither the dialogue nor the modem. *)
LEMMA ModemGoesOn ==
    ASSUME Modem!IInv, pc = "result", UNCHANGED <<plugin, queue, wire, modem, timeouts>>,
           answer' \in Seq(Modem!Values), answers' \in 0 .. Len(answer'), step' \in Modem!Commands,
           pc' \in {"send", "exited", "crashed"}, pc' # "send" => step' = step,
           code' = code \/ code' # Modem!STATE_OK \/ (step = "CMGS" /\ rv = 0 /\ pc' = "exited")
              \/ plugin # "notify_sms" \/ step \notin Modem!SmsCommands,
           pc' = "send" /\ plugin = "notify_sms" =>
              (code' = code /\ step # "CMGS" /\ (step \in Modem!SmsCommands => step' \in Modem!SmsCommands)),
           Modem!Before' =>
              /\ Modem!Before
              /\ step' = "AT" => answer' = <<>>
              /\ step' = "CPIN?" => \A i \in DOMAIN answer' : answer'[i] = modem.sim
              /\ step' = "CPIN=" => modem.sim = "SIM PIN"
    PROVE  Modem!IInv'
  <1>1. Modem!TypeOK'
    BY DEF Modem!IInv, Modem!TypeOK
  <1>2. Modem!OnePin'
    BY DEF Modem!IInv, Modem!OnePin, Modem!ToSet
  <1>3. Modem!InStep'
    <2> SUFFICES ASSUME timeouts' = 0, plugin' = "notify_sms" PROVE Modem!InStep'
      BY DEF Modem!InStep
    <2>1. /\ step \in Modem!SmsCommands /\ queue = <<>> /\ wire = <<>>
          /\ step # "CMGS" => modem.accepted = 0
          /\ step = "CMGS" /\ rv = 0 => modem.accepted = 1
          /\ code # Modem!STATE_OK
      BY DEF Modem!IInv, Modem!InStep
    <2>2. CASE pc' = "send"
      BY <2>1, <2>2 DEF Modem!InStep
    <2>3. CASE pc' \in {"exited", "crashed"}
      BY <2>1, <2>3 DEF Modem!InStep
    <2> QED
      BY <2>2, <2>3
  <1> QED
    BY <1>1, <1>2, <1>3 DEF Modem!IInv

(* The modem answers the command at the head of its queue. *)
LEMMA ModemReplies ==
    ASSUME Modem!IInv, Modem!ModemAnswers
    PROVE  Modem!IInv'
  <1> DEFINE Lines == Modem!Statuses \cup Modem!Answers
             T == [sim : Modem!SimStates, entered : Nat, accepted : Nat]
  <1> HIDE DEF Lines, T
  <1>1. Modem!TypeOK /\ Modem!OnePin /\ Modem!InStep
    BY DEF Modem!IInv
  <1>2. /\ queue \in Seq(Modem!Commands) /\ queue # <<>> /\ wire \in Seq(Lines) /\ modem \in T
        /\ modem.entered \in Nat /\ modem.accepted \in Nat
    BY <1>1 DEF Modem!TypeOK, Modem!ModemAnswers, Lines, T
  <1>3. /\ UNCHANGED <<plugin, mp_sms_pin, step, pc, rv, answer, answers, tried, timeouts, code>>
        /\ queue' = Tail(queue)
    BY DEF Modem!ModemAnswers
  <1>4. PICK r \in Modem!Replies : Modem!Reply(Head(queue), r, modem') /\ wire' = wire \o r
    BY DEF Modem!ModemAnswers
  <1>5. /\ Head(queue) = queue[1] /\ Head(queue) \in Modem!Commands /\ 1 \in DOMAIN queue
        /\ Tail(queue) \in Seq(Modem!Commands)
        /\ \A i \in DOMAIN Tail(queue) : i + 1 \in DOMAIN queue /\ Tail(queue)[i] = queue[i + 1]
        /\ DOMAIN queue = 1 .. Len(queue) /\ Len(queue) \in Nat
        /\ DOMAIN Tail(queue) = 1 .. Len(queue) - 1
    BY <1>2, TailFacts, TopFacts
  <1>6. /\ r \in Seq(Lines) /\ DOMAIN r = 1 .. Len(r) /\ Len(r) \in 1 .. 2
        /\ \A i \in DOMAIN r : r[i] \in {Modem!OK, Modem!ERROR} => i = Len(r)
        /\ r = <<Modem!CMS>> => \A i \in DOMAIN r : r[i] # Modem!OK
    BY ReplyShape DEF Lines
  <1>7. /\ wire \o r \in Seq(Lines)
        /\ DOMAIN (wire \o r) = 1 .. Len(wire) + Len(r)
        /\ Len(wire) \in Nat /\ DOMAIN wire = 1 .. Len(wire)
        /\ \A i \in DOMAIN wire : (wire \o r)[i] = wire[i]
        /\ \A i \in DOMAIN r : (wire \o r)[Len(wire) + i] = r[i]
    BY <1>2, <1>6, ConcatFacts, TopFacts
  <1>8. /\ modem' \in T
        /\ Head(queue) # "CPIN=" => modem'.sim = modem.sim /\ modem'.entered = modem.entered
        /\ Head(queue) = "CPIN=" => modem'.entered = modem.entered + 1
        /\ Head(queue) # "CMGS" => modem'.accepted = modem.accepted
        /\ Head(queue) = "CMGS" => modem'.accepted = modem.accepted + 1 \/ (r = <<Modem!CMS>> /\ modem' = modem)
        /\ \A i \in DOMAIN r : r[i].kind = "answer" /\ r[i].cmd = "CPIN" => r[i].value = modem.sim
    <2> DEFINE c == Head(queue)
    <2>1. c \in Modem!Commands
      BY <1>5
    <2> HIDE DEF c
    <2>2. PICK m : m = modem'
      OBVIOUS
    <2>3. Modem!Reply(c, r, m)
      BY <1>4, <2>2 DEF c
    <2>4. /\ m \in T
          /\ c # "CPIN=" => m.sim = modem.sim /\ m.entered = modem.entered
          /\ c = "CPIN=" => m.entered = modem.entered + 1
          /\ c # "CMGS" => m.accepted = modem.accepted
          /\ c = "CMGS" => m.accepted = modem.accepted + 1 \/ (r = <<Modem!CMS>> /\ m = modem)
          /\ \A i \in DOMAIN r : r[i].kind = "answer" /\ r[i].cmd = "CPIN" => r[i].value = modem.sim
      BY <1>2, <2>1, <2>3, ReplyFacts DEF T
    <2> QED
      BY <2>2, <2>4 DEF c
  <1>9. Modem!TypeOK'
    BY <1>1, <1>3, <1>4, <1>5, <1>7, <1>8 DEF Modem!TypeOK, Lines, T
  <1>10. Modem!OnePin'
    <2>1. /\ modem.entered <= 1
          /\ \A i, j \in DOMAIN queue : queue[i] = "CPIN=" /\ queue[j] = "CPIN=" => i = j
          /\ modem.entered = 1 => \A i \in DOMAIN queue : queue[i] # "CPIN="
          /\ Modem!Before =>
                /\ modem.entered = 0 /\ \A i \in DOMAIN queue : queue[i] # "CPIN="
                /\ \A i \in DOMAIN wire : wire[i].kind = "answer" /\ wire[i].cmd = "CPIN" => wire[i].value = modem.sim
                /\ step = "AT" => answer = <<>>
                /\ step = "CPIN?" => \A i \in DOMAIN answer : answer[i] = modem.sim
                /\ step = "CPIN=" => modem.sim = "SIM PIN"
      BY <1>1 DEF Modem!OnePin, Modem!ToSet
    <2>2. \A i, j \in DOMAIN queue' : queue'[i] = "CPIN=" /\ queue'[j] = "CPIN=" => i = j
      <3> SUFFICES ASSUME NEW i \in DOMAIN Tail(queue), NEW j \in DOMAIN Tail(queue),
                          Tail(queue)[i] = "CPIN=", Tail(queue)[j] = "CPIN="
                   PROVE  i = j
        BY <1>3
      <3>1. i + 1 = j + 1
        BY <1>5, <2>1
      <3> QED
        BY <1>5, <3>1
    <2>3. CASE Head(queue) = "CPIN="
      <3>0. modem.entered # 1
        BY <1>5, <2>1, <2>3
      <3>1. modem.entered = 0 /\ modem'.entered = 1
        <4>1. modem.entered \in Nat /\ modem.entered <= 1
          BY <1>2, <2>1
        <4>2. modem.entered = 0
          BY <3>0, <4>1
        <4>3. modem'.entered = modem.entered + 1
          BY <1>8, <2>3
        <4> QED
          BY <4>2, <4>3
      <3>2. \A i \in DOMAIN queue' : queue'[i] # "CPIN="
        <4> SUFFICES ASSUME NEW i \in DOMAIN Tail(queue), Tail(queue)[i] = "CPIN="
                     PROVE  FALSE
          BY <1>3
        <4>1. i + 1 = 1
          BY <1>5, <2>1, <2>3
        <4> QED
          BY <1>5, <4>1
      <3>3. ~Modem!Before /\ ~Modem!Before'
        BY <1>3, <1>5, <2>1, <2>3 DEF Modem!Before
      <3> QED
        BY <2>2, <3>1, <3>2, <3>3 DEF Modem!OnePin, Modem!ToSet
    <2>4. CASE Head(queue) # "CPIN="
      <3>1. modem'.sim = modem.sim /\ modem'.entered = modem.entered
        BY <1>8, <2>4
      <3>2. (\A i \in DOMAIN queue : queue[i] # "CPIN=") => \A i \in DOMAIN queue' : queue'[i] # "CPIN="
        BY <1>3, <1>5
      <3>3. Modem!Before' => Modem!Before
        BY <1>3 DEF Modem!Before
      <3>4. ASSUME Modem!Before, NEW i \in DOMAIN wire', wire'[i].kind = "answer", wire'[i].cmd = "CPIN"
            PROVE  wire'[i].value = modem.sim
        <4>1. CASE i \in DOMAIN wire
          BY <1>4, <1>7, <2>1, <3>4, <4>1
        <4>2. CASE i \notin DOMAIN wire
          <5>1. i - Len(wire) \in DOMAIN r /\ Len(wire) + (i - Len(wire)) = i
            BY <1>4, <1>6, <1>7, <3>4, <4>2
          <5>2. wire'[i] = r[i - Len(wire)]
            BY <1>4, <1>7, <5>1
          <5> QED
            BY <1>8, <3>4, <5>1, <5>2
        <4> QED
          BY <4>1, <4>2
      <3> QED
        BY <1>3, <2>1, <2>2, <3>1, <3>2, <3>3, <3>4 DEF Modem!OnePin, Modem!ToSet
    <2> QED
      BY <2>3, <2>4
  <1>11. Modem!InStep'
    <2> SUFFICES ASSUME timeouts = 0, plugin = "notify_sms" PROVE Modem!InStep'
      BY <1>3 DEF Modem!InStep
    <2>1. /\ step \in Modem!SmsCommands
          /\ pc \in {"wait", "exited", "crashed"}
          /\ pc = "wait" => queue = <<step>> /\ wire = <<>>
          /\ pc = "wait" => modem.accepted = 0
          /\ code # Modem!STATE_OK
      BY <1>1, <1>2 DEF Modem!InStep, Modem!TypeOK
    <2>2. CASE pc # "wait"
      BY <1>3, <2>1, <2>2 DEF Modem!InStep
    <2>3. CASE pc = "wait"
      <3>1. Head(queue) = step /\ Tail(queue) = <<>> /\ wire' = r
        <4>1. Head(<<step>>) = step /\ Tail(<<step>>) = <<>>
          OBVIOUS
        <4>2. <<>> \o r = r
          BY <1>6
        <4> QED
          BY <1>4, <2>1, <2>3, <4>1, <4>2
      <3>2. \A i \in DOMAIN wire' : wire'[i] \in {Modem!OK, Modem!ERROR} => i = Len(wire')
        BY <1>6, <3>1
      <3>3. step # "CMGS" => modem'.accepted = 0
        BY <1>8, <2>1, <2>3, <3>1
      <3>4. step = "CMGS" /\ (\E i \in DOMAIN wire' : wire'[i] = Modem!OK) => modem'.accepted = 1
        BY <1>6, <1>8, <2>1, <2>3, <3>1
      <3> QED
        BY <1>3, <2>1, <2>3, <3>1, <3>2, <3>3, <3>4 DEF Modem!InStep, Modem!ToSet
    <2> QED
      BY <2>2, <2>3
  <1> QED
    BY <1>9, <1>10, <1>11 DEF Modem!IInv

(* A command is written; the PIN only in the one state in which it was not
   written before. *)
LEMMA ModemSend ==
    ASSUME Modem!IInv, Modem!Send
    PROVE  Modem!IInv'
  <1> DEFINE new == Append(queue, step)
  <1>1. Modem!TypeOK /\ Modem!OnePin /\ Modem!InStep
    BY DEF Modem!IInv
  <1>2. /\ UNCHANGED <<plugin, modem, wire, step, rv, answer, timeouts, code>>
        /\ pc = "send" /\ pc' = "wait" /\ queue' = new /\ answers' = 0
    BY DEF Modem!Send
  <1>3. queue \in Seq(Modem!Commands) /\ step \in Modem!Commands
    BY <1>1 DEF Modem!TypeOK
  <1>4. /\ new \in Seq(Modem!Commands) /\ DOMAIN new = 1 .. Len(queue) + 1
        /\ Len(queue) \in Nat /\ DOMAIN queue = 1 .. Len(queue)
        /\ \A i \in 1 .. Len(queue) : new[i] = queue[i]
        /\ new[Len(queue) + 1] = step
    <2>1. new \in Seq(Modem!Commands) /\ Len(new) = Len(queue) + 1
      BY <1>3, AppendFacts
    <2> QED
      BY <1>3, <2>1, AppendFacts, TopFacts
  <1>5. Modem!TypeOK'
    <2>1. answers' \in 0 .. Len(answer')
      <3>1. Len(answer) \in Nat
        BY <1>1, TopFacts DEF Modem!TypeOK
      <3> QED
        BY <1>2, <3>1
    <2> QED
      BY <1>1, <1>2, <1>4, <2>1 DEF Modem!TypeOK
  <1>6. Modem!OnePin'
    <2>0. /\ modem.entered <= 1
          /\ \A i, j \in DOMAIN queue : queue[i] = "CPIN=" /\ queue[j] = "CPIN=" => i = j
          /\ modem.entered = 1 => \A i \in DOMAIN queue : queue[i] # "CPIN="
      BY <1>1 DEF Modem!OnePin, Modem!ToSet
    <2>1. CASE step = "CPIN="
      <3>1. modem.entered = 0 /\ \A i \in DOMAIN queue : queue[i] # "CPIN="
        BY <1>1, <1>2, <2>1 DEF Modem!OnePin, Modem!Before, Modem!ToSet
      <3>2. \A i \in DOMAIN new : new[i] = "CPIN=" => i = Len(queue) + 1
        BY <1>4, <3>1
      <3>3. ~Modem!Before'
        BY <1>2, <2>1 DEF Modem!Before
      <3>4. /\ \A i, j \in DOMAIN new : new[i] = "CPIN=" /\ new[j] = "CPIN=" => i = j
            /\ modem'.entered <= 1 /\ modem'.entered # 1
        BY <1>2, <3>1, <3>2
      <3> HIDE DEF new
      <3> QED
        BY <1>2, <3>3, <3>4 DEF Modem!OnePin
    <2>2. CASE step # "CPIN="
      <3>1. \A i \in DOMAIN new : new[i] = "CPIN=" => i \in DOMAIN queue /\ queue[i] = "CPIN="
        BY <1>4, <2>2
      <3>2. Modem!Before' => Modem!Before
        BY <1>2 DEF Modem!Before
      <3>3. Modem!Before => \A i \in DOMAIN queue : queue[i] # "CPIN="
        BY <1>1 DEF Modem!OnePin, Modem!ToSet
      <3>4. /\ modem'.entered = 1 => \A i \in DOMAIN new : new[i] # "CPIN="
            /\ Modem!Before' => \A i \in DOMAIN new : new[i] # "CPIN="
            /\ \A i, j \in DOMAIN new : new[i] = "CPIN=" /\ new[j] = "CPIN=" => i = j
        BY <1>2, <2>0, <3>1, <3>2, <3>3
      <3> HIDE DEF new
      <3> QED
        BY <1>1, <1>2, <3>2, <3>4 DEF Modem!OnePin, Modem!ToSet
    <2> QED
      BY <2>1, <2>2
  <1>7. Modem!InStep'
    <2> SUFFICES ASSUME timeouts = 0, plugin = "notify_sms" PROVE Modem!InStep'
      BY <1>2 DEF Modem!InStep
    <2>1. /\ step \in Modem!SmsCommands /\ queue = <<>> /\ wire = <<>> /\ modem.accepted = 0
          /\ code # Modem!STATE_OK
      BY <1>1, <1>2 DEF Modem!InStep
    <2>2. new = <<step>> /\ DOMAIN wire = {}
      BY <2>1
    <2> HIDE DEF new
    <2> QED
      BY <1>2, <2>1, <2>2 DEF Modem!InStep, Modem!ToSet
  <1> QED
    BY <1>5, <1>6, <1>7 DEF Modem!IInv

(* A command is given up. *)
LEMMA ModemGivesUp ==
    ASSUME Modem!IInv, Modem!WriteFails \/ Modem!SelectTimeout
    PROVE  Modem!IInv'
  <1>1. /\ UNCHANGED <<plugin, modem, queue, wire, step, answer, answers, code>>
        /\ timeouts \in Nat /\ timeouts' = timeouts + 1 /\ pc' = "result"
    BY DEF Modem!IInv, Modem!TypeOK, Modem!WriteFails, Modem!SelectTimeout, Modem!Return, Modem!dialogue
  <1>2. Modem!TypeOK'
    BY <1>1 DEF Modem!IInv, Modem!TypeOK
  <1>3. Modem!OnePin'
    BY <1>1 DEF Modem!IInv, Modem!OnePin, Modem!Before, Modem!ToSet
  <1>4. timeouts' # 0
    BY <1>1
  <1> QED
    BY <1>2, <1>3, <1>4 DEF Modem!IInv, Modem!InStep

LEMMA ModemAlarm ==
    ASSUME Modem!IInv, Modem!Alarm
    PROVE  Modem!IInv'
  <1>1. /\ UNCHANGED <<plugin, modem, queue, wire, step, answer, answers, timeouts>>
        /\ pc' = "exited" /\ code' = 2
    BY DEF Modem!Alarm, Modem!Exit, Modem!dialogue, Modem!STATE_CRITICAL
  <1>2. Modem!TypeOK'
    BY <1>1 DEF Modem!IInv, Modem!TypeOK
  <1>3. Modem!OnePin'
    BY <1>1 DEF Modem!IInv, Modem!OnePin, Modem!Before, Modem!ToSet
  <1>4. Modem!InStep'
    BY <1>1 DEF Modem!IInv, Modem!InStep, Modem!STATE_OK
  <1> QED
    BY <1>2, <1>3, <1>4 DEF Modem!IInv

(* A line is read: the status ends the command, and while the dialogue is in
   step it is the last line on the wire. *)
LEMMA ModemReads ==
    ASSUME Modem!IInv, Modem!ReadLine
    PROVE  Modem!IInv'
  <1> DEFINE Lines == Modem!Statuses \cup Modem!Answers
             line_ == Head(wire)
             rest == Tail(wire)
             new == Append(SubSeq(answer, 1, answers), line_.value)
  <1> HIDE DEF Lines
  <1>1. Modem!TypeOK /\ Modem!OnePin /\ Modem!InStep
    BY DEF Modem!IInv
  <1>2. /\ UNCHANGED <<plugin, modem, queue, step, timeouts, code>>
        /\ pc = "wait" /\ wire # <<>> /\ wire' = rest
    BY DEF Modem!ReadLine
  <1>3. \/ line_.kind = "OK" /\ pc' = "result" /\ rv' = 0 /\ UNCHANGED <<answer, answers>>
        \/ line_.kind = "ERROR" /\ pc' = "result" /\ rv' = 1 /\ UNCHANGED <<answer, answers>>
        \/ Modem!Prefixed(line_) /\ answer' = new /\ answers' = answers + 1 /\ UNCHANGED <<pc, rv>>
        \/ UNCHANGED <<pc, rv, answer, answers>>
    BY DEF Modem!ReadLine, Modem!Return
  <1>4. /\ wire \in Seq(Lines) /\ answer \in Seq(Modem!Values) /\ answers \in 0 .. Len(answer)
    BY <1>1 DEF Modem!TypeOK, Lines
  <1>5. /\ line_ = wire[1] /\ line_ \in Lines /\ 1 \in DOMAIN wire
        /\ rest \in Seq(Lines) /\ Len(wire) \in Nat /\ Len(rest) = Len(wire) - 1
        /\ DOMAIN rest = 1 .. Len(wire) - 1
        /\ \A i \in DOMAIN rest : i + 1 \in DOMAIN wire /\ rest[i] = wire[i + 1]
        /\ DOMAIN wire = 1 .. Len(wire)
    BY <1>2, <1>4, TailFacts, TopFacts
  <1> HIDE DEF line_, rest
  <1>6. /\ line_.kind = "OK" => line_ = Modem!OK
        /\ line_.kind = "ERROR" => line_ = Modem!ERROR
        /\ line_.kind = "answer" => line_.value \in Modem!Values
    BY <1>5, LineFacts DEF Lines, Modem!Statuses
  <1>7. ASSUME Modem!Prefixed(line_)
        PROVE  /\ new \in Seq(Modem!Values) /\ Len(new) = answers + 1
               /\ DOMAIN new = 1 .. answers + 1
               /\ \A i \in 1 .. answers : new[i] = answer[i]
               /\ new[answers + 1] = line_.value
    <2> DEFINE kept == SubSeq(answer, 1, answers)
    <2>1. answers \in Nat /\ Len(answer) \in Nat /\ \A i \in 1 .. answers : answer[i] \in Modem!Values
      BY <1>4, TopFacts
    <2>2. /\ kept \in Seq(Modem!Values)
          /\ Len(kept) = IF 1 <= answers THEN answers - 1 + 1 ELSE 0
          /\ \A i \in 1 .. answers - 1 + 1 : kept[i] = answer[1 + i - 1]
      BY <2>1, SubSeqProperties
    <2> HIDE DEF kept
    <2>3. kept \in Seq(Modem!Values) /\ Len(kept) = answers /\ \A i \in 1 .. answers : kept[i] = answer[i]
      BY <2>1, <2>2
    <2>4. line_.value \in Modem!Values
      BY <1>6, <1>7 DEF Modem!Prefixed
    <2>5. /\ Append(kept, line_.value) \in Seq(Modem!Values) /\ Len(Append(kept, line_.value)) = answers + 1
          /\ \A i \in 1 .. answers : Append(kept, line_.value)[i] = kept[i]
          /\ Append(kept, line_.value)[answers + 1] = line_.value
      BY <2>3, <2>4, AppendFacts
    <2>6. DOMAIN Append(kept, line_.value) = 1 .. answers + 1
      BY <2>5, TopFacts
    <2> QED
      BY <2>3, <2>5, <2>6 DEF kept
  <1> HIDE DEF new
  <1>8. Modem!TypeOK'
    <2>1. answer' \in Seq(Modem!Values) /\ answers' \in 0 .. Len(answer')
      <3>1. CASE UNCHANGED <<answer, answers>>
        BY <1>4, <3>1
      <3>2. CASE Modem!Prefixed(line_) /\ answer' = new /\ answers' = answers + 1
        <4>1. answers \in Nat
          BY <1>4, TopFacts
        <4> QED
          BY <1>7, <3>2, <4>1
      <3> QED
        BY <1>3, <3>1, <3>2
    <2>2. pc' \in {"wait", "result"}
      BY <1>2, <1>3
    <2> QED
      BY <1>1, <1>2, <1>5, <2>1, <2>2 DEF Modem!TypeOK, Lines
  <1>9. Modem!OnePin'
    <2>1. Modem!Before' => Modem!Before /\ step # "CPIN="
      BY <1>2, <1>3 DEF Modem!Before
    <2> SUFFICES ASSUME Modem!Before'
                 PROVE  /\ \A i \in DOMAIN wire' : wire'[i].kind = "answer" /\ wire'[i].cmd = "CPIN"
                                                     => wire'[i].value = modem.sim
                        /\ step = "AT" => answer' = <<>>
                        /\ step = "CPIN?" => \A i \in DOMAIN answer' : answer'[i] = modem.sim
      BY <1>1, <1>2, <2>1 DEF Modem!OnePin, Modem!ToSet
    <2>2. /\ \A i \in DOMAIN wire : wire[i].kind = "answer" /\ wire[i].cmd = "CPIN" => wire[i].value = modem.sim
          /\ step = "AT" => answer = <<>>
          /\ step = "CPIN?" => \A i \in DOMAIN answer : answer[i] = modem.sim
      BY <1>1, <2>1 DEF Modem!OnePin
    <2>3. \A i \in DOMAIN wire' : wire'[i].kind = "answer" /\ wire'[i].cmd = "CPIN" => wire'[i].value = modem.sim
      BY <1>2, <1>5, <2>2
    <2>4. CASE UNCHANGED <<answer, answers>>
      BY <2>2, <2>3, <2>4
    <2>5. CASE Modem!Prefixed(line_) /\ answer' = new
      <3>1. step # "AT"
        BY <2>5 DEF Modem!Prefixed
      <3>2. ASSUME step = "CPIN?", NEW i \in DOMAIN new
            PROVE  new[i] = modem.sim
        <4>1. line_.value = modem.sim
          <5>1. line_.kind = "answer" /\ line_.cmd = "CPIN"
            BY <2>5, <3>2 DEF Modem!Prefixed, Modem!Prefix
          <5> QED
            BY <1>5, <2>2, <5>1
        <4>2. DOMAIN answer = 1 .. Len(answer) /\ Len(answer) \in Nat /\ answers \in Nat /\ answers <= Len(answer)
          BY <1>4, TopFacts
        <4>3. CASE i \in 1 .. answers
          BY <1>7, <2>2, <2>5, <3>2, <4>2, <4>3
        <4>4. CASE i = answers + 1
          BY <1>7, <2>5, <4>1, <4>4
        <4> QED
          BY <1>7, <2>5, <3>2, <4>2, <4>3, <4>4
      <3> QED
        BY <2>3, <2>5, <3>1, <3>2
    <2> QED
      BY <1>3, <2>4, <2>5
  <1>10. Modem!InStep'
    <2> SUFFICES ASSUME timeouts = 0, plugin = "notify_sms" PROVE Modem!InStep'
      BY <1>2 DEF Modem!InStep
    <2>1. /\ step \in Modem!SmsCommands /\ queue = <<>>
          /\ \A i \in DOMAIN wire : wire[i] \in {Modem!OK, Modem!ERROR} => i = Len(wire)
          /\ step # "CMGS" => modem.accepted = 0
          /\ step = "CMGS" /\ (\E i \in DOMAIN wire : wire[i] = Modem!OK) => modem.accepted = 1
          /\ code # Modem!STATE_OK
      BY <1>1, <1>2 DEF Modem!InStep, Modem!ToSet
    <2>2. CASE pc' = "result"
      <3>1. line_ \in {Modem!OK, Modem!ERROR} /\ (rv' = 0 => line_ = Modem!OK)
        BY <1>2, <1>3, <1>6, <2>2
      <3>2. Len(wire) = 1
        BY <1>5, <2>1, <3>1
      <3>3. rest = <<>>
        BY <1>5, <3>2, EmptySeq
      <3>4. step = "CMGS" /\ rv' = 0 => modem.accepted = 1
        BY <1>5, <2>1, <3>1
      <3> QED
        BY <1>2, <2>1, <2>2, <3>3, <3>4 DEF Modem!InStep
    <2>3. CASE pc' = "wait"
      <3>1. \A i \in DOMAIN rest : rest[i] \in {Modem!OK, Modem!ERROR} => i = Len(rest)
        <4> SUFFICES ASSUME NEW i \in DOMAIN rest, rest[i] \in {Modem!OK, Modem!ERROR}
                     PROVE  i = Len(rest)
          OBVIOUS
        <4>1. i + 1 = Len(wire)
          BY <1>5, <2>1
        <4> QED
          BY <1>5, <4>1
      <3>2. (\E i \in DOMAIN rest : rest[i] = Modem!OK) => \E i \in DOMAIN wire : wire[i] = Modem!OK
        BY <1>5
      <3> QED
        BY <1>2, <2>1, <2>3, <3>1, <3>2 DEF Modem!InStep, Modem!ToSet
    <2> QED
      BY <1>2, <1>3, <2>2, <2>3
  <1> QED
    BY <1>8, <1>9, <1>10 DEF Modem!IInv

(* The plugins between two commands.  The PIN is given only after the modem said
   that the SIM asks for it. *)
LEMMA ModemPlugin ==
    ASSUME Modem!IInv,
           \/ Modem!Ready \/ Modem!CheckPin \/ Modem!EnterPin \/ Modem!RecheckPin \/ Modem!SmsMode
           \/ Modem!SmsSent \/ Modem!Operator \/ Modem!OperatorName \/ Modem!Signal
    PROVE  Modem!IInv'
  <1> USE DEF Modem!At, Modem!Command, Modem!Exit, Modem!Crash, Modem!Rest, Modem!dialogue,
              Modem!STATE_OK, Modem!STATE_CRITICAL, Modem!STATE_UNKNOWN
  <1>0. step \in Modem!Commands /\ answer \in Seq(Modem!Values) /\ answers \in 0 .. Len(answer)
    BY DEF Modem!IInv, Modem!TypeOK
  <1>1. /\ {"AT", "CPIN?", "CPIN=", "CPIN? again", "CMGF", "CMGS"} \subseteq Modem!SmsCommands
        /\ Modem!SmsCommands \subseteq Modem!Commands
        /\ {"COPS?", "COPN", "CSQ"} \subseteq Modem!Commands
        /\ "COPS?" \notin Modem!SmsCommands /\ "COPN" \notin Modem!SmsCommands /\ "CSQ" \notin Modem!SmsCommands
    BY DEF Modem!Commands, Modem!SmsCommands
  <1>2. ASSUME Modem!Free
        PROVE  answer' \in Seq(Modem!Values) /\ answers' \in 0 .. Len(answer') /\ DOMAIN answer' = {}
    <2>1. answer' = <<>> /\ answers' = 0 /\ Len(<<>>) = 0
      BY <1>2 DEF Modem!Free
    <2> QED
      BY <2>1
  <1>3. ASSUME Modem!Keep
        PROVE  answer' \in Seq(Modem!Values) /\ answers' \in 0 .. Len(answer') /\ answer' = answer
    BY <1>0, <1>3 DEF Modem!Keep
  <1>4. Modem!Unlocked \in {"CMGF", "COPS?"} /\ (plugin = "notify_sms" => Modem!Unlocked = "CMGF")
    BY DEF Modem!Unlocked
  <1>5. CASE Modem!Ready
    <2>1. step = "AT" /\ Modem!Keep /\ answer = <<>> /\ DOMAIN answer = {} /\ Modem!Before
      <3>1. step = "AT" /\ Modem!Keep /\ Modem!Before
        BY <1>5 DEF Modem!Ready, Modem!Before
      <3> QED
        BY <3>1 DEF Modem!IInv, Modem!OnePin
    <2>2. step' \in {"AT", "CPIN?"}
      BY <1>5, <2>1 DEF Modem!Ready
    <2>3. pc' \in {"send", "exited", "crashed"} /\ (pc' # "send" => step' = step)
      BY <1>5 DEF Modem!Ready
    <2>4. code' = code \/ code' # Modem!STATE_OK
      BY <1>5 DEF Modem!Ready
    <2>5. pc' = "send" => code' = code
      BY <1>5 DEF Modem!Ready
    <2>6. pc = "result" /\ UNCHANGED <<plugin, queue, wire, modem, timeouts>>
      BY <1>5 DEF Modem!Ready
    <2> QED
      BY <1>1, <1>3, <2>1, <2>2, <2>3, <2>4, <2>5, <2>6, ModemGoesOn
  <1>6. CASE Modem!CheckPin
    <2>1. step = "CPIN?" /\ Modem!Free /\ Modem!Before /\ \A i \in DOMAIN answer : answer[i] = modem.sim
      <3>1. step = "CPIN?" /\ Modem!Free /\ Modem!Before
        BY <1>6 DEF Modem!CheckPin, Modem!Before
      <3> QED
        BY <3>1 DEF Modem!IInv, Modem!OnePin
    <2>2. step' \in {"CPIN?", "CPIN=", Modem!Unlocked}
      BY <1>6, <2>1 DEF Modem!CheckPin, Modem!AskPin
    <2>3. pc' \in {"send", "exited", "crashed"} /\ (pc' # "send" => step' = step)
      BY <1>6 DEF Modem!CheckPin, Modem!AskPin
    <2>4. code' = code \/ code' # Modem!STATE_OK
      <3>1. code' = code \/ code' = 2
        BY <1>6 DEF Modem!CheckPin, Modem!AskPin
      <3> QED
        BY <3>1
    <2>5. pc' = "send" => code' = code
      BY <1>6 DEF Modem!CheckPin, Modem!AskPin
    <2>6. pc = "result" /\ UNCHANGED <<plugin, queue, wire, modem, timeouts>>
      BY <1>6 DEF Modem!CheckPin
    <2>7. step' = "CPIN=" => modem.sim = "SIM PIN"
      <3>1. step' = "CPIN=" => (answer # <<>> \/ answers = 1) /\ answer[1] = "SIM PIN"
        BY <1>4, <1>6, <2>1 DEF Modem!CheckPin, Modem!AskPin
      <3>2. answer # <<>> \/ answers = 1 => 1 \in DOMAIN answer
        BY <1>0, TopFacts
      <3> QED
        BY <2>1, <3>1, <3>2
    <2> QED
      BY <1>1, <1>2, <1>4, <2>1, <2>2, <2>3, <2>4, <2>5, <2>6, <2>7, ModemGoesOn
  <1>7. CASE Modem!EnterPin
    <2>1. /\ step = "CPIN=" /\ step' = "CPIN? again" /\ Modem!Keep /\ pc' = "send" /\ code' = code
          /\ pc = "result" /\ UNCHANGED <<plugin, queue, wire, modem, timeouts>>
      BY <1>7 DEF Modem!EnterPin
    <2>2. ~Modem!Before'
      BY <2>1 DEF Modem!Before
    <2> QED
      BY <1>1, <1>3, <2>1, <2>2, ModemGoesOn
  <1>8. CASE Modem!RecheckPin
    <2>1. /\ step = "CPIN? again" /\ step' \in {"CPIN? again", Modem!Unlocked} /\ Modem!Free
          /\ pc = "result" /\ UNCHANGED <<plugin, queue, wire, modem, timeouts>>
          /\ pc' \in {"send", "exited", "crashed"} /\ (pc' # "send" => step' = step)
          /\ pc' = "send" => code' = code
      BY <1>8 DEF Modem!RecheckPin
    <2>2. ~Modem!Before'
      BY <1>4, <2>1 DEF Modem!Before
    <2>3. code' = code \/ code' # Modem!STATE_OK
      <3>1. code' = code \/ code' = 2
        BY <1>8 DEF Modem!RecheckPin
      <3> QED
        BY <3>1
    <2> QED
      BY <1>1, <1>2, <1>4, <2>1, <2>2, <2>3, ModemGoesOn
  <1>9. CASE Modem!SmsMode
    <2>1. /\ step = "CMGF" /\ step' \in {"CMGF", "CMGS"} /\ Modem!Keep
          /\ pc = "result" /\ UNCHANGED <<plugin, queue, wire, modem, timeouts>>
          /\ pc' \in {"send", "exited", "crashed"} /\ (pc' # "send" => step' = step)
          /\ code' = code \/ code' # Modem!STATE_OK
          /\ pc' = "send" => code' = code
      BY <1>9 DEF Modem!SmsMode
    <2>2. ~Modem!Before'
      BY <2>1 DEF Modem!Before
    <2> QED
      BY <1>1, <1>3, <2>1, <2>2, ModemGoesOn
  <1>10. CASE Modem!SmsSent
    <2>1. /\ step = "CMGS" /\ step' = "CMGS" /\ Modem!Keep
          /\ pc = "result" /\ UNCHANGED <<plugin, queue, wire, modem, timeouts>>
          /\ pc' = "exited"
          /\ code' # Modem!STATE_OK \/ rv = 0
      BY <1>10 DEF Modem!SmsSent
    <2>2. ~Modem!Before'
      BY <2>1 DEF Modem!Before
    <2> QED
      BY <1>1, <1>3, <2>1, <2>2, ModemGoesOn
  <1>11. CASE Modem!Operator \/ Modem!OperatorName \/ Modem!Signal
    <2>1. /\ step \in {"COPS?", "COPN", "CSQ"} /\ step' \in {"COPS?", "COPN", "CSQ"}
          /\ Modem!Free \/ Modem!Keep
          /\ pc = "result" /\ UNCHANGED <<plugin, queue, wire, modem, timeouts>>
          /\ pc' \in {"send", "exited", "crashed"} /\ (pc' # "send" => step' = step)
          /\ pc' = "send" => code' = code
      BY <1>11 DEF Modem!Operator, Modem!OperatorName, Modem!Signal
    <2>2. ~Modem!Before'
      BY <2>1 DEF Modem!Before
    <2> QED
      BY <1>1, <1>2, <1>3, <2>1, <2>2, ModemGoesOn
  <1> QED
    BY <1>5, <1>6, <1>7, <1>8, <1>9, <1>10, <1>11

LEMMA ModemStep ==
    ASSUME Modem!IInv, [Modem!Next]_(Modem!vars)
    PROVE  Modem!IInv'
  <1>1. CASE UNCHANGED Modem!vars
    BY <1>1 DEF Modem!vars, Modem!IInv, Modem!TypeOK, Modem!OnePin, Modem!Before, Modem!InStep, Modem!ToSet
  <1> QED
    BY <1>1, ModemReplies, ModemSend, ModemGivesUp, ModemAlarm, ModemReads, ModemPlugin
       DEF Modem!Next, Modem!Terminated

(* The invariant of the dialogue with the modem. *)
THEOREM ModemInvariant == Spec => [](talk = "modem" => Modem!IInv)
  <1>1. Init => (talk = "modem" => Modem!IInv)
    BY ModemInit DEF Init
  <1>2. (talk = "modem" => Modem!IInv) /\ [Next]_vars => (talk = "modem" => Modem!IInv)'
    BY OneTalk, ModemStep
  <1> QED
    BY <1>1, <1>2, PTL DEF Spec

(* notify_sms that gave no command up says "SMS Sent." only for an SMS the modem
   took, however late the modem answers. *)
THEOREM SentWasAccepted == Spec => []SentIsAccepted
  <1>1. (talk = "modem" => Modem!IInv) => SentIsAccepted
    BY DEF Modem!IInv, Modem!InStep, SentIsAccepted, Modem!SentIsAccepted
  <1> QED
    BY <1>1, ModemInvariant, PTL

(* The PIN is entered once at most and only into a SIM that asks for it, also
   after commands that were given up and answers that came late. *)
THEOREM PinOnlyWhenAsked == Spec => []PinIsAskedFor
  <1>1. (talk = "modem" => Modem!IInv) => PinIsAskedFor
    BY DEF Modem!IInv, Modem!OnePin, Modem!Before, PinIsAskedFor, Modem!PinIsAskedFor
  <1> QED
    BY <1>1, ModemInvariant, PTL

-----------------------------------------------------------------------------
(* The pipe of mp_subprocess                                                *)

LEMMA FollowsAppend ==
    ASSUME NEW S, NEW u \in Seq(S), NEW e \in S, NEW n \in Nat, NEW text, Len(text) \in Nat,
           Child!Follows(u, n, text), n + Len(u) + 1 <= Len(text), e = text[n + Len(u) + 1]
    PROVE  Child!Follows(Append(u, e), n, text)
  <1> DEFINE w == Append(u, e)
  <1>1. /\ w \in Seq(S) /\ Len(w) = Len(u) + 1 /\ Len(u) \in Nat /\ DOMAIN u = 1 .. Len(u)
        /\ \A i \in 1 .. Len(u) : w[i] = u[i]
        /\ w[Len(u) + 1] = e
    BY AppendFacts, TopFacts
  <1> HIDE DEF w
  <1>2. DOMAIN w = 1 .. Len(u) + 1
    BY <1>1, TopFacts
  <1>3. \A i \in 1 .. Len(u) : u[i] = text[n + i]
    BY <1>1 DEF Child!Follows
  <1>4. ASSUME NEW i \in DOMAIN w
        PROVE  w[i] = text[n + i]
    <2>1. CASE i \in 1 .. Len(u)
      BY <1>1, <1>3, <2>1
    <2>2. CASE i = Len(u) + 1
      <3>1. n + i = n + Len(u) + 1
        BY <1>1, <2>2
      <3> QED
        BY <1>1, <2>2, <3>1
    <2> QED
      BY <1>1, <1>2, <1>4, <2>1, <2>2
  <1>5. n + Len(w) <= Len(text)
    BY <1>1
  <1>6. Child!Follows(w, n, text)
    BY <1>4, <1>5 DEF Child!Follows
  <1> QED
    BY <1>6 DEF w

LEMMA FollowsTail ==
    ASSUME NEW S, NEW u \in Seq(S), u # <<>>, NEW n \in Nat, NEW text, Len(text) \in Nat,
           Child!Follows(u, n, text)
    PROVE  /\ Child!Follows(Tail(u), n + 1, text)
           /\ Head(u) = text[n + 1] /\ Head(u) \in S
           /\ Tail(u) \in Seq(S) /\ Len(u) \in Nat /\ Len(Tail(u)) = Len(u) - 1
           /\ n + 1 <= Len(text)
  <1> DEFINE w == Tail(u)
  <1>1. /\ Head(u) = u[1] /\ Head(u) \in S /\ 1 \in DOMAIN u /\ w \in Seq(S)
        /\ Len(u) \in Nat /\ Len(w) = Len(u) - 1 /\ DOMAIN w = 1 .. Len(u) - 1
        /\ \A i \in DOMAIN w : i + 1 \in DOMAIN u /\ w[i] = u[i + 1]
        /\ DOMAIN u = 1 .. Len(u)
    BY TailFacts, TopFacts
  <1> HIDE DEF w
  <1>2. n + Len(u) <= Len(text) /\ \A i \in DOMAIN u : u[i] = text[n + i]
    BY DEF Child!Follows
  <1>3. ASSUME NEW i \in DOMAIN w
        PROVE  w[i] = text[(n + 1) + i]
    <2>1. n + (i + 1) = (n + 1) + i
      BY <1>1, <1>3
    <2> QED
      BY <1>1, <1>2, <1>3, <2>1
  <1>4. (n + 1) + Len(w) <= Len(text) /\ n + 1 <= Len(text)
    BY <1>1, <1>2
  <1>5. Child!Follows(w, n + 1, text)
    BY <1>3, <1>4 DEF Child!Follows
  <1> QED
    BY <1>1, <1>2, <1>4, <1>5 DEF w

LEMMA FollowsAll ==
    ASSUME NEW S, NEW u \in Seq(S), NEW text \in Seq(S), Child!Follows(u, 0, text)
    PROVE  /\ u = SubSeq(text, 1, Len(u))
           /\ Len(u) = Len(text) => u = text
  <1> DEFINE v == SubSeq(text, 1, Len(u))
  <1>1. Len(u) \in Nat /\ Len(text) \in Nat /\ DOMAIN u = 1 .. Len(u) /\ \A i \in 1 .. Len(text) : text[i] \in S
    BY TopFacts
  <1>2. Len(u) <= Len(text) /\ \A i \in 1 .. Len(u) : u[i] = text[i]
    BY <1>1 DEF Child!Follows
  <1>3. /\ v \in Seq(S)
        /\ Len(v) = IF 1 <= Len(u) THEN Len(u) - 1 + 1 ELSE 0
        /\ \A i \in 1 .. Len(u) - 1 + 1 : v[i] = text[1 + i - 1]
    BY <1>1, <1>2, SubSeqProperties
  <1> HIDE DEF v
  <1>4. Len(v) = Len(u) /\ \A i \in 1 .. Len(u) : v[i] = u[i]
    BY <1>1, <1>2, <1>3
  <1>5. u = v
    BY <1>3, <1>4, SeqEqual
  <1>6. Len(u) = Len(text) => u = text
    BY <1>2, SeqEqual
  <1> QED
    BY <1>5, <1>6 DEF v

LEMMA MailIsLines ==
    ASSUME NEW m \in Seq(Child!Texts)
    PROVE  Child!Mail(m) \in Seq(Child!Texts)
  <1>1. "header" \in Child!Texts /\ "line" \in Child!Texts /\ "." \in Child!Texts
    BY DEF Child!Texts
  <1>2. <<"header">> \in Seq(Child!Texts)
    BY <1>1
  <1>3. Append(m, ".") \in Seq(Child!Texts)
    BY <1>1, AppendFacts
  <1>4. m # <<>> => Append(Child!Front(m), "line") \in Seq(Child!Texts)
    BY <1>1, AppendFacts, FrontFacts DEF Child!Front
  <1> QED
    BY <1>2, <1>3, <1>4, ConcatFacts DEF Child!Mail

LEMMA ChildInit ==
    ASSUME Child!Init
    PROVE  Child!IInv
  <1>1. /\ user \in Users /\ user \in {"multipath", "clustat", "mail"}
        /\ pipe = <<>> /\ received = <<>> /\ got = <<>> /\ printed = 0 /\ writers = {} /\ parent = "launch"
        /\ child = "none" /\ code = -1 /\ said = "nothing"
        /\ todo = IF user = "mail" THEN Child!Mail(message) ELSE <<>>
    BY TransportsAssumption DEF Child!Init
  <1>2. output \in Seq(Child!Texts) /\ message \in Seq(Child!Texts)
    <2>1. output \in Seq(STRING) /\ message \in Seq(STRING)
      <3>1. output \in Chatter \cup Outputs /\ message \in Messages \cup {<<>>}
        BY DEF Child!Init
      <3>2. <<>> \in Seq(STRING)
        OBVIOUS
      <3> QED
        BY <3>1, <3>2, TransportsAssumption
    <2>2. \A t \in Seq(STRING) : t \in Seq(Child!Texts)
      <3> SUFFICES ASSUME NEW t \in Seq(STRING) PROVE t \in Seq(Child!Texts)
        OBVIOUS
      <3>1. Len(t) \in Nat /\ t \in [1 .. Len(t) -> STRING]
        BY LenProperties
      <3>2. t \in [1 .. Len(t) -> Child!Texts]
        BY <3>1 DEF Child!Texts
      <3> QED
        BY <3>1, <3>2, SeqDef
    <2> QED
      BY <2>1, <2>2
  <1>3. todo \in Seq(Child!Texts) /\ Child!Mail(message) \in Seq(Child!Texts)
    BY <1>1, <1>2, MailIsLines
  <1>4. Len(output) \in Nat /\ Len(Child!Mail(message)) \in Nat /\ Len(<<>>) = 0 /\ DOMAIN (<<>>) = {}
    BY <1>2, <1>3, TopFacts
  <1>5. Child!TypeOK
    BY <1>1, <1>2, <1>3, <1>4 DEF Child!TypeOK
  <1>6. \A text : Len(text) \in Nat => Child!Follows(<<>>, 0, text)
    BY <1>4 DEF Child!Follows
  <1>7. Child!OutputIsKept
    BY <1>1, <1>4, <1>6 DEF Child!OutputIsKept
  <1>8. Child!MessageIsKept
    <2>1. Child!Follows(Child!Mail(message), 0, Child!Mail(message))
      <3>1. DOMAIN Child!Mail(message) = 1 .. Len(Child!Mail(message))
        BY <1>3, TopFacts
      <3>2. \A i \in 1 .. Len(Child!Mail(message)) : 0 + i = i
        BY <1>4
      <3> QED
        BY <1>4, <3>1, <3>2 DEF Child!Follows
    <2> QED
      BY <1>1, <1>4, <1>6, <2>1 DEF Child!MessageIsKept
  <1>9. Child!ChildIsDone
    BY <1>1 DEF Child!ChildIsDone
  <1> QED
    BY <1>1, <1>5, <1>7, <1>8, <1>9
       DEF Child!IInv, Child!OkHasNoFailedPath, Child!SentIsComplete

(* A step in which no line moves. *)
LEMMA ChildMovesOn ==
    ASSUME Child!IInv, UNCHANGED <<user, output, message, pipe, todo, printed, received, got>>,
           parent' \in {"launch", "write", "read", "wait", "exited", "crashed"},
           child' \in {"none", "running", "exited"},
           Child!ChildIsDone',
           parent' \notin {"exited", "crashed"} => code' = -1 /\ said' = "nothing",
           Child!OkHasNoFailedPath', Child!SentIsComplete'
    PROVE  Child!IInv'
  <1>1. Child!TypeOK'
    BY DEF Child!IInv, Child!TypeOK
  <1>2. Child!OutputIsKept' /\ Child!MessageIsKept'
    BY DEF Child!IInv, Child!OutputIsKept, Child!MessageIsKept, Child!Follows, Child!Mail
  <1> QED
    BY <1>1, <1>2 DEF Child!IInv

(* A step in which a line moves keeps the rest of the invariant. *)
LEMMA ChildMovesLine ==
    ASSUME Child!IInv, UNCHANGED <<user, output, message, writers, child, status, code, said>>,
           parent \notin {"exited", "crashed"}, parent' \in {"launch", "write", "read", "wait"},
           Child!TypeOK', Child!OutputIsKept', Child!MessageIsKept', Child!ChildIsDone'
    PROVE  Child!IInv'
  <1>1. code = -1 /\ said = "nothing"
    BY DEF Child!IInv
  <1>2. Child!OkHasNoFailedPath' /\ Child!SentIsComplete'
    BY <1>1 DEF Child!OkHasNoFailedPath, Child!SentIsComplete
  <1> QED
    BY <1>1, <1>2 DEF Child!IInv

(* The lengths the proofs below count with. *)
LEMMA PipeFacts ==
    ASSUME Child!TypeOK
    PROVE  /\ output \in Seq(Child!Texts) /\ Child!Mail(message) \in Seq(Child!Texts)
           /\ pipe \in Seq(Child!Texts) /\ todo \in Seq(Child!Texts)
           /\ received \in Seq(Child!Texts) /\ got \in Seq(Child!Texts)
           /\ Len(output) \in Nat /\ Len(Child!Mail(message)) \in Nat /\ Len(pipe) \in Nat /\ Len(todo) \in Nat
           /\ Len(received) \in Nat /\ Len(got) \in Nat
           /\ printed \in Nat /\ printed <= Len(output)
           /\ \A i \in 1 .. Len(output) : output[i] \in Child!Texts
           /\ output = <<>> => Len(output) = 0
  <1>1. /\ output \in Seq(Child!Texts) /\ message \in Seq(Child!Texts) /\ printed \in 0 .. Len(output)
        /\ pipe \in Seq(Child!Texts) /\ todo \in Seq(Child!Texts)
        /\ received \in Seq(Child!Texts) /\ got \in Seq(Child!Texts)
    BY DEF Child!TypeOK
  <1>2. Child!Mail(message) \in Seq(Child!Texts)
    BY <1>1, MailIsLines
  <1>3. Len(output) \in Nat
    BY <1>1, TopFacts
  <1>4. printed \in Nat /\ printed <= Len(output)
    BY <1>1, <1>3
  <1> QED
    BY <1>1, <1>2, <1>3, <1>4, TopFacts

LEMMA ChildWrite ==
    ASSUME Child!IInv, Child!Write
    PROVE  Child!IInv'
  <1> DEFINE text == Child!Mail(message)
  <1>1. Child!TypeOK /\ Child!MessageIsKept /\ Child!ChildIsDone
    BY DEF Child!IInv
  <1>2. /\ UNCHANGED <<user, output, message, writers, parent, handler, child, printed, received, got, status, code, said>>
        /\ parent = "write" /\ todo # <<>> /\ pipe' = Append(pipe, Head(todo)) /\ todo' = Tail(todo)
    BY DEF Child!Write, Child!given, Child!result
  <1>3. user = "mail"
    BY <1>1, <1>2 DEF Child!ChildIsDone
  <1>4. /\ Head(todo) \in Child!Texts /\ Tail(todo) \in Seq(Child!Texts)
        /\ pipe' \in Seq(Child!Texts) /\ Len(pipe') = Len(pipe) + 1 /\ Len(todo') = Len(todo) - 1
    BY <1>1, <1>2, PipeFacts, TailFacts, AppendFacts
  <1>5. Child!TypeOK'
    BY <1>1, <1>2, <1>4 DEF Child!TypeOK
  <1>6. Child!MessageIsKept'
    <2> SUFFICES ASSUME output = <<>>
                 PROVE  /\ Len(received) + Len(pipe') + Len(todo') = Len(text)
                        /\ Child!Follows(received, 0, text)
                        /\ Child!Follows(pipe', Len(received), text)
                        /\ Child!Follows(todo', Len(received) + Len(pipe'), text)
      BY <1>2 DEF Child!MessageIsKept, Child!Follows, Child!Mail
    <2>1. /\ Len(received) + Len(pipe) + Len(todo) = Len(text)
          /\ Child!Follows(received, 0, text)
          /\ Child!Follows(pipe, Len(received), text)
          /\ Child!Follows(todo, Len(received) + Len(pipe), text)
      BY <1>1, <1>3 DEF Child!MessageIsKept
    <2>2. /\ text \in Seq(Child!Texts) /\ Len(text) \in Nat /\ Len(received) \in Nat /\ Len(pipe) \in Nat
          /\ todo \in Seq(Child!Texts) /\ pipe \in Seq(Child!Texts) /\ Len(todo) \in Nat
      BY <1>1, PipeFacts
    <2> HIDE DEF text
    <2> DEFINE n == Len(received) + Len(pipe)
    <2>3. n \in Nat
      BY <2>2
    <2>4. Child!Follows(todo, n, text)
      BY <2>1
    <2> HIDE DEF n
    <2>5. Child!Follows(Tail(todo), n + 1, text) /\ Head(todo) = text[n + 1] /\ n + 1 <= Len(text)
      BY <1>2, <2>2, <2>3, <2>4, FollowsTail
    <2>6. Child!Follows(Append(pipe, Head(todo)), Len(received), text)
      BY <1>4, <2>1, <2>2, <2>5, FollowsAppend DEF n
    <2>7. Len(received) + Len(pipe') = n + 1 /\ Len(received) + Len(pipe') + Len(todo') = Len(text)
      <3>1. /\ Len(pipe') = Len(pipe) + 1 /\ Len(todo') = Len(todo) - 1
            /\ Len(received) + Len(pipe) + Len(todo) = Len(text)
            /\ Len(text) \in Nat /\ Len(received) \in Nat /\ Len(pipe) \in Nat /\ Len(todo) \in Nat
        BY <1>4, <2>1, <2>2
      <3> QED
        BY <3>1 DEF n
    <2> QED
      BY <1>2, <2>1, <2>5, <2>6, <2>7
  <1>7. Child!OutputIsKept' /\ Child!ChildIsDone'
    BY <1>1, <1>2, <1>3 DEF Child!OutputIsKept, Child!ChildIsDone, Child!Ended
  <1> QED
    BY <1>2, <1>5, <1>6, <1>7, ChildMovesLine

LEMMA ChildsRead ==
    ASSUME Child!IInv, Child!ChildRead
    PROVE  Child!IInv'
  <1> DEFINE text == Child!Mail(message)
  <1>1. Child!TypeOK /\ Child!MessageIsKept /\ Child!ChildIsDone
    BY DEF Child!IInv
  <1>2. /\ UNCHANGED <<user, output, message, todo, writers, parent, handler, child, printed, got, status, code, said>>
        /\ user = "mail" /\ pipe # <<>> /\ received' = Append(received, Head(pipe)) /\ pipe' = Tail(pipe)
        /\ child = "running" /\ parent \notin {"exited", "crashed"}
    BY DEF Child!ChildRead, Child!Running, Child!given, Child!result
  <1>3. parent' \in {"launch", "write", "read", "wait"}
    BY <1>1, <1>2 DEF Child!TypeOK
  <1>4. /\ Head(pipe) \in Child!Texts /\ Tail(pipe) \in Seq(Child!Texts)
        /\ received' \in Seq(Child!Texts) /\ Len(received') = Len(received) + 1 /\ Len(pipe') = Len(pipe) - 1
    BY <1>1, <1>2, PipeFacts, TailFacts, AppendFacts
  <1>5. Child!TypeOK'
    BY <1>1, <1>2, <1>4 DEF Child!TypeOK
  <1>6. Child!MessageIsKept'
    <2> SUFFICES ASSUME output = <<>>
                 PROVE  /\ Len(received') + Len(pipe') + Len(todo) = Len(text)
                        /\ Child!Follows(received', 0, text)
                        /\ Child!Follows(pipe', Len(received'), text)
                        /\ Child!Follows(todo, Len(received') + Len(pipe'), text)
      BY <1>2 DEF Child!MessageIsKept, Child!Follows, Child!Mail
    <2>1. /\ Len(received) + Len(pipe) + Len(todo) = Len(text)
          /\ Child!Follows(received, 0, text)
          /\ Child!Follows(pipe, Len(received), text)
          /\ Child!Follows(todo, Len(received) + Len(pipe), text)
      BY <1>1, <1>2 DEF Child!MessageIsKept
    <2>2. /\ text \in Seq(Child!Texts) /\ Len(text) \in Nat /\ Len(received) \in Nat /\ Len(pipe) \in Nat
          /\ received \in Seq(Child!Texts) /\ pipe \in Seq(Child!Texts) /\ Len(todo) \in Nat
      BY <1>1, PipeFacts
    <2> HIDE DEF text
    <2> DEFINE n == Len(received)
    <2> HIDE DEF n
    <2>3. n \in Nat /\ Child!Follows(pipe, n, text)
      BY <2>1, <2>2 DEF n
    <2>4. Child!Follows(Tail(pipe), n + 1, text) /\ Head(pipe) = text[n + 1] /\ n + 1 <= Len(text)
      BY <1>2, <2>2, <2>3, FollowsTail
    <2>5. 0 + Len(received) + 1 = n + 1
      BY <2>2 DEF n
    <2>6. Child!Follows(Append(received, Head(pipe)), 0, text)
      BY <1>4, <2>1, <2>2, <2>4, <2>5, FollowsAppend
    <2>7. /\ Len(received') = n + 1 /\ Len(received') + Len(pipe') = Len(received) + Len(pipe)
          /\ Len(received') + Len(pipe') + Len(todo) = Len(text)
      <3>1. /\ Len(received') = Len(received) + 1 /\ Len(pipe') = Len(pipe) - 1
            /\ Len(received) + Len(pipe) + Len(todo) = Len(text)
            /\ Len(text) \in Nat /\ Len(received) \in Nat /\ Len(pipe) \in Nat /\ Len(todo) \in Nat
        BY <1>4, <2>1, <2>2
      <3> QED
        BY <3>1 DEF n
    <2> QED
      BY <1>2, <2>1, <2>4, <2>6, <2>7
  <1>7. Child!OutputIsKept' /\ Child!ChildIsDone'
    <2>1. parent # "read"
      BY <1>1, <1>2 DEF Child!ChildIsDone
    <2> QED
      BY <1>1, <1>2, <2>1 DEF Child!OutputIsKept, Child!ChildIsDone
  <1> QED
    BY <1>2, <1>3, <1>5, <1>6, <1>7, ChildMovesLine

LEMMA ParentReads ==
    ASSUME Child!IInv, Child!Read
    PROVE  Child!IInv'
  <1>1. Child!TypeOK /\ Child!OutputIsKept /\ Child!ChildIsDone
    BY DEF Child!IInv
  <1>2. /\ UNCHANGED <<user, output, message, todo, writers, child, printed, received, status, code, said>>
        /\ parent = "read" /\ pipe # <<>> /\ got' = Append(got, Head(pipe)) /\ pipe' = Tail(pipe)
        /\ parent' = "read" \/ (parent' = "wait" /\ user = "clustat")
    BY DEF Child!Read, Child!GivesUp, Child!given, Child!result
  <1>3. user # "mail"
    BY <1>1, <1>2 DEF Child!ChildIsDone
  <1>4. /\ Head(pipe) \in Child!Texts /\ Tail(pipe) \in Seq(Child!Texts)
        /\ got' \in Seq(Child!Texts) /\ Len(got') = Len(got) + 1 /\ Len(pipe') = Len(pipe) - 1
    BY <1>1, <1>2, PipeFacts, TailFacts, AppendFacts
  <1>5. Child!TypeOK'
    BY <1>1, <1>2, <1>4 DEF Child!TypeOK
  <1>6. Child!OutputIsKept'
    <2>1. /\ Len(got) + Len(pipe) = printed
          /\ Child!Follows(got, 0, output)
          /\ Child!Follows(pipe, Len(got), output)
      BY <1>1, <1>3 DEF Child!OutputIsKept
    <2>2. /\ Len(output) \in Nat /\ Len(got) \in Nat /\ Len(pipe) \in Nat /\ printed \in Nat
          /\ got \in Seq(Child!Texts) /\ pipe \in Seq(Child!Texts)
      BY <1>1, PipeFacts
    <2> DEFINE n == Len(got)
    <2> HIDE DEF n
    <2>3. n \in Nat /\ Child!Follows(pipe, n, output)
      BY <2>1, <2>2 DEF n
    <2>4. Child!Follows(Tail(pipe), n + 1, output) /\ Head(pipe) = output[n + 1] /\ n + 1 <= Len(output)
      BY <1>2, <2>2, <2>3, FollowsTail
    <2>5. 0 + Len(got) + 1 = n + 1
      BY <2>2 DEF n
    <2>6. Child!Follows(Append(got, Head(pipe)), 0, output)
      BY <1>4, <2>1, <2>2, <2>4, <2>5, FollowsAppend
    <2>7. Len(got') = n + 1 /\ Len(got') + Len(pipe') = printed
      <3>1. /\ Len(got') = Len(got) + 1 /\ Len(pipe') = Len(pipe) - 1
            /\ Len(got) + Len(pipe) = printed /\ Len(got) \in Nat /\ Len(pipe) \in Nat /\ printed \in Nat
        BY <1>4, <2>1, <2>2
      <3> QED
        BY <3>1 DEF n
    <2> QED
      BY <1>2, <2>4, <2>6, <2>7 DEF Child!OutputIsKept, Child!Follows
  <1>7. Child!MessageIsKept' /\ Child!ChildIsDone'
    BY <1>1, <1>2, <1>3 DEF Child!MessageIsKept, Child!ChildIsDone, Child!Ended
  <1> QED
    BY <1>2, <1>5, <1>6, <1>7, ChildMovesLine

LEMMA ChildPrints ==
    ASSUME Child!IInv, Child!ChildPrint
    PROVE  Child!IInv'
  <1>1. Child!TypeOK /\ Child!OutputIsKept /\ Child!ChildIsDone
    BY DEF Child!IInv
  <1>2. /\ UNCHANGED <<user, output, message, todo, writers, parent, child, received, got, status, code, said>>
        /\ printed < Len(output) /\ pipe' = Append(pipe, output[printed + 1]) /\ printed' = printed + 1
        /\ child = "running" /\ parent \notin {"exited", "crashed"}
    BY DEF Child!ChildPrint, Child!Running, Child!given, Child!result
  <1>3. parent' \in {"launch", "write", "read", "wait"}
    BY <1>1, <1>2 DEF Child!TypeOK
  <1>4. /\ Len(output) \in Nat /\ Len(got) \in Nat /\ Len(pipe) \in Nat /\ printed \in Nat
        /\ pipe \in Seq(Child!Texts) /\ got \in Seq(Child!Texts)
        /\ \A i \in 1 .. Len(output) : output[i] \in Child!Texts
        /\ output = <<>> => Len(output) = 0
    BY <1>1, PipeFacts
  <1> DEFINE e == output[printed + 1]
  <1>5. printed + 1 \in 1 .. Len(output) /\ e \in Child!Texts
    <2>1. printed + 1 \in 1 .. Len(output)
      BY <1>2, <1>4
    <2> QED
      BY <1>4, <2>1
  <1> HIDE DEF e
  <1>6. pipe' = Append(pipe, e) /\ pipe' \in Seq(Child!Texts) /\ Len(pipe') = Len(pipe) + 1
    BY <1>2, <1>4, <1>5, AppendFacts DEF e
  <1>7. Child!TypeOK'
    <2>1. printed' \in 0 .. Len(output)
      BY <1>2, <1>4
    <2> QED
      BY <1>1, <1>2, <1>6, <2>1 DEF Child!TypeOK
  <1>8. Child!OutputIsKept'
    <2> SUFFICES ASSUME user # "mail" PROVE Child!OutputIsKept'
      BY <1>2 DEF Child!OutputIsKept
    <2>1. /\ Len(got) + Len(pipe) = printed
          /\ Child!Follows(got, 0, output)
          /\ Child!Follows(pipe, Len(got), output)
      BY <1>1 DEF Child!OutputIsKept
    <2>2. /\ Len(got) + Len(pipe) + 1 = printed + 1 /\ Len(got) + Len(pipe) + 1 <= Len(output)
          /\ Len(got) + Len(pipe') = printed'
      BY <1>2, <1>4, <1>6, <2>1
    <2>3. e = output[Len(got) + Len(pipe) + 1]
      BY <2>2 DEF e
    <2>4. Child!Follows(Append(pipe, e), Len(got), output)
      BY <1>4, <1>5, <2>1, <2>2, <2>3, FollowsAppend
    <2> QED
      BY <1>2, <1>6, <2>1, <2>2, <2>4 DEF Child!OutputIsKept, Child!Follows
  <1>9. Child!MessageIsKept'
    <2>1. output # <<>>
      BY <1>2, <1>4
    <2> QED
      BY <1>2, <2>1 DEF Child!MessageIsKept
  <1>10. Child!ChildIsDone'
    BY <1>1, <1>2 DEF Child!ChildIsDone
  <1> QED
    BY <1>2, <1>3, <1>7, <1>8, <1>9, <1>10, ChildMovesLine

(* mp_subprocess_close: a multipath that ended well has printed everything, and
   all of it was read; a sendmail that ended well has read up to its dot. *)
LEMMA ChildCloses ==
    ASSUME Child!IInv, Child!mp_subprocess_close
    PROVE  Child!IInv'
  <1>1. Child!TypeOK /\ Child!OutputIsKept /\ Child!MessageIsKept /\ Child!ChildIsDone
        /\ parent = "wait" /\ child = "exited"
    BY DEF Child!IInv, Child!mp_subprocess_close
  <1>2. code = -1 /\ said = "nothing"
    BY <1>1 DEF Child!IInv
  <1>3. /\ UNCHANGED <<user, output, message, pipe, todo, writers, handler, child, printed, received, got, status>>
        /\ parent' \in {"exited", "crashed"}
        /\ \/ user = "mail" /\ said' = Child!Outcome
           \/ user = "multipath" /\ code' = Child!Verdict /\ UNCHANGED said
           \/ user = "clustat" /\ UNCHANGED said
    BY DEF Child!mp_subprocess_close, Child!given
  <1>4. Child!ChildIsDone'
    BY <1>1, <1>3 DEF Child!ChildIsDone, Child!Ended
  <1>5. Child!OkHasNoFailedPath'
    <2> SUFFICES ASSUME user = "multipath", code' = Child!STATE_OK
                 PROVE  status = 0 /\ got = output /\ "failed" \notin Child!ToSet(output)
      BY <1>3 DEF Child!OkHasNoFailedPath, Child!ToSet
    <2>1. status = 0 /\ "failed" \notin Child!ToSet(got)
      BY <1>3 DEF Child!Verdict, Child!STATE_OK, Child!STATE_WARNING, Child!STATE_CRITICAL
    <2>2. pipe = <<>> /\ printed = Len(output) /\ Child!Follows(got, 0, output) /\ Len(got) + Len(pipe) = printed
      BY <1>1, <2>1 DEF Child!ChildIsDone, Child!OutputIsKept
    <2>3. Len(got) = Len(output)
      <3>1. Len(pipe) = 0 /\ Len(got) \in Nat
        BY <1>1, <2>2, PipeFacts
      <3> QED
        BY <2>2, <3>1
    <2>4. got = output
      BY <1>1, <2>2, <2>3, PipeFacts, FollowsAll
    <2> QED
      BY <2>1, <2>4
  <1>6. Child!SentIsComplete'
    <2> SUFFICES ASSUME said' = "Mail sent.", output = <<>>
                 PROVE  received = SubSeq(Child!Mail(message), 1, Len(received)) /\ Child!Ended
      BY <1>3 DEF Child!SentIsComplete, Child!Ended, Child!Mail
    <2>1. user = "mail" /\ status = 0
      BY <1>2, <1>3 DEF Child!Outcome
    <2>2. Child!Ended /\ Child!Follows(received, 0, Child!Mail(message))
      BY <1>1, <2>1 DEF Child!ChildIsDone, Child!MessageIsKept
    <2> QED
      BY <1>1, <2>2, PipeFacts, FollowsAll
  <1> QED
    BY <1>1, <1>3, <1>4, <1>5, <1>6, ChildMovesOn

LEMMA ChildStep ==
    ASSUME Child!IInv, [Child!Next]_(Child!vars)
    PROVE  Child!IInv'
  <1> USE DEF Child!given, Child!result
  <1>1. Child!TypeOK /\ Child!ChildIsDone /\ (parent \notin {"exited", "crashed"} => code = -1 /\ said = "nothing")
        /\ Child!OkHasNoFailedPath /\ Child!SentIsComplete
    BY DEF Child!IInv
  <1>2. parent \in {"launch", "write", "read", "wait", "exited", "crashed"} /\ child \in {"none", "running", "exited"}
        /\ user \in {"multipath", "clustat", "mail"}
    BY <1>1, TransportsAssumption DEF Child!TypeOK
  <1>3. CASE UNCHANGED Child!vars
    <2>1. Child!ChildIsDone' /\ Child!OkHasNoFailedPath' /\ Child!SentIsComplete'
      BY <1>1, <1>3 DEF Child!vars, Child!ChildIsDone, Child!Ended, Child!OkHasNoFailedPath, Child!SentIsComplete,
                        Child!Mail, Child!ToSet
    <2> QED
      BY <1>1, <1>2, <1>3, <2>1, ChildMovesOn DEF Child!vars
  <1>4. CASE Child!mp_subprocess
    <2>1. /\ UNCHANGED <<user, output, message, pipe, todo, printed, received, got, status, said>> /\ parent = "launch"
          /\ parent' \in {"launch", "write", "read", "wait", "exited", "crashed"}
          /\ child' \in {"none", "running", "exited"}
          /\ parent' \notin {"exited", "crashed"} => code' = -1
          /\ code' # Child!STATE_OK /\ said = "nothing"
      BY <1>1, <1>2, <1>4 DEF Child!mp_subprocess, Child!STATE_OK, Child!STATE_CRITICAL, Child!STATE_UNKNOWN
    <2>2. Child!ChildIsDone'
      BY <1>1, <1>4, <2>1 DEF Child!mp_subprocess, Child!ChildIsDone, Child!Ended
    <2>3. Child!OkHasNoFailedPath' /\ Child!SentIsComplete'
      BY <2>1 DEF Child!OkHasNoFailedPath, Child!SentIsComplete
    <2> QED
      BY <2>1, <2>2, <2>3, ChildMovesOn
  <1>5. CASE Child!Written \/ Child!ReadEnd
    <2>1. /\ UNCHANGED <<user, output, message, pipe, todo, writers, child, printed, received, got, status, code, said>>
          /\ parent' = "wait" /\ code = -1 /\ said = "nothing"
          /\ \/ parent = "write"
             \/ parent = "read" /\ pipe = <<>> /\ writers = {}
      BY <1>1, <1>5 DEF Child!Written, Child!ReadEnd
    <2>2. Child!ChildIsDone'
      BY <1>1, <1>2, <2>1 DEF Child!ChildIsDone, Child!Ended
    <2>3. Child!OkHasNoFailedPath' /\ Child!SentIsComplete'
      BY <2>1 DEF Child!OkHasNoFailedPath, Child!SentIsComplete
    <2> QED
      BY <1>2, <2>1, <2>2, <2>3, ChildMovesOn
  <1>6. CASE Child!Alarm
    <2>1. /\ UNCHANGED <<user, output, message, pipe, todo, writers, child, printed, received, got, status, said>>
          /\ parent' = "exited" /\ code' = 2 /\ said = "nothing"
      BY <1>1, <1>6 DEF Child!Alarm, Child!STATE_CRITICAL
    <2>2. Child!ChildIsDone'
      BY <1>1, <2>1 DEF Child!ChildIsDone, Child!Ended
    <2>3. Child!OkHasNoFailedPath' /\ Child!SentIsComplete'
      BY <2>1 DEF Child!OkHasNoFailedPath, Child!SentIsComplete, Child!STATE_OK
    <2> QED
      BY <1>2, <2>1, <2>2, <2>3, ChildMovesOn
  <1>7. CASE Child!ChildExit
    <2>1. /\ UNCHANGED <<user, output, message, pipe, todo, parent, printed, received, got, code, said>>
          /\ child' = "exited" /\ parent \notin {"exited", "crashed"} /\ child = "running"
          /\ status' = 0 => printed = Len(output) /\ (user = "mail" => Child!Ended)
          /\ code = -1 /\ said = "nothing"
      BY <1>1, <1>7 DEF Child!ChildExit, Child!Running
    <2>2. Child!ChildIsDone'
      BY <1>1, <2>1 DEF Child!ChildIsDone, Child!Ended
    <2>3. Child!OkHasNoFailedPath' /\ Child!SentIsComplete'
      BY <2>1 DEF Child!OkHasNoFailedPath, Child!SentIsComplete
    <2> QED
      BY <1>2, <2>1, <2>2, <2>3, ChildMovesOn
  <1> QED
    BY <1>3, <1>4, <1>5, <1>6, <1>7, ChildWrite, ParentReads, ChildsRead, ChildPrints, ChildCloses
       DEF Child!Next, Child!Terminated

(* The invariant of the shared pipe. *)
THEOREM ChildInvariant == Spec => [](talk = "child" => Child!IInv)
  <1>1. Init => (talk = "child" => Child!IInv)
    BY ChildInit DEF Init
  <1>2. (talk = "child" => Child!IInv) /\ [Next]_vars => (talk = "child" => Child!IInv)'
    BY OneTalk, ChildStep
  <1> QED
    BY <1>1, <1>2, PTL DEF Spec

(* check_multipath is OK only for an output that was read to its end and names
   no failed path. *)
THEOREM OkWasReadWhole == Spec => []OkHasNoFailedPath
  <1>1. (talk = "child" => Child!IInv) => OkHasNoFailedPath
    BY DEF Child!IInv, OkHasNoFailedPath
  <1> QED
    BY <1>1, ChildInvariant, PTL

(* notify_mail says "Mail sent." only if a sendmail that prints nothing has read
   the notification from its beginning up to a dot. *)
THEOREM SentWasRead == Spec => []SentIsComplete
  <1>1. (talk = "child" => Child!IInv) => SentIsComplete
    BY DEF Child!IInv, SentIsComplete
  <1> QED
    BY <1>1, ChildInvariant, PTL

-----------------------------------------------------------------------------
(* mp_recv_line and check_memcached                                         *)

(* A part of a sequence: its length and its elements. *)
LEMMA PartFacts ==
    ASSUME NEW S, NEW u \in Seq(S), NEW a \in 0 .. Len(u), NEW b \in a .. Len(u)
    PROVE  /\ SubSeq(u, a + 1, b) \in Seq(S)
           /\ Len(SubSeq(u, a + 1, b)) = b - a
           /\ DOMAIN SubSeq(u, a + 1, b) = 1 .. b - a
           /\ \A i \in 1 .. b - a : a + i \in DOMAIN u /\ SubSeq(u, a + 1, b)[i] = u[a + i]
  <1> DEFINE w == SubSeq(u, a + 1, b)
  <1>1. Len(u) \in Nat /\ DOMAIN u = 1 .. Len(u) /\ a \in Nat /\ b \in Nat /\ a <= b /\ b <= Len(u)
        /\ \A i \in 1 .. Len(u) : u[i] \in S
    BY TopFacts
  <1>2. /\ w \in Seq(S)
        /\ Len(w) = IF a + 1 <= b THEN b - (a + 1) + 1 ELSE 0
        /\ \A i \in 1 .. b - (a + 1) + 1 : w[i] = u[(a + 1) + i - 1]
    <2>1. \A i \in (a + 1) .. b : u[i] \in S
      BY <1>1
    <2> QED
      BY <1>1, <2>1, SubSeqProperties
  <1> HIDE DEF w
  <1>3. (IF a + 1 <= b THEN b - (a + 1) + 1 ELSE 0) = b - a /\ b - (a + 1) + 1 = b - a /\ b - a \in Nat
    BY <1>1
  <1>4. \A i \in 1 .. b - a : (a + 1) + i - 1 = a + i /\ a + i \in 1 .. Len(u)
    BY <1>1
  <1>5. Len(w) = b - a /\ \A i \in 1 .. b - a : w[i] = u[a + i]
    BY <1>2, <1>3, <1>4
  <1>6. DOMAIN w = 1 .. b - a
    BY <1>2, <1>5, TopFacts
  <1> QED
    BY <1>1, <1>2, <1>4, <1>5, <1>6 DEF w

LEMMA PartFollows ==
    ASSUME NEW S, NEW u \in Seq(S), NEW a \in 0 .. Len(u), NEW b \in a .. Len(u),
           NEW n \in Nat, NEW text, Len(text) \in Nat, Net!Follows(u, n, text)
    PROVE  Net!Follows(SubSeq(u, a + 1, b), n + a, text)
  <1> DEFINE w == SubSeq(u, a + 1, b)
  <1>1. Len(w) = b - a /\ DOMAIN w = 1 .. b - a /\ \A i \in 1 .. b - a : a + i \in DOMAIN u /\ w[i] = u[a + i]
    BY PartFacts
  <1> HIDE DEF w
  <1>2. Len(u) \in Nat /\ a \in Nat /\ b \in Nat /\ a <= b /\ b <= Len(u)
    BY TopFacts
  <1>3. n + Len(u) <= Len(text) /\ \A i \in DOMAIN u : u[i] = text[n + i]
    BY DEF Net!Follows
  <1>4. (n + a) + Len(w) <= Len(text)
    BY <1>1, <1>2, <1>3
  <1>5. \A i \in DOMAIN w : w[i] = text[(n + a) + i]
    <2> SUFFICES ASSUME NEW i \in DOMAIN w PROVE w[i] = text[(n + a) + i]
      OBVIOUS
    <2>1. n + (a + i) = (n + a) + i
      BY <1>1, <1>2
    <2> QED
      BY <1>1, <1>3, <2>1
  <1>6. Net!Follows(w, n + a, text)
    BY <1>4, <1>5 DEF Net!Follows
  <1> QED
    BY <1>6 DEF w

LEMMA JoinFollows ==
    ASSUME NEW S, NEW u \in Seq(S), NEW v \in Seq(S), NEW n \in Nat, NEW text, Len(text) \in Nat,
           Net!Follows(u, n, text), Net!Follows(v, n + Len(u), text)
    PROVE  Net!Follows(u \o v, n, text)
  <1> DEFINE w == u \o v
  <1>1. /\ Len(w) = Len(u) + Len(v) /\ DOMAIN w = 1 .. Len(u) + Len(v)
        /\ \A i \in DOMAIN u : w[i] = u[i]
        /\ \A i \in DOMAIN v : w[Len(u) + i] = v[i]
    BY ConcatFacts
  <1> HIDE DEF w
  <1>2. Len(u) \in Nat /\ DOMAIN u = 1 .. Len(u) /\ Len(v) \in Nat /\ DOMAIN v = 1 .. Len(v)
    BY TopFacts
  <1>3. /\ (n + Len(u)) + Len(v) <= Len(text)
        /\ \A i \in DOMAIN u : u[i] = text[n + i]
        /\ \A i \in DOMAIN v : v[i] = text[(n + Len(u)) + i]
    BY DEF Net!Follows
  <1>4. n + Len(w) <= Len(text)
    BY <1>1, <1>2, <1>3
  <1>5. \A i \in DOMAIN w : w[i] = text[n + i]
    <2> SUFFICES ASSUME NEW i \in DOMAIN w PROVE w[i] = text[n + i]
      OBVIOUS
    <2>1. CASE i \in DOMAIN u
      BY <1>1, <1>3, <2>1
    <2>2. CASE i \notin DOMAIN u
      <3>1. i - Len(u) \in DOMAIN v /\ Len(u) + (i - Len(u)) = i /\ (n + Len(u)) + (i - Len(u)) = n + i
        BY <1>1, <1>2, <2>2
      <3> QED
        BY <1>1, <1>3, <3>1
    <2> QED
      BY <2>1, <2>2
  <1>6. Net!Follows(w, n, text)
    BY <1>4, <1>5 DEF Net!Follows
  <1> QED
    BY <1>6 DEF w

(* What follows the first n elements is a part of the text. *)
LEMMA FollowsIsPart ==
    ASSUME NEW S, NEW u \in Seq(S), NEW text \in Seq(S), NEW n \in Nat, Net!Follows(u, n, text)
    PROVE  u = SubSeq(text, n + 1, n + Len(u))
  <1>1. Len(u) \in Nat /\ DOMAIN u = 1 .. Len(u) /\ Len(text) \in Nat
    BY TopFacts
  <1>2. n + Len(u) <= Len(text) /\ \A i \in DOMAIN u : u[i] = text[n + i]
    BY DEF Net!Follows
  <1> DEFINE b == n + Len(u)
             w == SubSeq(text, n + 1, b)
  <1>3. n \in 0 .. Len(text) /\ b \in n .. Len(text) /\ b - n = Len(u)
    BY <1>1, <1>2
  <1> HIDE DEF b
  <1>4. w \in Seq(S) /\ Len(w) = b - n /\ \A i \in 1 .. b - n : w[i] = text[n + i]
    BY <1>3, PartFacts
  <1> HIDE DEF w
  <1>5. Len(w) = Len(u) /\ \A i \in 1 .. Len(u) : u[i] = w[i]
    BY <1>1, <1>2, <1>3, <1>4
  <1>6. u = w
    BY <1>4, <1>5, SeqEqual
  <1> QED
    BY <1>6 DEF w, b

LEMMA ChompFacts ==
    ASSUME NEW s \in Seq(STRING)
    PROVE  Net!Chomp(s) \in Seq(STRING)
  BY FrontFacts DEF Net!Chomp, Net!Front

LEMMA NetInit ==
    ASSUME Net!Init
    PROVE  Net!IInv
  <1>1. /\ offered \in Seq({"up", "down"}) /\ addrs = offered /\ stream \in Seq(STRING) /\ consumed = 0
        /\ mp_recv_line_buffer = <<>> /\ line = <<>> /\ lines = <<>> /\ sd = 0 /\ pc = "resolve" /\ code = -1
        /\ time \in {Net!STATE_OK, Net!STATE_WARNING, Net!STATE_CRITICAL}
    BY TransportsAssumption DEF Net!Init
  <1>2. /\ Len(stream) \in Nat /\ Len(offered) \in Nat /\ DOMAIN offered = 1 .. Len(offered)
        /\ Len(<<>>) = 0 /\ DOMAIN (<<>>) = {}
    BY <1>1, TopFacts
  <1>3. Net!TypeOK
    BY <1>1, <1>2 DEF Net!TypeOK
  <1>4. Net!StreamIsKept
    <2>1. <<>> \in Net!Ends /\ Net!LastEnd(<<>>) = 0
      <3>1. <<>> \in [{} -> 1 .. consumed]
        OBVIOUS
      <3> QED
        BY <1>1, <1>2, <3>1 DEF Net!Ends, Net!LastEnd
    <2>2. Net!Follows(<<>>, 0, stream)
      BY <1>2 DEF Net!Follows
    <2>3. 0 + Len(<<>>) = 0 /\ 0 + Len(<<>>) + Len(<<>>) = 0
      BY <1>2
    <2> QED
      BY <1>1, <1>2, <2>1, <2>2, <2>3 DEF Net!StreamIsKept
  <1>5. Net!Tried
    <2>1. Len(offered) - Len(addrs) = 0 /\ \A i \in DOMAIN addrs : 0 + i = i
      BY <1>1, <1>2
    <2> QED
      BY <1>1, <1>2, <2>1 DEF Net!Tried
  <1> QED
    BY <1>1, <1>2, <1>3, <1>4, <1>5
       DEF Net!IInv, Net!OnlyStats, Net!ReachableIsReached, Net!OkIsComplete, Net!STATE_OK

LEMMA LastEndFacts ==
    ASSUME lines \in Seq(Seq(STRING)), consumed \in Nat, NEW ends \in Net!Ends
    PROVE  Net!LastEnd(ends) \in 0 .. consumed /\ Net!LastEnd(ends) \in Nat
  <1>1. CASE lines = <<>>
    BY <1>1 DEF Net!LastEnd
  <1>2. CASE lines # <<>>
    <2>1. Len(lines) \in DOMAIN lines
      BY <1>2, TopFacts
    <2>2. ends[Len(lines)] \in 1 .. consumed
      BY <2>1 DEF Net!Ends
    <2> QED
      BY <1>2, <2>2 DEF Net!LastEnd
  <1> QED
    BY <1>1, <1>2

(* The next piece of the stream. *)
LEMMA NetRecv ==
    ASSUME Net!IInv, Net!Recv
    PROVE  Net!IInv'
  <1> DEFINE buf == mp_recv_line_buffer
  <1>1. Net!TypeOK /\ Net!StreamIsKept /\ Net!Tried /\ Net!OnlyStats /\ Net!ReachableIsReached /\ Net!OkIsComplete
    BY DEF Net!IInv
  <1>2. /\ stream \in Seq(STRING) /\ line \in Seq(STRING) /\ buf \in Seq(STRING) /\ lines \in Seq(Seq(STRING))
        /\ consumed \in 0 .. Len(stream) /\ Len(stream) \in Nat /\ consumed \in Nat
        /\ Len(line) \in Nat /\ Len(buf) \in Nat /\ DOMAIN line = 1 .. Len(line) /\ DOMAIN buf = 1 .. Len(buf)
        /\ DOMAIN lines = 1 .. Len(lines) /\ Len(lines) \in Nat /\ (lines # <<>> => Len(lines) \in DOMAIN lines)
    <2>1. /\ stream \in Seq(STRING) /\ line \in Seq(STRING) /\ buf \in Seq(STRING) /\ lines \in Seq(Seq(STRING))
          /\ consumed \in 0 .. Len(stream)
      BY <1>1 DEF Net!TypeOK
    <2>2. Len(stream) \in Nat
      BY <2>1, TopFacts
    <2> QED
      BY <2>1, <2>2, TopFacts
  <1>3. /\ pc = "recv" /\ UNCHANGED <<addrs, offered, stream, time, lines, sd, pc, code>>
        /\ ~Net!Contains(buf, Net!NL)
    BY DEF Net!Recv, Net!given
  <1>4. PICK len \in 1 .. RLB_LEN - 1 :
           /\ consumed + len <= Len(stream)
           /\ line' = line \o mp_recv_line_buffer
           /\ mp_recv_line_buffer' = SubSeq(stream, consumed + 1, consumed + len)
           /\ consumed' = consumed + len
    BY DEF Net!Recv
  <1>5. PICK ends \in Net!Ends :
           /\ \A k \in DOMAIN lines : Net!IsLine(ends, k)
           /\ Net!LastEnd(ends) + Len(line) + Len(mp_recv_line_buffer) = consumed
           /\ Net!Follows(line, Net!LastEnd(ends), stream)
           /\ Net!Follows(mp_recv_line_buffer, Net!LastEnd(ends) + Len(line), stream)
           /\ \A i \in DOMAIN line : line[i] # Net!NL
    BY <1>1 DEF Net!StreamIsKept
  <1> DEFINE base == Net!LastEnd(ends)
             b == consumed + len
  <1>6. base \in Nat /\ len \in Nat
    <2>1. len \in Nat
      BY TransportsAssumption
    <2>2. base \in Nat
      BY <1>2, LastEndFacts
    <2> QED
      BY <2>1, <2>2
  <1> HIDE DEF base, buf
  <1>7. b \in consumed .. Len(stream) /\ b \in Nat /\ consumed' = b /\ b - consumed = len
    BY <1>2, <1>4, <1>6
  <1> HIDE DEF b
  <1>8. /\ mp_recv_line_buffer' \in Seq(STRING) /\ Len(mp_recv_line_buffer') = len
    <2>1. SubSeq(stream, consumed + 1, b) \in Seq(STRING) /\ Len(SubSeq(stream, consumed + 1, b)) = b - consumed
      BY <1>2, <1>7, PartFacts
    <2> QED
      BY <1>4, <1>7, <2>1 DEF b
  <1>9. Net!Follows(mp_recv_line_buffer', consumed, stream)
    <2>1. Net!Follows(stream, 0, stream)
      <3>1. \A i \in DOMAIN stream : 0 + i = i
        BY <1>2, TopFacts
      <3> QED
        BY <1>2, <3>1 DEF Net!Follows
    <2>2. Net!Follows(SubSeq(stream, consumed + 1, b), 0 + consumed, stream)
      BY <1>2, <1>7, <2>1, PartFollows
    <2>3. 0 + consumed = consumed
      BY <1>2
    <2> QED
      BY <1>4, <2>2, <2>3 DEF b
  <1>10. /\ line \o buf \in Seq(STRING) /\ Len(line \o buf) = Len(line) + Len(buf)
         /\ DOMAIN (line \o buf) = 1 .. Len(line) + Len(buf)
         /\ \A i \in DOMAIN line : (line \o buf)[i] = line[i]
         /\ \A i \in DOMAIN buf : (line \o buf)[Len(line) + i] = buf[i]
    BY <1>2, ConcatFacts
  <1>11. Net!Follows(line \o buf, base, stream)
    BY <1>2, <1>5, <1>6, JoinFollows DEF base, buf
  <1>12. \A i \in DOMAIN (line \o buf) : (line \o buf)[i] # Net!NL
    <2> SUFFICES ASSUME NEW i \in DOMAIN (line \o buf) PROVE (line \o buf)[i] # Net!NL
      OBVIOUS
    <2>1. CASE i \in DOMAIN line
      BY <1>5, <1>10, <2>1
    <2>2. CASE i \notin DOMAIN line
      <3>1. i - Len(line) \in DOMAIN buf /\ Len(line) + (i - Len(line)) = i
        BY <1>2, <1>10, <2>2
      <3>2. buf[i - Len(line)] # Net!NL
        BY <1>2, <1>3, <3>1 DEF Net!Contains
      <3> QED
        BY <1>10, <3>1, <3>2
    <2> QED
      BY <2>1, <2>2
  <1>13. line' = line \o buf
    BY <1>4 DEF buf
  <1>14. Net!StreamIsKept'
    <2>1. ends \in Net!Ends'
      <3>1. 1 .. consumed \subseteq 1 .. consumed'
        BY <1>2, <1>7
      <3>2. DOMAIN lines' = DOMAIN lines
        BY <1>3
      <3> QED
        BY <3>1, <3>2 DEF Net!Ends
    <2>2. Net!LastEnd(ends)' = base
      BY <1>3 DEF Net!LastEnd, base
    <2>3. \A k \in DOMAIN lines' : Net!IsLine(ends, k)'
      BY <1>3, <1>5 DEF Net!IsLine
    <2>4. base + Len(line') = consumed
      BY <1>2, <1>5, <1>6, <1>10, <1>13 DEF base, buf
    <2>5. base + Len(line') + Len(mp_recv_line_buffer') = consumed'
      BY <1>7, <1>8, <2>4 DEF b
    <2>6. Net!Follows(line', base, stream) /\ Net!Follows(mp_recv_line_buffer', base + Len(line'), stream)
      BY <1>9, <1>11, <1>13, <2>4
    <2>7. \A i \in DOMAIN line' : line'[i] # Net!NL
      BY <1>12, <1>13
    <2> QED
      BY <1>3, <2>1, <2>2, <2>3, <2>5, <2>6, <2>7 DEF Net!StreamIsKept, Net!Follows
  <1>15. Net!TypeOK'
    <2>1. consumed' \in 0 .. Len(stream)
      BY <1>2, <1>7
    <2> QED
      BY <1>1, <1>3, <1>8, <1>10, <1>13, <2>1 DEF Net!TypeOK
  <1>16. Net!Tried' /\ Net!OnlyStats' /\ Net!ReachableIsReached' /\ Net!OkIsComplete'
    BY <1>1, <1>3 DEF Net!Tried, Net!OnlyStats, Net!ReachableIsReached, Net!OkIsComplete, Net!Stat, Net!End, Net!ToSet
  <1> QED
    BY <1>14, <1>15, <1>16 DEF Net!IInv

(* mp_recv_line returns: the line that was put together is the piece of the
   stream up to its next end of line. *)
LEMMA NetLine ==
    ASSUME Net!IInv, Net!Line
    PROVE  Net!IInv'
  <1> DEFINE buf == mp_recv_line_buffer
  <1>1. Net!TypeOK /\ Net!StreamIsKept /\ Net!Tried /\ Net!OnlyStats /\ Net!ReachableIsReached /\ Net!OkIsComplete
    BY DEF Net!IInv
  <1>2. /\ stream \in Seq(STRING) /\ line \in Seq(STRING) /\ buf \in Seq(STRING) /\ lines \in Seq(Seq(STRING))
        /\ Len(stream) \in Nat /\ consumed \in Nat /\ consumed <= Len(stream)
        /\ Len(line) \in Nat /\ Len(buf) \in Nat /\ DOMAIN line = 1 .. Len(line) /\ DOMAIN buf = 1 .. Len(buf)
        /\ DOMAIN lines = 1 .. Len(lines) /\ Len(lines) \in Nat /\ (lines = <<>> <=> Len(lines) = 0)
    <2>1. /\ stream \in Seq(STRING) /\ line \in Seq(STRING) /\ buf \in Seq(STRING) /\ lines \in Seq(Seq(STRING))
          /\ consumed \in 0 .. Len(stream)
      BY <1>1 DEF Net!TypeOK
    <2>2. Len(stream) \in Nat
      BY <2>1, TopFacts
    <2> QED
      BY <2>1, <2>2, TopFacts
  <1>3. PICK end \in DOMAIN mp_recv_line_buffer :
           /\ mp_recv_line_buffer[end] = Net!NL
           /\ \A i \in 1 .. end - 1 : mp_recv_line_buffer[i] # Net!NL
           /\ lines' = Append(lines, Net!Chomp(line \o SubSeq(mp_recv_line_buffer, 1, end - 1)))
           /\ Net!Judge(Net!Chomp(line \o SubSeq(mp_recv_line_buffer, 1, end - 1)))
           /\ mp_recv_line_buffer' = SubSeq(mp_recv_line_buffer, end + 1, Len(mp_recv_line_buffer))
    BY DEF Net!Line, Net!Rotate
  <1>4. pc = "recv" /\ line' = <<>> /\ UNCHANGED <<addrs, offered, stream, time, consumed, sd>>
    BY DEF Net!Line, Net!given
  <1>5. PICK ends \in Net!Ends :
           /\ \A k \in DOMAIN lines : Net!IsLine(ends, k)
           /\ Net!LastEnd(ends) + Len(line) + Len(mp_recv_line_buffer) = consumed
           /\ Net!Follows(line, Net!LastEnd(ends), stream)
           /\ Net!Follows(mp_recv_line_buffer, Net!LastEnd(ends) + Len(line), stream)
           /\ \A i \in DOMAIN line : line[i] # Net!NL
    BY <1>1 DEF Net!StreamIsKept
  <1> DEFINE base == Net!LastEnd(ends)
             head == SubSeq(buf, 1, end - 1)
             tail == SubSeq(buf, end + 1, Len(buf))
             raw == line \o head
             whole == Net!Chomp(raw)
             e == base + Len(line) + end
  <1> HIDE DEF buf, base
  <1>6. /\ base \in Nat /\ end \in 1 .. Len(buf) /\ end \in Nat /\ base + Len(line) + Len(buf) = consumed
        /\ end - 1 \in 0 .. Len(buf) /\ end \in 0 .. Len(buf)
    <2>1. base \in Nat /\ base + Len(line) + Len(buf) = consumed /\ end \in 1 .. Len(buf)
      BY <1>2, <1>3, <1>5, LastEndFacts DEF base, buf
    <2> QED
      BY <1>2, <2>1
  <1>7. /\ Net!Follows(line, base, stream) /\ Net!Follows(buf, base + Len(line), stream)
        /\ buf[end] = Net!NL /\ \A i \in 1 .. end - 1 : buf[i] # Net!NL
    BY <1>3, <1>5 DEF base, buf
  <1>8. /\ head \in Seq(STRING) /\ Len(head) = end - 1 /\ DOMAIN head = 1 .. end - 1
        /\ \A i \in 1 .. end - 1 : head[i] = buf[i]
        /\ Net!Follows(head, base + Len(line), stream)
    <2> DEFINE w == SubSeq(buf, 0 + 1, end - 1)
    <2>1. /\ w \in Seq(STRING) /\ Len(w) = (end - 1) - 0 /\ DOMAIN w = 1 .. (end - 1) - 0
          /\ \A i \in 1 .. (end - 1) - 0 : w[i] = buf[0 + i]
      BY <1>2, <1>6, PartFacts
    <2>2. Net!Follows(w, (base + Len(line)) + 0, stream)
      BY <1>2, <1>6, <1>7, PartFollows
    <2>3. /\ 0 + 1 = 1 /\ (end - 1) - 0 = end - 1 /\ (base + Len(line)) + 0 = base + Len(line)
          /\ \A i \in 1 .. end - 1 : 0 + i = i
      BY <1>2, <1>6
    <2>4. w = head
      BY <2>3
    <2> HIDE DEF w, head
    <2> QED
      BY <2>1, <2>2, <2>3, <2>4
  <1>9. /\ tail \in Seq(STRING) /\ Len(tail) = Len(buf) - end
        /\ Net!Follows(tail, (base + Len(line)) + end, stream)
    <2> DEFINE b == Len(buf)
               m == base + Len(line)
    <2>1. b \in end .. Len(buf) /\ m \in Nat
      BY <1>2, <1>6
    <2>2. Net!Follows(buf, m, stream)
      BY <1>7
    <2> HIDE DEF b, m
    <2>3. SubSeq(buf, end + 1, b) \in Seq(STRING) /\ Len(SubSeq(buf, end + 1, b)) = b - end
      BY <1>2, <1>6, <2>1, PartFacts
    <2>4. Net!Follows(SubSeq(buf, end + 1, b), m + end, stream)
      BY <1>2, <1>6, <2>1, <2>2, PartFollows
    <2> QED
      BY <2>3, <2>4 DEF b, m
  <1> HIDE DEF head, tail
  <1>10. /\ raw \in Seq(STRING) /\ Len(raw) = Len(line) + (end - 1) /\ Net!Follows(raw, base, stream)
         /\ DOMAIN raw = 1 .. Len(line) + (end - 1)
         /\ \A i \in DOMAIN raw : raw[i] # Net!NL
    <2>1. /\ raw \in Seq(STRING) /\ Len(raw) = Len(line) + Len(head) /\ DOMAIN raw = 1 .. Len(line) + Len(head)
          /\ \A i \in DOMAIN line : raw[i] = line[i]
          /\ \A i \in DOMAIN head : raw[Len(line) + i] = head[i]
      <3>1. line \in Seq(STRING) /\ head \in Seq(STRING)
        BY <1>2, <1>8
      <3> QED
        BY <3>1, ConcatFacts
    <2>2. Net!Follows(raw, base, stream)
      BY <1>2, <1>6, <1>7, <1>8, JoinFollows
    <2> HIDE DEF raw
    <2>3. \A i \in DOMAIN raw : raw[i] # Net!NL
      <3> SUFFICES ASSUME NEW i \in DOMAIN raw PROVE raw[i] # Net!NL
        OBVIOUS
      <3>1. CASE i \in DOMAIN line
        BY <1>5, <2>1, <3>1
      <3>2. CASE i \notin DOMAIN line
        <4>1. i - Len(line) \in DOMAIN head /\ Len(line) + (i - Len(line)) = i
          BY <1>2, <1>6, <1>8, <2>1, <3>2
        <4> QED
          BY <1>7, <1>8, <2>1, <4>1
      <3> QED
        BY <3>1, <3>2
    <2> QED
      BY <1>8, <2>1, <2>2, <2>3
  <1> HIDE DEF raw
  <1>11. raw = SubSeq(stream, base + 1, e - 1) /\ whole = Net!Chomp(SubSeq(stream, base + 1, e - 1))
    <2>1. raw = SubSeq(stream, base + 1, base + Len(raw))
      BY <1>2, <1>6, <1>10, FollowsIsPart
    <2>2. base + Len(raw) = e - 1
      BY <1>2, <1>6, <1>10
    <2> QED
      BY <2>1, <2>2
  <1>12. /\ e \in 1 .. consumed /\ e \in Nat /\ base + 1 <= e /\ stream[e] = Net!NL
         /\ \A p \in base + 1 .. e - 1 : stream[p] # Net!NL
    <2>1. e \in 1 .. consumed /\ e \in Nat /\ base + 1 <= e
      BY <1>2, <1>6
    <2>2. stream[e] = buf[end]
      <3>1. (base + Len(line)) + end = e /\ end \in DOMAIN buf
        BY <1>2, <1>6
      <3> QED
        BY <1>7, <3>1 DEF Net!Follows
    <2>3. \A p \in base + 1 .. e - 1 : stream[p] # Net!NL
      <3> SUFFICES ASSUME NEW p \in base + 1 .. e - 1 PROVE stream[p] # Net!NL
        OBVIOUS
      <3>1. p - base \in DOMAIN raw /\ base + (p - base) = p
        BY <1>2, <1>6, <1>10
      <3> QED
        BY <1>10, <3>1 DEF Net!Follows
    <2> QED
      BY <1>7, <2>1, <2>2, <2>3
  <1> HIDE DEF e
  <1>13. whole \in Seq(STRING)
    BY <1>10, ChompFacts
  <1> HIDE DEF whole
  <1>14. lines' = Append(lines, whole) /\ Net!Judge(whole) /\ mp_recv_line_buffer' = tail
    BY <1>3 DEF whole, raw, head, tail, buf
  <1> DEFINE n == Len(lines)
  <1>15. /\ lines' \in Seq(Seq(STRING)) /\ Len(lines') = n + 1 /\ DOMAIN lines' = 1 .. n + 1
         /\ lines' # <<>> /\ \A k \in 1 .. n : lines'[k] = lines[k]
         /\ lines'[n + 1] = whole
    <2>1. /\ Append(lines, whole) \in Seq(Seq(STRING)) /\ Len(Append(lines, whole)) = n + 1
          /\ Append(lines, whole) # <<>> /\ \A k \in 1 .. n : Append(lines, whole)[k] = lines[k]
          /\ Append(lines, whole)[n + 1] = whole
      BY <1>2, <1>13, AppendFacts
    <2>2. DOMAIN Append(lines, whole) = 1 .. n + 1
      BY <2>1, TopFacts
    <2> QED
      BY <1>14, <2>1, <2>2
  <1>16. n \in Nat /\ DOMAIN lines = 1 .. n /\ (lines = <<>> <=> n = 0)
    BY <1>2
  <1> HIDE DEF n
  <1>17. Net!StreamIsKept'
    <2>0. PICK new : new = [k \in 1 .. n + 1 |-> IF k = n + 1 THEN e ELSE ends[k]]
      OBVIOUS
    <2>1. /\ \A k \in 1 .. n : new[k] = ends[k]
          /\ new[n + 1] = e
      BY <1>16, <2>0
    <2>2. new \in [1 .. n + 1 -> 1 .. consumed]
      BY <1>12, <1>16, <2>0 DEF Net!Ends
    <2>3. new \in Net!Ends'
      BY <1>4, <1>15, <2>2 DEF Net!Ends
    <2>4. Net!LastEnd(new)' = e
      BY <1>15, <2>1 DEF Net!LastEnd
    <2>5. ASSUME NEW k \in DOMAIN lines'
          PROVE  Net!IsLine(new, k)'
      <3>1. CASE k \in 1 .. n
        <4>1. Net!IsLine(ends, k) /\ new[k] = ends[k] /\ lines'[k] = lines[k]
          BY <1>5, <1>15, <1>16, <2>1, <3>1
        <4>2. k # 1 => new[k - 1] = ends[k - 1]
          BY <1>16, <2>1, <3>1
        <4> QED
          BY <1>4, <4>1, <4>2 DEF Net!IsLine
      <3>2. CASE k = n + 1
        <4>1. (IF k = 1 THEN 1 ELSE new[k - 1] + 1) = base + 1
          <5>1. CASE n = 0
            BY <1>16, <3>2, <5>1 DEF base, Net!LastEnd
          <5>2. CASE n # 0
            <6>1. k # 1 /\ k - 1 = n /\ n \in 1 .. n
              BY <1>16, <3>2, <5>2
            <6>2. base = ends[n]
              BY <1>16, <5>2 DEF base, Net!LastEnd, n
            <6> QED
              BY <2>1, <6>1, <6>2
          <5> QED
            BY <5>1, <5>2
        <4>2. lines'[k] = Net!Chomp(SubSeq(stream, base + 1, e - 1)) /\ new[k] = e
          BY <1>11, <1>15, <2>1, <3>2
        <4> QED
          BY <1>4, <1>12, <4>1, <4>2 DEF Net!IsLine, Net!Chomp
      <3> QED
        BY <1>15, <1>16, <2>5, <3>1, <3>2
    <2>6. /\ Len(line') = 0 /\ DOMAIN line' = {} /\ e + Len(line') = e
          /\ e + Len(line') + Len(mp_recv_line_buffer') = consumed'
      <3>1. Len(line') = 0 /\ DOMAIN line' = {} /\ Len(mp_recv_line_buffer') = Len(buf) - end
        BY <1>4, <1>9, <1>14
      <3> QED
        BY <1>2, <1>4, <1>6, <3>1 DEF e
    <2>7. Net!Follows(line', e, stream)
      BY <1>2, <1>12, <2>6 DEF Net!Follows
    <2>8. Net!Follows(mp_recv_line_buffer', e, stream)
      BY <1>9, <1>14 DEF e
    <2> QED
      BY <1>4, <2>3, <2>4, <2>5, <2>6, <2>7, <2>8 DEF Net!StreamIsKept, Net!Follows
  <1>18. \/ Net!Stat(whole) /\ UNCHANGED <<pc, code>>
         \/ Net!End(whole) /\ pc' = "exited" /\ code' = Net!STATE_OK
         \/ pc' = "exited" /\ code' = Net!STATE_CRITICAL
    <2>1. time \in {Net!STATE_OK, Net!STATE_WARNING, Net!STATE_CRITICAL}
      BY <1>1 DEF Net!TypeOK
    <2> QED
      BY <1>14, <2>1 DEF Net!Judge, Net!Exit, Net!STATE_OK, Net!STATE_WARNING, Net!STATE_CRITICAL
  <1>19. Net!TypeOK'
    <2>1. pc' \in {"recv", "exited"}
      BY <1>4, <1>18
    <2>2. line' \in Seq(STRING)
      BY <1>4
    <2> QED
      BY <1>1, <1>4, <1>9, <1>14, <1>15, <2>1, <2>2 DEF Net!TypeOK
  <1>20. code = -1 /\ \A k \in 1 .. n : Net!Stat(lines[k])
    BY <1>1, <1>4, <1>16 DEF Net!OnlyStats
  <1>21. \A k \in 1 .. n : Net!Stat(lines'[k])
    BY <1>15, <1>20
  <1>22. Net!OnlyStats'
    <2> SUFFICES ASSUME pc' # "exited"
                 PROVE  code' = -1 /\ \A k \in 1 .. n + 1 : Net!Stat(lines'[k])
      BY <1>15 DEF Net!OnlyStats, Net!Stat
    <2>1. Net!Stat(whole) /\ code' = -1
      BY <1>18, <1>20
    <2> QED
      BY <1>15, <1>16, <1>21, <2>1
  <1>23. Net!OkIsComplete'
    <2>1. Len(lines') - 1 = n /\ Len(lines') = n + 1
      BY <1>15, <1>16
    <2>2. ASSUME code' = 0
          PROVE  Net!End(whole)
      BY <1>18, <1>20, <2>2 DEF Net!STATE_OK, Net!STATE_CRITICAL
    <2>3. code' = 0 => Net!End(lines'[Len(lines')]) /\ \A k \in 1 .. Len(lines') - 1 : Net!Stat(lines'[k])
      BY <1>15, <1>21, <2>1, <2>2
    <2>4. Net!End(lines'[Len(lines')]) => Net!End(lines[Len(lines)])'
      BY DEF Net!End
    <2>5. \A k : Net!Stat(lines'[k]) => Net!Stat(lines[k])'
      BY DEF Net!Stat
    <2> QED
      BY <1>15, <2>3, <2>4, <2>5 DEF Net!OkIsComplete, Net!STATE_OK
  <1>24. Net!Tried' /\ Net!ReachableIsReached'
    BY <1>1, <1>4, <1>18 DEF Net!Tried, Net!ReachableIsReached, Net!ToSet
  <1> QED
    BY <1>17, <1>19, <1>22, <1>23, <1>24 DEF Net!IInv

(* A step that leaves the stream, the buffer and the lines alone. *)
LEMMA NetKeepsStream ==
    ASSUME Net!StreamIsKept, UNCHANGED <<stream, consumed, mp_recv_line_buffer, line, lines>>
    PROVE  Net!StreamIsKept'
  <1>1. PICK ends \in Net!Ends :
           /\ \A k \in DOMAIN lines : Net!IsLine(ends, k)
           /\ Net!LastEnd(ends) + Len(line) + Len(mp_recv_line_buffer) = consumed
           /\ Net!Follows(line, Net!LastEnd(ends), stream)
           /\ Net!Follows(mp_recv_line_buffer, Net!LastEnd(ends) + Len(line), stream)
           /\ \A i \in DOMAIN line : line[i] # Net!NL
    BY DEF Net!StreamIsKept
  <1>2. ends \in Net!Ends'
    BY DEF Net!Ends
  <1>3. PICK base : base = Net!LastEnd(ends)
    OBVIOUS
  <1>4. Net!LastEnd(ends)' = base
    BY <1>3 DEF Net!LastEnd
  <1>5. \A k \in DOMAIN lines' : Net!IsLine(ends, k)'
    BY <1>1 DEF Net!IsLine
  <1>6. /\ base + Len(line') + Len(mp_recv_line_buffer') = consumed'
        /\ Net!Follows(line', base, stream') /\ Net!Follows(mp_recv_line_buffer', base + Len(line'), stream')
        /\ \A i \in DOMAIN line' : line'[i] # Net!NL
    BY <1>1, <1>3
  <1> QED
    BY <1>2, <1>4, <1>5, <1>6 DEF Net!StreamIsKept, Net!Follows

(* The addresses are tried in turn. *)
LEMMA NetConnect ==
    ASSUME Net!IInv, Net!mp_connect
    PROVE  Net!IInv'
  <1>1. Net!TypeOK /\ Net!StreamIsKept /\ Net!Tried /\ Net!OnlyStats /\ Net!ReachableIsReached /\ Net!OkIsComplete
    BY DEF Net!IInv
  <1>2. /\ pc = "connect" /\ UNCHANGED <<offered, stream, time, consumed, mp_recv_line_buffer, line, lines>>
        /\ \/ addrs = <<>> /\ pc' = "exited" /\ code' = Net!STATE_CRITICAL /\ UNCHANGED <<addrs, sd>>
           \/ /\ addrs # <<>> /\ addrs' = Tail(addrs) /\ UNCHANGED code
              /\ IF Head(addrs) = "up" THEN sd' = Len(offered) - Len(addrs) + 1 /\ pc' = "recv"
                                       ELSE UNCHANGED <<sd, pc>>
    BY DEF Net!mp_connect, Net!given, Net!reading, Net!Exit
  <1>3. Net!StreamIsKept'
    BY <1>1, <1>2, NetKeepsStream
  <1>4. /\ offered \in Seq({"up", "down"}) /\ addrs \in Seq({"up", "down"})
        /\ Len(offered) \in Nat /\ Len(addrs) \in Nat /\ DOMAIN offered = 1 .. Len(offered)
        /\ DOMAIN addrs = 1 .. Len(addrs) /\ (addrs = <<>> => Len(addrs) = 0)
    BY <1>1, TopFacts DEF Net!TypeOK
  <1>5. /\ Len(addrs) <= Len(offered) /\ sd = 0
        /\ \A i \in DOMAIN addrs : addrs[i] = offered[Len(offered) - Len(addrs) + i]
        /\ \A k \in 1 .. Len(offered) - Len(addrs) : offered[k] = "down"
    BY <1>1, <1>2 DEF Net!Tried
  <1>6. code = -1 /\ \A k \in DOMAIN lines : Net!Stat(lines[k])
    BY <1>1, <1>2 DEF Net!OnlyStats
  <1>7. Net!OkIsComplete' /\ Net!OnlyStats'
    BY <1>2, <1>6 DEF Net!OkIsComplete, Net!OnlyStats, Net!STATE_OK, Net!STATE_CRITICAL, Net!Stat
  <1>8. CASE addrs = <<>>
    <2>1. Net!TypeOK'
      BY <1>1, <1>2, <1>8 DEF Net!TypeOK
    <2>2. Net!Tried' /\ Net!ReachableIsReached'
      BY <1>1, <1>2, <1>5, <1>8 DEF Net!Tried, Net!ReachableIsReached
    <2> QED
      BY <1>3, <1>7, <2>1, <2>2 DEF Net!IInv
  <1>9. CASE addrs # <<>>
    <2> DEFINE m == Len(offered) - Len(addrs)
               rest == Tail(addrs)
    <2>1. /\ Head(addrs) = addrs[1] /\ Head(addrs) \in {"up", "down"} /\ 1 \in DOMAIN addrs
          /\ rest \in Seq({"up", "down"}) /\ Len(rest) = Len(addrs) - 1 /\ DOMAIN rest = 1 .. Len(addrs) - 1
          /\ \A i \in DOMAIN rest : i + 1 \in DOMAIN addrs /\ rest[i] = addrs[i + 1]
      BY <1>4, <1>9, TailFacts
    <2> HIDE DEF rest
    <2>2. m \in Nat /\ Len(offered) - Len(rest) = m + 1 /\ Len(rest) <= Len(offered) /\ m + 1 <= Len(offered)
          /\ Len(rest) \in Nat
      BY <1>4, <1>5, <2>1
    <2>3. /\ offered[m + 1] = Head(addrs) /\ \A k \in 1 .. m : offered[k] = "down"
          /\ \A i \in DOMAIN addrs : addrs[i] = offered[m + i]
      BY <1>5, <2>1
    <2> HIDE DEF m
    <2>4. \A i \in DOMAIN rest : rest[i] = offered[(m + 1) + i]
      <3> SUFFICES ASSUME NEW i \in DOMAIN rest PROVE rest[i] = offered[(m + 1) + i]
        OBVIOUS
      <3>1. m + (i + 1) = (m + 1) + i
        BY <1>4, <2>1, <2>2
      <3> QED
        BY <2>1, <2>3, <3>1
    <2>5. addrs' = rest
      BY <1>2, <1>9 DEF rest
    <2>6. CASE Head(addrs) = "up"
      <3>1. sd' = m + 1 /\ pc' = "recv" /\ code' = code
        BY <1>2, <1>9, <2>6 DEF m
      <3>2. Net!TypeOK'
        BY <1>1, <1>2, <2>1, <2>5, <3>1 DEF Net!TypeOK
      <3>3. Net!Tried'
        BY <1>2, <2>2, <2>4, <2>5, <3>1 DEF Net!Tried
      <3>4. Net!ReachableIsReached'
        <4>1. sd' - 1 = m /\ sd' = m + 1
          BY <2>2, <3>1
        <4>2. offered'[sd'] = "up"
          BY <1>2, <2>3, <2>6, <4>1
        <4>3. \A k \in 1 .. sd' - 1 : offered'[k] = "down"
          BY <1>2, <2>3, <4>1
        <4> QED
          BY <3>1, <4>2, <4>3 DEF Net!ReachableIsReached
      <3> QED
        BY <1>3, <1>7, <3>2, <3>3, <3>4 DEF Net!IInv
    <2>7. CASE Head(addrs) # "up"
      <3>1. sd' = 0 /\ pc' = "connect" /\ code' = code
        BY <1>2, <1>5, <1>9, <2>7
      <3>2. \A k \in 1 .. m + 1 : offered[k] = "down"
        BY <2>1, <2>2, <2>3, <2>7
      <3>3. Net!TypeOK'
        BY <1>1, <1>2, <2>1, <2>5, <3>1 DEF Net!TypeOK
      <3>4. Net!Tried'
        BY <1>2, <2>2, <2>4, <2>5, <3>1, <3>2 DEF Net!Tried
      <3>5. Net!ReachableIsReached'
        <4>1. rest = <<>> => m + 1 = Len(offered)
          <5>1. rest = <<>> => Len(rest) = 0
            BY <2>1, TopFacts
          <5>2. Len(rest) = 0 => Len(offered) - 0 = m + 1
            BY <2>2
          <5>3. Len(offered) \in Nat
            BY <1>4
          <5>4. Len(offered) - 0 = Len(offered)
            BY <5>3
          <5> QED
            BY <5>1, <5>2, <5>4
        <4>2. rest = <<>> => \A k \in DOMAIN offered : offered[k] # "up"
          BY <1>4, <3>2, <4>1
        <4> QED
          BY <1>2, <2>5, <3>1, <4>2 DEF Net!ReachableIsReached, Net!ToSet
      <3> QED
        BY <1>3, <1>7, <3>3, <3>4, <3>5 DEF Net!IInv
    <2> QED
      BY <2>6, <2>7
  <1> QED
    BY <1>8, <1>9

LEMMA NetStep ==
    ASSUME Net!IInv, [Net!Next]_(Net!vars)
    PROVE  Net!IInv'
  <1>1. CASE UNCHANGED Net!vars
    <2>1. Net!StreamIsKept'
      BY <1>1, NetKeepsStream DEF Net!vars, Net!IInv
    <2> QED
      BY <1>1, <2>1 DEF Net!vars, Net!IInv, Net!TypeOK, Net!Tried, Net!OnlyStats, Net!ReachableIsReached,
                        Net!OkIsComplete, Net!Stat, Net!End, Net!ToSet
  <1>2. CASE Net!mp_getaddrinfo \/ Net!RecvFails \/ Net!Alarm
    <2>1. /\ UNCHANGED <<addrs, offered, stream, time, consumed, mp_recv_line_buffer, line, lines, sd>>
          /\ pc # "exited"
          /\ \/ pc = "resolve" /\ pc' = "connect" /\ code' = code
             \/ pc' = "exited" /\ code' \in {2, 3}
             \/ pc = "recv" /\ pc' \in {"spin", "crashed"} /\ code' = code
      BY <1>2 DEF Net!mp_getaddrinfo, Net!RecvFails, Net!Alarm, Net!Exit, Net!given, Net!reading,
                  Net!STATE_CRITICAL, Net!STATE_UNKNOWN
    <2>2. Net!StreamIsKept'
      BY <2>1, NetKeepsStream DEF Net!IInv
    <2>3. Net!TypeOK'
      BY <2>1 DEF Net!IInv, Net!TypeOK
    <2>4. Net!Tried'
      BY <2>1 DEF Net!IInv, Net!Tried
    <2>5. Net!ReachableIsReached'
      <3>1. ASSUME pc = "resolve", addrs = <<>>
            PROVE  \A k \in DOMAIN offered : offered[k] # "up"
        <4>1. Len(addrs) = 0 /\ Len(offered) \in Nat /\ DOMAIN offered = 1 .. Len(offered)
          BY <3>1, TopFacts DEF Net!IInv, Net!TypeOK
        <4>2. \A k \in 1 .. Len(offered) - Len(addrs) : offered[k] = "down"
          BY <3>1 DEF Net!IInv, Net!Tried
        <4> QED
          BY <4>1, <4>2
      <3> QED
        BY <2>1, <3>1 DEF Net!IInv, Net!ReachableIsReached, Net!ToSet
    <2>6. Net!OnlyStats' /\ Net!OkIsComplete'
      BY <2>1 DEF Net!IInv, Net!OnlyStats, Net!OkIsComplete, Net!Stat, Net!STATE_OK
    <2> QED
      BY <2>2, <2>3, <2>4, <2>5, <2>6 DEF Net!IInv
  <1> QED
    BY <1>1, <1>2, NetRecv, NetLine, NetConnect DEF Net!Next, Net!Terminated

(* The invariant of the stream and its buffer. *)
THEOREM NetInvariant == Spec => [](talk = "net" => Net!IInv)
  <1>1. Init => (talk = "net" => Net!IInv)
    BY NetInit DEF Init
  <1>2. (talk = "net" => Net!IInv) /\ [Next]_vars => (talk = "net" => Net!IInv)'
    BY OneTalk, NetStep
  <1> QED
    BY <1>1, <1>2, PTL DEF Spec

(* mp_recv_line returns the lines of the stream whatever pieces recv hands out;
   check_memcached reaches a server that can be reached and is OK only for a
   whole answer. *)
THEOREM LinesAreWhole == Spec => []LinesAreLines
  <1>1. ASSUME Net!IInv
        PROVE  Net!LinesAreLines
    <2>1. PICK ends \in Net!Ends :
             /\ \A k \in DOMAIN lines : Net!IsLine(ends, k)
             /\ Net!LastEnd(ends) + Len(line) + Len(mp_recv_line_buffer) = consumed
             /\ Net!Follows(line, Net!LastEnd(ends), stream)
             /\ Net!Follows(mp_recv_line_buffer, Net!LastEnd(ends) + Len(line), stream)
             /\ \A i \in DOMAIN line : line[i] # Net!NL
      BY <1>1 DEF Net!IInv, Net!StreamIsKept
    <2> DEFINE base == Net!LastEnd(ends)
               buf == mp_recv_line_buffer
    <2>2. /\ line \in Seq(STRING) /\ buf \in Seq(STRING) /\ lines \in Seq(Seq(STRING)) /\ stream \in Seq(STRING)
          /\ consumed \in 0 .. Len(stream)
      BY <1>1 DEF Net!IInv, Net!TypeOK
    <2>3. /\ Len(line) \in Nat /\ DOMAIN line = 1 .. Len(line) /\ Len(buf) \in Nat /\ DOMAIN buf = 1 .. Len(buf)
          /\ Len(stream) \in Nat
      BY <2>2, TopFacts
    <2>4. consumed \in Nat
      BY <2>2, <2>3
    <2>5. base \in Nat
      BY <2>2, <2>4, LastEndFacts
    <2>6. base + Len(line) + Len(buf) = consumed
      BY <2>1
    <2>7. /\ \A i \in DOMAIN line : line[i] = stream[base + i]
          /\ \A i \in DOMAIN buf : buf[i] = stream[(base + Len(line)) + i]
      BY <2>1 DEF Net!Follows
    <2> HIDE DEF base, buf
    <2>8. ASSUME ~Net!Contains(buf, Net!NL), NEW p \in base + 1 .. consumed
          PROVE  stream[p] # Net!NL
      <3>1. CASE p <= base + Len(line)
        <4>1. p - base \in DOMAIN line /\ base + (p - base) = p
          BY <2>3, <2>4, <2>5, <2>8, <3>1
        <4> QED
          BY <2>1, <2>7, <4>1
      <3>2. CASE p > base + Len(line)
        <4>1. p - (base + Len(line)) \in DOMAIN buf /\ (base + Len(line)) + (p - (base + Len(line))) = p
          BY <2>3, <2>4, <2>5, <2>6, <2>8, <3>2
        <4>2. buf[p - (base + Len(line))] # Net!NL
          BY <2>3, <2>8, <4>1 DEF Net!Contains
        <4> QED
          BY <2>7, <4>1, <4>2
      <3> QED
        BY <2>3, <2>4, <2>5, <2>8, <3>1, <3>2
    <2> QED
      BY <2>1, <2>8 DEF Net!LinesAreLines, base, buf
  <1>2. (talk = "net" => Net!IInv) => LinesAreLines
    BY <1>1 DEF Net!IInv, LinesAreLines
  <1> QED
    BY <1>2, NetInvariant, PTL
===============================================================================
