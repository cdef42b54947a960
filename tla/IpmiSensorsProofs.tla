-------------------------- MODULE IpmiSensorsProofs --------------------------
(* Proofs about the IPMI plugins, for every device, every set of names and
   whatever order the library's callbacks come in.                          *)
EXTENDS IpmiSensors, SeqFacts

-----------------------------------------------------------------------------
(* The list                                                                 *)

(* Every entry is one of EntryType. *)
LEMMA ListFacts ==
    ASSUME TypeOK
    PROVE  /\ Len(mp_ipmi_sensors) \in Nat
           /\ DOMAIN mp_ipmi_sensors = 1 .. Len(mp_ipmi_sensors)
           /\ \A j \in DOMAIN mp_ipmi_sensors : mp_ipmi_sensors[j] \in EntryType
           /\ Len(named) \in Nat /\ DOMAIN named = 1 .. Len(named)
           /\ named = <<>> <=> Len(named) = 0
           /\ Len(device) \in Nat /\ Sensors = 1 .. Len(device)
           /\ \A n \in Sensors : device[n] \in Kinds
  BY TopFacts DEF TypeOK, Sensors

(* Index finds the entry of a sensor that has one. *)
LEMMA IndexFacts ==
    ASSUME EntriesFit, NEW n, Present(n)
    PROVE  /\ Index(n) \in DOMAIN mp_ipmi_sensors
           /\ Its(n) = mp_ipmi_sensors[Index(n)] /\ Its(n).sensor = n
           /\ \A j \in DOMAIN mp_ipmi_sensors : mp_ipmi_sensors[j].sensor = n => j = Index(n)
  <1>1. /\ Index(n) \in DOMAIN mp_ipmi_sensors
        /\ mp_ipmi_sensors[Index(n)].sensor = n
    BY DEF Present, Index
  <1> QED
    BY <1>1 DEF EntriesFit, Its

(* What a kind of sensor can be asked for. *)
LEMMA RequestFacts ==
    ASSUME TypeOK, RequestsFit, NEW what, NEW n, <<what, n>> \in pending
    PROVE  /\ n \in 1 .. added /\ n \in Sensors
           /\ what \in {"reading", "thresholds"} =>
                 device[n].type = "threshold" /\ device[n].condition \in Severities
           /\ what = "states" => /\ device[n].type # "threshold" /\ device[n].condition \in Conditions
                                 /\ plugin \notin {"sensor", "fan"}
  <1>1. PICK i \in 1 .. added : <<what, n>> \in Requests(i)
    BY DEF RequestsFit
  <1>2. /\ n = i /\ n \in 1 .. added
        /\ what \in {"reading", "thresholds"} => device[n].type = "threshold"
        /\ what = "states" => device[n].type # "threshold" /\ plugin \notin {"sensor", "fan"}
    BY <1>1 DEF Requests
  <1>3. n \in Sensors
    BY <1>2, ListFacts DEF TypeOK
  <1>4. device[n] \in Kinds
    BY <1>3, ListFacts
  <1>5. /\ device[n].type = "threshold" => device[n].condition \in Severities
        /\ device[n].type # "threshold" => device[n].condition \in Conditions
    BY <1>4, IpmiAssumption
  <1> QED
    BY <1>2, <1>3, <1>5

(* What an entry says of its sensor and of the answers there were: the second
   part of EntriesFit, with the answers as arguments. *)
Fits(e, requests, without) ==
    /\ e.thresholds \/ e.value # UNSET \/ ~e.name => device[e.sensor].type = "threshold"
    /\ ~e.name => e.sensor \in without
    /\ IF e.states = "NULL"
       THEN \/ device[e.sensor].type = "threshold"
            \/ plugin \in {"sensor", "fan"}
            \/ <<"states", e.sensor>> \in requests
       ELSE device[e.sensor].type # "threshold" /\ plugin \notin {"sensor", "fan"}

LEMMA FitsFacts ==
    ASSUME EntriesFit, NEW j \in DOMAIN mp_ipmi_sensors
    PROVE  /\ mp_ipmi_sensors[j].sensor \in 1 .. added
           /\ Fits(mp_ipmi_sensors[j], pending, valueless)
  BY DEF EntriesFit, Fits, IsThreshold

LEMMA FitsAgain ==
    ASSUME UNCHANGED options,
           \A i, j \in DOMAIN mp_ipmi_sensors' :
              mp_ipmi_sensors'[i].sensor = mp_ipmi_sensors'[j].sensor => i = j,
           \A j \in DOMAIN mp_ipmi_sensors' :
              /\ mp_ipmi_sensors'[j].sensor \in 1 .. added'
              /\ Fits(mp_ipmi_sensors'[j], pending', valueless')
    PROVE  EntriesFit'
  BY DEF EntriesFit, Fits, IsThreshold, options

(* What is missing when a name or states are. *)
LEMMA MissingFacts ==
    ASSUME EntriesFit, NEW j \in DOMAIN mp_ipmi_sensors
    PROVE  /\ ~ mp_ipmi_sensors[j].name => SomethingIsMissing
           /\ /\ mp_ipmi_sensors[j].states = "NULL"
              /\ plugin \notin {"sensor", "fan"}
              /\ plugin = "mem" \/ ~ IsThreshold(mp_ipmi_sensors[j])
              => SomethingIsMissing
  <1>1. Fits(mp_ipmi_sensors[j], pending, valueless)
    BY FitsFacts
  <1> QED
    BY <1>1 DEF Fits, SomethingIsMissing, IsThreshold

-----------------------------------------------------------------------------
(* Steps that leave the list alone                                          *)

(* They preserve the invariant if what is judged is. *)
LEMMA SameList ==
    ASSUME IInv, UNCHANGED <<options, loop>>, pc' # "init", pc' = "judge" => pc = "judge",
           TypeOK', code' = STATE_OK => state' = STATE_OK /\ pc' = "exited", JudgedSoFar',
           pc' = "crashed" => SomethingIsMissing
    PROVE  IInv'
  <1>1. RequestsFit' /\ EntriesFit'
    BY DEF IInv, RequestsFit, EntriesFit, Requests, IsThreshold, options, loop
  <1>2. AllAreListed'
    BY DEF AllAreListed
  <1>3. NothingForgotten'
    BY DEF IInv, NothingForgotten, Sensors, Listened, Present, options, loop
  <1>4. AnsweredDoesNotCrash'
    BY DEF AnsweredDoesNotCrash, SomethingIsMissing, IsThreshold, options, loop
  <1> QED
    BY <1>1, <1>2, <1>3, <1>4 DEF IInv

(* A verdict that stays, with no more places. *)
LEMMA SameVerdict ==
    ASSUME JudgedSoFar, UNCHANGED <<options, loop>>, k' = k, state' = state
    PROVE  JudgedSoFar'
  BY DEF JudgedSoFar, Present, Its, Index, Asked, Fine, options, loop

LEMMA ExitSteps ==
    ASSUME IInv, InitFails \/ Timeout \/ Report
    PROVE  IInv'
  <1>0. TypeOK /\ JudgedSoFar /\ (code = STATE_OK => state = STATE_OK /\ pc = "exited")
    BY DEF IInv
  <1>1. /\ UNCHANGED <<options, loop>> /\ k' = k /\ state' = state /\ pc' = "exited"
        /\ code' \in {STATE_UNKNOWN, STATE_CRITICAL, state}
    BY DEF InitFails, Timeout, Report
  <1>2. TypeOK' /\ (code' = STATE_OK => state' = STATE_OK)
    BY <1>0, <1>1 DEF TypeOK, options, loop, STATE_OK, STATE_CRITICAL, STATE_UNKNOWN
  <1> QED
    BY <1>0, <1>1, <1>2, SameVerdict, SameList

LEMMA CrashStep ==
    ASSUME IInv, Crash, pc = "judge", SomethingIsMissing
    PROVE  IInv'
  <1>0. TypeOK /\ JudgedSoFar /\ (code = STATE_OK => state = STATE_OK /\ pc = "exited")
    BY DEF IInv
  <1>1. UNCHANGED <<options, loop>> /\ k' = k /\ state' = state /\ pc' = "crashed" /\ code' = code
    BY DEF Crash, verdict
  <1>2. TypeOK'
    BY <1>0, <1>1 DEF TypeOK, options, loop
  <1> QED
    BY <1>0, <1>1, <1>2, SameVerdict, SameList

(* A verdict: the state is the worst of all so far. *)
LEMMA SayFacts ==
    ASSUME IInv, pc = "judge", NEW next \in Nat \ {0}, NEW r, r \subseteq STATE_OK .. STATE_CRITICAL,
           Say(next, r)
    PROVE  /\ TypeOK' /\ UNCHANGED <<options, loop, pc, code>> /\ k' = next
           /\ state' = STATE_OK => state = STATE_OK /\ STATE_OK \in r
  <1>0. TypeOK
    BY DEF IInv
  <1>1. PICK s \in r : state' = IF s > state THEN s ELSE state
    BY DEF Say
  <1>2. /\ state' \in STATE_OK .. STATE_CRITICAL
        /\ state' = STATE_OK => state = STATE_OK /\ s = STATE_OK
    BY <1>0, <1>1 DEF TypeOK, STATE_OK, STATE_CRITICAL
  <1> QED
    BY <1>0, <1>1, <1>2 DEF TypeOK, Say, options, loop

(* One entry of the list is judged or passed over. *)
LEMMA JudgeEntry ==
    ASSUME IInv, pc = "judge", k <= Len(mp_ipmi_sensors), ~ (plugin = "fan" /\ named # <<>>),
           NEW r, r \subseteq STATE_OK .. STATE_CRITICAL,
           Say(k + 1, r) \/ Pass,
           Say(k + 1, r) /\ STATE_OK \in r /\ Asked(mp_ipmi_sensors[k].sensor) => Fine(mp_ipmi_sensors[k]),
           ~ Say(k + 1, r) /\ Asked(mp_ipmi_sensors[k].sensor) => Fine(mp_ipmi_sensors[k])
    PROVE  IInv'
  <1>0. TypeOK /\ JudgedSoFar /\ code # STATE_OK /\ k + 1 \in Nat \ {0}
    BY DEF IInv, TypeOK
  <1>1. /\ TypeOK' /\ UNCHANGED <<options, loop, pc, code>> /\ k' = k + 1
        /\ state' = STATE_OK => state = STATE_OK
        /\ state' = STATE_OK /\ Asked(mp_ipmi_sensors[k].sensor) => Fine(mp_ipmi_sensors[k])
    <2>1. CASE Say(k + 1, r)
      BY <1>0, <2>1, SayFacts
    <2>2. CASE Pass /\ ~ Say(k + 1, r)
      BY <1>0, <2>2 DEF TypeOK, Pass, options, loop
    <2> QED
      BY <2>1, <2>2
  <1>2. JudgedSoFar'
    <2> SUFFICES ASSUME state' = STATE_OK, ~ (plugin = "mem" /\ named # <<>>),
                        NEW j \in DOMAIN mp_ipmi_sensors, j < k + 1, Asked(mp_ipmi_sensors[j].sensor)
                 PROVE  Fine(mp_ipmi_sensors[j])
      BY <1>1 DEF JudgedSoFar, options, loop, Asked, Fine
    <2>1. j < k \/ j = k
      BY <1>0, ListFacts DEF TypeOK
    <2> QED
      BY <1>0, <1>1, <2>1 DEF JudgedSoFar
  <1> QED
    BY <1>0, <1>1, <1>2, SameList

(* What get_status says of an entry that can only have thresholds. *)
LEMMA StatusFacts ==
    ASSUME NEW e \in EntryType
    PROVE  /\ get_status(e) \subseteq STATE_OK .. STATE_CRITICAL
           /\ STATE_OK \in get_status(e) /\ e.states = "NULL" => Fine(e)
  BY DEF EntryType, get_status, Fine, STATE_OK, STATE_WARNING, STATE_CRITICAL, UNSET, Severities

(* The entry that is judged. *)
LEMMA EntryFacts ==
    ASSUME IInv, NEW j \in DOMAIN mp_ipmi_sensors
    PROVE  /\ mp_ipmi_sensors[j] \in EntryType
           /\ plugin \in {"sensor", "fan"} => mp_ipmi_sensors[j].states = "NULL"
           /\ mp_ipmi_sensors[j].states # "NULL" => ~ IsThreshold(mp_ipmi_sensors[j])
           /\ mp_ipmi_sensors[j].thresholds => IsThreshold(mp_ipmi_sensors[j])
  BY ListFacts DEF IInv, EntriesFit

LEMMA ListSteps ==
    ASSUME IInv, JudgeSensor \/ JudgeFan \/ JudgeDimm \/ JudgePsu
    PROVE  IInv'
  <1> DEFINE e == mp_ipmi_sensors[k]
  <1>0. TypeOK /\ pc = "judge" /\ k <= Len(mp_ipmi_sensors) /\ k \in DOMAIN mp_ipmi_sensors
    BY ListFacts DEF IInv, TypeOK, JudgeSensor, JudgeFan, JudgeDimm, JudgePsu
  <1>1. /\ e \in EntryType
        /\ plugin \in {"sensor", "fan"} => e.states = "NULL"
        /\ e.states # "NULL" => ~ IsThreshold(e)
        /\ e.thresholds => IsThreshold(e)
    BY <1>0, EntryFacts
  <1>2. get_status(e) \subseteq STATE_OK .. STATE_CRITICAL
    BY <1>1, StatusFacts
  <1>3. STATE_OK \in get_status(e) /\ e.states = "NULL" => Fine(e)
    BY <1>1, StatusFacts
  <1>4. ~ e.thresholds /\ e.states # "bad" => Fine(e)
    BY DEF Fine
  <1>5. \A n : Asked(n) => /\ named # <<>> => n \in ToSet(named)
                           /\ n \notin exclude
                           /\ plugin = "psu" => device[n].entity = "own" /\ device[n].type = "power"
    BY DEF Asked
  <1>5a. /\ ~ e.name => SomethingIsMissing
         /\ /\ e.states = "NULL" /\ plugin \notin {"sensor", "fan"}
            /\ plugin = "mem" \/ ~ IsThreshold(e)
            => SomethingIsMissing
    BY <1>0, MissingFacts DEF IInv
  <1> HIDE DEF e
  <1>6. CASE JudgeSensor
    <2>1. \/ Crash /\ SomethingIsMissing
          \/ Pass /\ ~ Asked(e.sensor)
          \/ Say(k + 1, get_status(e))
      BY <1>5, <1>5a, <1>6 DEF JudgeSensor, PerfdataCrash, e
    <2> QED
      BY <1>0, <1>1, <1>2, <1>3, <1>6, <2>1, CrashStep, JudgeEntry DEF JudgeSensor, e
  <1>7. CASE JudgeFan
    <2>1. \/ Crash /\ SomethingIsMissing
          \/ Pass /\ ~ IsThreshold(e)
          \/ Say(k + 1, get_status(e))
      BY <1>5a, <1>7 DEF JudgeFan, PerfdataCrash, e
    <2> QED
      BY <1>0, <1>1, <1>2, <1>3, <1>4, <1>7, <2>1, CrashStep, JudgeEntry DEF JudgeFan, e
  <1>8. CASE JudgeDimm
    <2> DEFINE r == {IF e.states = "bad" THEN STATE_CRITICAL ELSE STATE_OK}
    <2>1. \/ Crash /\ SomethingIsMissing
          \/ e.states # "NULL" /\ Say(k + 1, r)
      BY <1>5a, <1>8 DEF JudgeDimm, e
    <2>2. r \subseteq STATE_OK .. STATE_CRITICAL /\ (STATE_OK \in r => e.states # "bad")
      BY DEF STATE_OK, STATE_CRITICAL
    <2> HIDE DEF r
    <2> QED
      BY <1>0, <1>1, <1>4, <1>8, <2>1, <2>2, CrashStep, JudgeEntry DEF JudgeDimm, e
  <1>9. CASE JudgePsu
    <2> DEFINE r == {IF e.states = "good" THEN STATE_OK ELSE STATE_CRITICAL}
    <2>2. \/ Crash /\ SomethingIsMissing
          \/ Pass /\ ~ Asked(e.sensor)
          \/ e.states # "NULL" /\ Say(k + 1, r)
      BY <1>5, <1>5a, <1>9 DEF JudgePsu, PerfdataCrash, e, IsThreshold
    <2>3. r \subseteq STATE_OK .. STATE_CRITICAL /\ (STATE_OK \in r => e.states # "bad")
      BY DEF STATE_OK, STATE_CRITICAL
    <2> HIDE DEF r
    <2> QED
      BY <1>0, <1>1, <1>4, <1>9, <2>2, <2>3, CrashStep, JudgeEntry DEF JudgePsu, e
  <1> QED
    BY <1>6, <1>7, <1>8, <1>9

LEMMA NamedSteps ==
    ASSUME IInv, NamedFan \/ NamedDimm
    PROVE  IInv'
  <1>0. /\ TypeOK /\ EntriesFit /\ JudgedSoFar /\ pc = "judge" /\ code # STATE_OK
        /\ k \in 1 .. Len(named) /\ Len(named) \in Nat /\ named # <<>>
        /\ k + 1 \in Nat \ {0} /\ Len(named) + 1 \in Nat \ {0}
    BY ListFacts DEF IInv, TypeOK, NamedFan, NamedDimm
  <1>1. Present(named[k]) => /\ Its(named[k]) \in EntryType
                             /\ plugin = "fan" => Its(named[k]).states = "NULL"
    BY <1>0, IndexFacts, EntryFacts
  <1>1a. Nameless(named[k]) => SomethingIsMissing
    BY <1>0, MissingFacts DEF Nameless, Search
  <1>2. CASE NamedFan
    <2> DEFINE r == IF Present(named[k]) THEN get_status(Its(named[k])) ELSE {STATE_CRITICAL}
    <2>1. (Crash /\ SomethingIsMissing) \/ Say(k + 1, r)
      BY <1>1a, <1>2 DEF NamedFan
    <2>2. r \subseteq STATE_OK .. STATE_CRITICAL
      BY <1>1, StatusFacts DEF STATE_OK, STATE_CRITICAL
    <2>3. STATE_OK \in r => Present(named[k]) /\ Fine(Its(named[k]))
      BY <1>1, <1>2, StatusFacts DEF NamedFan, STATE_OK, STATE_CRITICAL
    <2> HIDE DEF r
    <2>4. ASSUME Say(k + 1, r) PROVE IInv'
      <3>1. /\ TypeOK' /\ UNCHANGED <<options, loop, pc, code>> /\ k' = k + 1
            /\ state' = STATE_OK => state = STATE_OK /\ STATE_OK \in r
        BY <1>0, <2>2, <2>4, SayFacts
      <3>2. JudgedSoFar'
        <4>1. ASSUME state' = STATE_OK, NEW i \in 1 .. Len(named), i < k + 1
              PROVE  Present(named[i]) /\ Fine(Its(named[i]))
          <5>1. i < k \/ i = k
            BY <1>0, <4>1
          <5> QED
            BY <1>0, <1>2, <2>3, <3>1, <4>1, <5>1 DEF JudgedSoFar, NamedFan
        <4> QED
          BY <1>0, <1>2, <3>1, <4>1
             DEF JudgedSoFar, NamedFan, options, loop, Present, Its, Index, Fine
      <3> QED
        BY <1>0, <3>1, <3>2, SameList
    <2> QED
      BY <1>0, <2>1, <2>4, CrashStep
  <1>3. CASE NamedDimm
    <2>1. \/ Crash /\ SomethingIsMissing
          \/ \E next \in Nat \ {0} : \E r \in SUBSET (STATE_OK .. STATE_CRITICAL) : Say(next, r)
      <3>1. {STATE_CRITICAL} \in SUBSET (STATE_OK .. STATE_CRITICAL)
        BY DEF STATE_OK, STATE_CRITICAL
      <3>2. {IF Its(named[k]).states = "good" THEN STATE_OK ELSE STATE_CRITICAL}
                \in SUBSET (STATE_OK .. STATE_CRITICAL)
        BY DEF STATE_OK, STATE_CRITICAL
      <3>3. Present(named[k]) /\ Its(named[k]).states = "NULL" => SomethingIsMissing
        <4>1. plugin = "mem"
          BY <1>3 DEF NamedDimm
        <4> QED
          BY <1>0, <4>1, IndexFacts, MissingFacts
      <3> QED
        BY <1>0, <1>1a, <1>3, <3>1, <3>2, <3>3 DEF NamedDimm
    <2>2. ASSUME NEW next \in Nat \ {0}, NEW r \in SUBSET (STATE_OK .. STATE_CRITICAL), Say(next, r)
          PROVE  IInv'
      <3>1. TypeOK' /\ UNCHANGED <<options, loop, pc, code>>
        BY <1>0, <2>2, SayFacts
      <3>2. JudgedSoFar'
        BY <1>0, <1>3, <3>1 DEF JudgedSoFar, NamedDimm, options
      <3> QED
        BY <1>0, <3>1, <3>2, SameList
    <2> QED
      BY <1>0, <2>1, <2>2, CrashStep
  <1> QED
    BY <1>2, <1>3

-----------------------------------------------------------------------------
(* Callbacks                                                                *)

(* Nothing is judged while the loop runs. *)
LEMMA NothingJudged ==
    ASSUME k' = 1, TypeOK'
    PROVE  JudgedSoFar'
  <1>1. \A j \in DOMAIN mp_ipmi_sensors' : ~ (j < k')
    BY TopFacts DEF TypeOK
  <1>2. \A i \in 1 .. Len(named') : ~ (i < k')
    BY TopFacts DEF TypeOK
  <1> QED
    BY <1>1, <1>2 DEF JudgedSoFar

(* Registering a handler. *)
LEMMA HandlerSteps ==
    ASSUME IInv, mp_ipmi_setup_done \/ mp_ipmi_entity_change
    PROVE  IInv'
  <1>0. TypeOK /\ RequestsFit /\ EntriesFit /\ AllAreListed /\ code # STATE_OK
    BY DEF IInv, mp_ipmi_setup_done, mp_ipmi_entity_change
  <1>1. UNCHANGED <<options, added, mp_ipmi_sensors, pending, valueless, pc, verdict>> /\ pc = "init"
    BY DEF mp_ipmi_setup_done, mp_ipmi_entity_change
  <1>2. TypeOK' /\ k' = 1
    BY <1>0, <1>1 DEF TypeOK, AllAreListed, options, verdict
  <1>3. RequestsFit' /\ EntriesFit'
    BY <1>0, <1>1 DEF RequestsFit, Requests, EntriesFit, IsThreshold, options
  <1>4. AllAreListed'
    BY <1>0, <1>1, <1>2 DEF AllAreListed, Present, Listened, options
  <1> QED
    BY <1>0, <1>1, <1>2, <1>3, <1>4, NothingJudged DEF IInv, NothingForgotten, AnsweredDoesNotCrash, verdict

(* A new sensor becomes the head of the list. *)
LEMMA SensorStep ==
    ASSUME IInv, mp_ipmi_sensor_change
    PROVE  IInv'
  <1> DEFINE list == mp_ipmi_sensors
  <1>0. TypeOK /\ RequestsFit /\ EntriesFit /\ AllAreListed
    BY DEF IInv
  <1>n. PICK n : n = added + 1
    OBVIOUS
  <1>1. /\ pc = "init" /\ pc' = "init" /\ k = 1 /\ k' = 1 /\ UNCHANGED <<options, state, code, handlers, valueless>>
        /\ added' = n /\ n \in 1 .. Len(device) /\ added \in Nat /\ 1 .. n = (1 .. added) \cup {n}
        /\ n \notin 1 .. added /\ n \in Nat /\ code # STATE_OK
    BY <1>0, <1>n, ListFacts DEF IInv, mp_ipmi_sensor_change, AllAreListed, TypeOK, verdict, options
  <1>2. /\ Len(list) \in Nat /\ DOMAIN list = 1 .. Len(list)
        /\ \A j \in DOMAIN list : list[j] \in EntryType /\ list[j].sensor \in 1 .. added
    BY <1>0, ListFacts DEF EntriesFit
  <1>3. /\ Entry(n) \in EntryType /\ Entry(n).sensor = n /\ Entry(n).name
        /\ ~ Entry(n).thresholds /\ Entry(n).value = UNSET /\ Entry(n).states = "NULL"
    BY <1>1 DEF Entry, EntryType
  <1>4. CASE /\ device[n].type # "unreadable" /\ Listened(n)
             /\ mp_ipmi_sensors' = <<Entry(n)>> \o mp_ipmi_sensors
             /\ pending' = pending \cup Requests(n)
    <2>2. list \in Seq(EntryType)
      BY <1>0 DEF TypeOK
    <2>3. /\ list' \in Seq(EntryType)
          /\ DOMAIN list' = 1 .. 1 + Len(list)
          /\ list'[1] = Entry(n)
          /\ \A j \in DOMAIN list : 1 + j \in DOMAIN list' /\ list'[1 + j] = list[j]
      BY <1>3, <1>4, <2>2, ConsFacts
    <2>4. \A i \in DOMAIN list' : i = 1 \/ \E j \in DOMAIN list : i = 1 + j /\ list'[i] = list[j]
      <3> TAKE i \in DOMAIN list'
      <3>1. i = 1 \/ (i - 1 \in DOMAIN list /\ i = 1 + (i - 1))
        BY <1>2, <2>3
      <3> QED
        BY <2>3, <3>1
    <2>5. TypeOK'
      BY <1>0, <1>1, <2>3 DEF TypeOK, options
    <2>6. RequestsFit'
      BY <1>0, <1>1, <1>4 DEF RequestsFit, Requests, options
    <2>7. pending \subseteq pending' /\ Fits(Entry(n), pending', valueless')
      BY <1>3, <1>4 DEF Requests, Fits
    <2> HIDE DEF list
    <2>8. \A i, j \in DOMAIN list' : list'[i].sensor = list'[j].sensor => i = j
      <3>0. \A i, j \in DOMAIN list : list[i].sensor = list[j].sensor => i = j
        BY <1>0 DEF EntriesFit, list
      <3> TAKE i, j \in DOMAIN list'
      <3> HAVE list'[i].sensor = list'[j].sensor
      <3>1. i # 1 => \E x \in DOMAIN list : i = 1 + x /\ list'[i] = list[x]
        BY <2>4
      <3>2. j # 1 => \E x \in DOMAIN list : j = 1 + x /\ list'[j] = list[x]
        BY <2>4
      <3>3. list'[1].sensor = n
        BY <1>3, <2>3
      <3> QED
        BY <1>1, <1>2, <3>0, <3>1, <3>2, <3>3
    <2>9. \A i \in DOMAIN list' : /\ list'[i].sensor \in 1 .. n
                                  /\ Fits(list'[i], pending', valueless')
      <3> TAKE i \in DOMAIN list'
      <3>1. CASE i = 1
        <4>1. n \in 1 .. n
          BY <1>1
        <4> QED
          BY <4>1, <3>1, <1>3, <2>3, <2>7
      <3>2. ASSUME NEW j \in DOMAIN list, list'[i] = list[j]
            PROVE  list'[i].sensor \in 1 .. n /\ Fits(list'[i], pending', valueless')
        <4>1. list[j].sensor \in 1 .. n
          BY <1>1, <1>2
        <4>2. Fits(list[j], pending, valueless)
          BY <1>0, FitsFacts DEF list
        <4> QED
          BY <4>1, <4>2, <1>1, <2>7, <3>2 DEF Fits
      <3> QED
        BY <2>4, <3>1, <3>2
    <2>10. EntriesFit'
      BY <1>1, <2>8, <2>9, FitsAgain DEF list
    <2>11. Present(n)' /\ \A i : Present(i) => Present(i)'
      <3>1. 1 \in DOMAIN list' /\ list'[1].sensor = n
        BY <1>2, <1>3, <2>3
      <3> QED
        BY <3>1, <2>3 DEF Present, list
    <2>12. AllAreListed'
      <3>1. \A i \in 1 .. n : device[i].type # "unreadable" /\ Listened(i) => Present(i)'
        BY <1>0, <1>1, <2>11 DEF AllAreListed
      <3>2. \A q \in Requests(n) : q[2] = n
        BY DEF Requests
      <3>3. \A q \in pending' : Present(q[2])'
        BY <1>0, <1>1, <1>4, <2>11, <3>2 DEF AllAreListed
      <3> QED
        BY <1>1, <3>1, <3>3 DEF AllAreListed, Listened, options
    <2>13. JudgedSoFar'
      BY <1>1, <2>5, NothingJudged
    <2> QED
      BY <1>1, <2>5, <2>6, <2>10, <2>12, <2>13 DEF IInv, NothingForgotten, AnsweredDoesNotCrash
  <1>5. CASE ~ (device[n].type # "unreadable" /\ Listened(n)) /\ UNCHANGED <<mp_ipmi_sensors, pending>>
    <2>1. TypeOK'
      BY <1>0, <1>1, <1>5 DEF TypeOK, options
    <2>2. RequestsFit' /\ EntriesFit'
      BY <1>0, <1>1, <1>5 DEF RequestsFit, Requests, EntriesFit, IsThreshold, options
    <2>3. AllAreListed'
      BY <1>0, <1>1, <1>5 DEF AllAreListed, Present, Listened, options
    <2>4. JudgedSoFar'
      BY <1>1, <2>1, NothingJudged
    <2> QED
      BY <1>1, <2>1, <2>2, <2>3, <2>4 DEF IInv, NothingForgotten, AnsweredDoesNotCrash
  <1> QED
    BY <1>n, <1>1, <1>4, <1>5 DEF mp_ipmi_sensor_change

(* An answer changes the entry of the sensor that was asked. *)
LEMMA AnswerStep ==
    ASSUME IInv, NEW what, NEW n, NEW entry \in EntryType, Answer(what, n, entry), entry.sensor = n,
           Fits(entry, pending', valueless'), valueless' \in {valueless, valueless \cup {n}}
    PROVE  IInv'
  <1> DEFINE list == mp_ipmi_sensors
             x == Index(n)
  <1>0. TypeOK /\ RequestsFit /\ EntriesFit /\ AllAreListed /\ code # STATE_OK
    BY DEF IInv, Answer
  <1>1. /\ pc = "init" /\ <<what, n>> \in pending /\ pending' = pending \ {<<what, n>>}
        /\ UNCHANGED <<options, added, pc, verdict>>
        /\ list' = [list EXCEPT ![x] = entry]
    BY DEF Answer
  <1>2. Present(n)
    BY <1>0, <1>1 DEF AllAreListed
  <1>3. /\ x \in DOMAIN list /\ list[x].sensor = n
        /\ \A j \in DOMAIN list : list[j].sensor = n => j = x
    BY <1>0, <1>2, IndexFacts
  <1>4. /\ list' \in Seq(EntryType) /\ DOMAIN list' = DOMAIN list
        /\ list'[x] = entry /\ \A j \in DOMAIN list : j # x => list'[j] = list[j]
    BY <1>0, <1>1, <1>3 DEF TypeOK
  <1>5. \A j \in DOMAIN list : list'[j].sensor = list[j].sensor
    BY <1>3, <1>4
  <1>6. TypeOK' /\ k' = 1
    <2>1. n \in Nat
      BY <1>0, <1>3, ListFacts DEF EntryType
    <2> QED
      BY <1>0, <1>1, <1>4, <2>1 DEF TypeOK, AllAreListed, options, verdict
  <1>7. RequestsFit'
    BY <1>0, <1>1 DEF RequestsFit, Requests, options
  <1>8. \A j \in DOMAIN list' : /\ list'[j].sensor \in 1 .. added
                                /\ Fits(list'[j], pending', valueless')
    <2>0. \A j \in DOMAIN list : list[j].sensor \in 1 .. added /\ Fits(list[j], pending, valueless)
      BY <1>0, FitsFacts
    <2> HIDE DEF list, x
    <2> TAKE j \in DOMAIN list'
    <2>1. CASE j = x
      BY <1>3, <1>4, <2>0, <2>1
    <2>2. CASE j # x
      <3>1. list[j].sensor # n
        BY <1>3, <1>4, <2>2
      <3>2. <<"states", list[j].sensor>> \in pending => <<"states", list[j].sensor>> \in pending'
        BY <1>1, <3>1
      <3> QED
        BY <1>4, <2>0, <2>2, <3>2 DEF Fits
    <2> QED
      BY <2>1, <2>2
  <1>9. \A i, j \in DOMAIN list' : list'[i].sensor = list'[j].sensor => i = j
    BY <1>0, <1>4, <1>5 DEF EntriesFit
  <1>10. EntriesFit'
    BY <1>1, <1>8, <1>9, FitsAgain
  <1>11. \A i : Present(i) => Present(i)'
    BY <1>4, <1>5 DEF Present
  <1>12. AllAreListed'
    BY <1>0, <1>1, <1>6, <1>11 DEF AllAreListed, Listened, options
  <1> QED
    BY <1>0, <1>1, <1>6, <1>7, <1>10, <1>12, NothingJudged DEF IInv, NothingForgotten, AnsweredDoesNotCrash, verdict

(* Readings, thresholds and states each fill in their own part. *)
LEMMA AnswerSteps ==
    ASSUME IInv, NEW n \in Sensors,
           \/ mp_ipmi_sensor_read_handler(n)
           \/ mp_ipmi_sensor_thresholds_handler(n)
           \/ mp_ipmi_sensor_states_handler(n)
    PROVE  IInv'
  <1>0. TypeOK /\ RequestsFit /\ EntriesFit /\ AllAreListed
    BY DEF IInv
  <1>1. ASSUME NEW what, <<what, n>> \in pending, pc = "init"
        PROVE  /\ Its(n) \in EntryType /\ Its(n).sensor = n
               /\ Fits(Its(n), pending, valueless)
    <2>1. Present(n)
      BY <1>0, <1>1 DEF AllAreListed
    <2>2. Index(n) \in DOMAIN mp_ipmi_sensors /\ Its(n) = mp_ipmi_sensors[Index(n)] /\ Its(n).sensor = n
      BY <1>0, <2>1, IndexFacts
    <2> QED
      BY <1>0, <2>2, ListFacts, FitsFacts
  <1>2. CASE Answer("reading", n, [Its(n) EXCEPT !.value = device[n].condition]) /\ UNCHANGED valueless
    <2> DEFINE new == [Its(n) EXCEPT !.value = device[n].condition]
    <2>0. <<"reading", n>> \in pending /\ pc = "init" /\ pending' \subseteq pending
      BY <1>2 DEF Answer
    <2>1. device[n].type = "threshold" /\ device[n].condition \in Severities
      BY <1>0, <2>0, RequestFacts
    <2>2. /\ new \in EntryType /\ new.sensor = n /\ new.name = Its(n).name /\ new.states = Its(n).states
      BY <1>1, <2>0, <2>1 DEF EntryType
    <2> HIDE DEF new
    <2>3. Answer("reading", n, new)
      BY <1>2 DEF new
    <2>4. Fits(new, pending', valueless')
      BY <1>1, <1>2, <2>0, <2>1, <2>2 DEF Fits
    <2> QED
      BY <1>2, <2>2, <2>3, <2>4, AnswerStep
  <1>3. CASE Answer("reading", n, [Its(n) EXCEPT !.name = FALSE]) /\ valueless' = valueless \cup {n}
    <2> DEFINE new == [Its(n) EXCEPT !.name = FALSE]
    <2>0. <<"reading", n>> \in pending /\ pc = "init" /\ <<"reading", n>> \notin pending'
      BY <1>3 DEF Answer
    <2>1. device[n].type = "threshold"
      BY <1>0, <2>0, RequestFacts
    <2>2. /\ new \in EntryType /\ new.sensor = n /\ new.states = Its(n).states
      BY <1>1, <2>0 DEF EntryType
    <2> HIDE DEF new
    <2>3. Answer("reading", n, new)
      BY <1>3 DEF new
    <2>4. Fits(new, pending', valueless')
      BY <1>1, <1>3, <2>0, <2>1, <2>2 DEF Fits
    <2> QED
      BY <1>3, <2>2, <2>3, <2>4, AnswerStep
  <1>4. CASE Answer("thresholds", n, [Its(n) EXCEPT !.thresholds = TRUE]) /\ UNCHANGED valueless
    <2> DEFINE new == [Its(n) EXCEPT !.thresholds = TRUE]
    <2>0. <<"thresholds", n>> \in pending /\ pc = "init" /\ pending' \subseteq pending
      BY <1>4 DEF Answer
    <2>1. device[n].type = "threshold"
      BY <1>0, <2>0, RequestFacts
    <2>2. /\ new \in EntryType /\ new.sensor = n /\ new.name = Its(n).name /\ new.states = Its(n).states
      BY <1>1, <2>0 DEF EntryType
    <2> HIDE DEF new
    <2>3. Answer("thresholds", n, new)
      BY <1>4 DEF new
    <2>4. Fits(new, pending', valueless')
      BY <1>1, <1>4, <2>0, <2>1, <2>2 DEF Fits
    <2> QED
      BY <1>4, <2>2, <2>3, <2>4, AnswerStep
  <1>5. CASE Answer("states", n, [Its(n) EXCEPT !.states = device[n].condition]) /\ UNCHANGED valueless
    <2> DEFINE new == [Its(n) EXCEPT !.states = device[n].condition]
    <2>0. <<"states", n>> \in pending /\ pc = "init" /\ pending' \subseteq pending
      BY <1>5 DEF Answer
    <2>1. /\ device[n].type # "threshold" /\ device[n].condition \in Conditions
          /\ plugin \notin {"sensor", "fan"}
      BY <1>0, <2>0, RequestFacts
    <2>2. /\ new \in EntryType /\ new.sensor = n /\ new.name = Its(n).name
          /\ new.thresholds = Its(n).thresholds /\ new.value = Its(n).value /\ new.states # "NULL"
      BY <1>1, <2>0, <2>1 DEF EntryType, Conditions
    <2> HIDE DEF new
    <2>3. Answer("states", n, new)
      BY <1>5 DEF new
    <2>4. Fits(new, pending', valueless')
      BY <1>1, <1>5, <2>0, <2>1, <2>2 DEF Fits
    <2> QED
      BY <1>5, <2>2, <2>3, <2>4, AnswerStep
  <1> QED
    BY <1>2, <1>3, <1>4, <1>5
       DEF mp_ipmi_sensor_read_handler, mp_ipmi_sensor_thresholds_handler, mp_ipmi_sensor_states_handler

(* Cleaning the list loses only what gave no reading. *)
LEMMA DomainUpStep ==
    ASSUME IInv, mp_ipmi_domain_up
    PROVE  IInv'
  <1> DEFINE list == mp_ipmi_sensors
  <1>0. TypeOK /\ RequestsFit /\ EntriesFit /\ AllAreListed /\ code # STATE_OK
    BY DEF IInv, mp_ipmi_domain_up
  <1>1. /\ pc = "init" /\ pc' = "judge" /\ added = Len(device)
        /\ UNCHANGED <<options, added, pending, valueless, verdict>>
    BY DEF mp_ipmi_domain_up
  <1>2. PICK m \in 0 .. Len(list) : \E f \in [1 .. m -> Kept(list)] :
          /\ \A i, j \in 1 .. m : i < j => f[i] < f[j]
          /\ Kept(list) \subseteq Range(f)
          /\ list' = [i \in 1 .. m |-> list[f[i]]]
    BY DEF mp_ipmi_domain_up
  <1>3. PICK f \in [1 .. m -> Kept(list)] :
          /\ \A i, j \in 1 .. m : i < j => f[i] < f[j]
          /\ Kept(list) \subseteq Range(f)
          /\ list' = [i \in 1 .. m |-> list[f[i]]]
    BY <1>2
  <1>4. /\ Len(list) \in Nat /\ DOMAIN list = 1 .. Len(list) /\ m \in Nat
        /\ \A j \in DOMAIN list : list[j] \in EntryType
    BY <1>0, <1>2, ListFacts
  <1>5. \A i \in 1 .. m : f[i] \in DOMAIN list /\ f[i] \in Nat
    BY <1>3, <1>4 DEF Kept
  <1>6. DOMAIN list' = 1 .. m /\ \A i \in 1 .. m : list'[i] = list[f[i]]
    BY <1>3
  <1>7. list' \in Seq(EntryType)
    <2>1. \A i \in 1 .. m : list[f[i]] \in EntryType
      BY <1>4, <1>5
    <2> QED
      BY <1>3, <1>4, <2>1
  <1>8. TypeOK' /\ k' = 1
    BY <1>0, <1>1, <1>7 DEF TypeOK, AllAreListed, options, verdict
  <1>9. RequestsFit'
    BY <1>0, <1>1 DEF RequestsFit, Requests, options
  <1>10. \A i, j \in 1 .. m : f[i] = f[j] => i = j
    <2> TAKE i, j \in 1 .. m
    <2>1. i < j \/ j < i \/ i = j
      BY <1>4
    <2> QED
      BY <1>3, <1>5, <2>1
  <1>11. EntriesFit'
    <2>1. \A i, j \in DOMAIN list' : list'[i].sensor = list'[j].sensor => i = j
      BY <1>0, <1>5, <1>6, <1>10 DEF EntriesFit
    <2>2. \A i \in DOMAIN list' : \E j \in DOMAIN list : list'[i] = list[j]
      BY <1>5, <1>6
    <2> QED
      BY <1>0, <1>1, <2>1, <2>2 DEF EntriesFit, IsThreshold, options
  <1>12. ASSUME NEW n \in Sensors, device[n].type # "unreadable", Listened(n), ~ Present(n)'
         PROVE  n \in valueless
    <2>1. Present(n)
      BY <1>0, <1>1, <1>12, ListFacts DEF AllAreListed
    <2>2. PICK j \in DOMAIN list : list[j].sensor = n
      BY <2>1 DEF Present
    <2>3. j \notin Kept(list)
      <3> SUFFICES ASSUME j \in Kept(list) PROVE FALSE
        OBVIOUS
      <3>1. PICK i \in 1 .. m : f[i] = j
        BY <1>3 DEF Range
      <3> QED
        BY <3>1, <1>6, <1>12, <2>2 DEF Present
    <2>4. ~ list[j].name
      BY <2>3 DEF Kept
    <2> QED
      BY <1>0, <2>2, <2>4 DEF EntriesFit, IsThreshold
  <1>13. NothingForgotten'
    BY <1>1, <1>12 DEF NothingForgotten, Sensors, Listened, options
  <1> QED
    BY <1>0, <1>1, <1>8, <1>9, <1>11, <1>13, NothingJudged DEF IInv, AllAreListed, AnsweredDoesNotCrash, verdict

-----------------------------------------------------------------------------
(* The inductive invariant of the IPMI plugins. *)
THEOREM IpmiInvariant == Spec => []IInv
  <1>1. Init => IInv
    <2> SUFFICES ASSUME Init PROVE IInv
      OBVIOUS
    <2>1. device \in Seq(Kinds) /\ named \in Seq(Nat)
      <3>1. PICK d \in 0 .. MaxSensors : device \in [1 .. d -> Kinds]
        BY DEF Init, SeqOf
      <3>2. PICK l \in 0 .. MaxNamed : named \in [1 .. l -> 1 .. MaxSensors]
        BY DEF Init, SeqOf
      <3> QED
        BY <3>1, <3>2, IpmiAssumption
    <2>2. /\ mp_ipmi_sensors = <<>> /\ DOMAIN mp_ipmi_sensors = {} /\ mp_ipmi_sensors \in Seq(EntryType)
          /\ Len(device) \in Nat
      BY <2>1 DEF Init
    <2>3. TypeOK
      BY <2>1, <2>2 DEF Init, TypeOK, STATE_OK, STATE_CRITICAL, STATE_UNKNOWN
    <2>4. RequestsFit /\ EntriesFit /\ AllAreListed /\ NothingForgotten /\ AnsweredDoesNotCrash
      BY <2>2 DEF Init, RequestsFit, EntriesFit, AllAreListed, NothingForgotten, AnsweredDoesNotCrash
    <2>5. JudgedSoFar
      BY <2>1, <2>2, TopFacts DEF Init, JudgedSoFar
    <2> QED
      BY <2>3, <2>4, <2>5 DEF IInv, Init, STATE_OK
  <1>2. IInv /\ [Next]_vars => IInv'
    <2> SUFFICES ASSUME IInv, [Next]_vars PROVE IInv'
      OBVIOUS
    <2>1. CASE UNCHANGED vars
      <3>1. UNCHANGED <<options, loop, verdict, pc>>
        BY <2>1 DEF vars, options, loop, verdict
      <3>2. TypeOK' /\ JudgedSoFar'
        BY <3>1, SameVerdict DEF IInv, TypeOK, options, loop, verdict
      <3>3. RequestsFit' /\ EntriesFit'
        BY <3>1 DEF IInv, RequestsFit, EntriesFit, Requests, IsThreshold, options, loop
      <3>4. AllAreListed' /\ NothingForgotten'
        BY <3>1 DEF IInv, AllAreListed, NothingForgotten, Sensors, Listened, Present, options, loop, verdict
      <3>5. AnsweredDoesNotCrash'
        BY <3>1 DEF IInv, AnsweredDoesNotCrash, SomethingIsMissing, IsThreshold, options, loop
      <3> QED
        BY <3>1, <3>2, <3>3, <3>4, <3>5 DEF IInv, verdict
    <2> QED
      BY <2>1, ExitSteps, HandlerSteps, SensorStep, AnswerSteps, DomainUpStep, ListSteps, NamedSteps
         DEF Next, Callback, Judge, Terminated
  <1> QED
    BY <1>1, <1>2, PTL DEF Spec

(* mp_ipmi_domain_up takes from the list only sensors whose reading came
   without a value. *)
THEOREM NoSensorForgotten == Spec => []NothingForgotten
  <1>1. IInv => NothingForgotten
    BY DEF IInv
  <1> QED
    BY <1>1, IpmiInvariant, PTL

(* A plugin that got all its answers does not look into what is not there. *)
THEOREM NoCrashAfterAnswers == Spec => []AnsweredDoesNotCrash
  <1>1. IInv => AnsweredDoesNotCrash
    BY DEF IInv
  <1> QED
    BY <1>1, IpmiInvariant, PTL

(* A plugin that ends with OK found no sensor it was asked for, and whose values
   came, in a bad condition, and every fan that was named. *)
THEOREM BadIsReported == Spec => []BadSensorIsReported
  <1>1. IInv => BadSensorIsReported
    <2> SUFFICES ASSUME IInv, Exited, code = STATE_OK, ~ (plugin = "mem" /\ named # <<>>)
                 PROVE  /\ \A j \in DOMAIN mp_ipmi_sensors :
                              Asked(mp_ipmi_sensors[j].sensor) => Fine(mp_ipmi_sensors[j])
                        /\ plugin = "fan" => \A n \in ToSet(named) : Present(n)
      BY DEF BadSensorIsReported
    <2>0. /\ TypeOK /\ EntriesFit /\ JudgedSoFar /\ state = STATE_OK /\ k > Places /\ k \in Nat
          /\ Len(named) \in Nat /\ DOMAIN named = 1 .. Len(named) /\ (named = <<>> <=> Len(named) = 0)
          /\ Len(mp_ipmi_sensors) \in Nat /\ DOMAIN mp_ipmi_sensors = 1 .. Len(mp_ipmi_sensors)
      BY ListFacts DEF IInv, Exited, TypeOK
    <2>1. CASE plugin = "fan" /\ named # <<>>
      <3>1. \A i \in DOMAIN named : Present(named[i]) /\ Fine(Its(named[i]))
        BY <2>0, <2>1 DEF JudgedSoFar, Places
      <3>2. \A n \in ToSet(named) : Present(n) /\ Fine(Its(n))
        BY <3>1 DEF ToSet
      <3>3. ASSUME NEW j \in DOMAIN mp_ipmi_sensors, Asked(mp_ipmi_sensors[j].sensor)
            PROVE  Fine(mp_ipmi_sensors[j])
        <4> DEFINE n == mp_ipmi_sensors[j].sensor
        <4>1. n \in ToSet(named)
          BY <2>1, <3>3 DEF Asked
        <4>2. Present(n) /\ Fine(Its(n))
          BY <3>2, <4>1
        <4>3. Its(n) = mp_ipmi_sensors[j]
          BY <2>0, <4>2, IndexFacts
        <4> QED
          BY <4>2, <4>3
      <3> QED
        BY <3>2, <3>3
    <2>2. CASE ~ (plugin = "fan" /\ named # <<>>)
      <3>1. Places = Len(mp_ipmi_sensors)
        BY <2>2 DEF Places
      <3>2. \A j \in DOMAIN mp_ipmi_sensors : j < k
        BY <2>0, <3>1
      <3>3. plugin = "fan" => ToSet(named) = {}
        BY <2>0, <2>2 DEF ToSet
      <3> QED
        BY <2>0, <2>2, <3>2, <3>3 DEF JudgedSoFar
    <2> QED
      BY <2>1, <2>2
  <1> QED
    BY <1>1, IpmiInvariant, PTL
==============================================================================
