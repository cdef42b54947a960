----------------------------- MODULE IpmiSensors -----------------------------
(***************************************************************************)
(* lib/ipmi_utils.c and the four plugins in ipmi/.  mp_ipmi_init drives the *)
(* OpenIPMI event loop until the domain is up: sensors are added to a list, *)
(* every addition asks for a reading, thresholds or states, and the answers *)
(* come through callbacks in any order.  The domain may come up while       *)
(* answers are outstanding; they are never delivered then, for nobody runs  *)
(* the loop any more.  Then the plugin judges the list.                     *)
(***************************************************************************)
EXTENDS Integers, Sequences, SequencesExt, FiniteSets

CONSTANTS
    Plugins,        \* which of the four run
    MaxSensors,     \* bound: sensors of the device
    Kinds,          \* the sensors there are: entity, type and condition
    MaxNamed        \* bound: sensors named on the command line

Entities == {"own", "other"}
Severities == 0 .. 2            \* what the value of a threshold sensor means
Conditions == {"good", "bad"}   \* what the states of another sensor mean: "power"
                                \* for a power supply or its redundancy, "discrete"

ASSUME IpmiAssumption ==
    /\ Plugins \subseteq {"sensor", "fan", "mem", "psu"}
    /\ MaxSensors \in Nat
    /\ Kinds \subseteq
          [entity : Entities, type : {"threshold"}, condition : Severities]
          \cup [entity : Entities, type : {"power", "discrete", "unreadable"}, condition : Conditions]
    /\ MaxNamed \in Nat

VARIABLES
    plugin,
    device,         \* its sensors, in the order in which the library finds them
    named,          \* sensor, fan or dimm: the sensors asked for; psu: the sensors
                    \* whose names begin with the one asked for
    exclude,        \* of check_ipmi_sensor
    mp_showperfdata,
    handlers,       \* which update handlers are registered
    added,          \* sensors the library has announced
    mp_ipmi_sensors,\* the list, newest first
    pending,        \* requests without an answer: <<what, sensor>>
    valueless,      \* history: the sensors that answered without a value
    pc,             \* "init", "judge", "exited", "crashed"
    k,              \* next entry of the list, or next name, to judge
    state,
    found,          \* whether the message says anything
    code            \* exit code, -1 while running

vars == <<plugin, device, named, exclude, mp_showperfdata, handlers, added,
          mp_ipmi_sensors, pending, valueless, pc, k, state, found, code>>
options == <<plugin, device, named, exclude, mp_showperfdata>>
loop == <<handlers, added, mp_ipmi_sensors, pending, valueless>>
verdict == <<k, state, found, code>>

STATE_OK == 0
STATE_WARNING == 1
STATE_CRITICAL == 2
STATE_UNKNOWN == 3
UNSET == -1         \* the 0.0 of an entry no reading came for

Sensors == DOMAIN device

Init ==
    /\ plugin \in Plugins
    /\ device \in SeqOf(Kinds, MaxSensors)
    /\ named \in SeqOf(1 .. MaxSensors, MaxNamed)
    /\ exclude \in IF plugin = "sensor" /\ named = <<>> THEN SUBSET {1} ELSE {{}}
    /\ mp_showperfdata \in BOOLEAN
    /\ handlers = {}
    /\ added = 0
    /\ mp_ipmi_sensors = <<>>
    /\ pending = {}
    /\ valueless = {}
    /\ pc = "init"
    /\ k = 1
    /\ state = STATE_OK
    /\ found = FALSE
    /\ code = -1

-----------------------------------------------------------------------------
(* The event loop and its callbacks.                                        *)

\* No connection, no domain: unknown.
InitFails ==
    /\ pc = "init"
    /\ handlers = {}
    /\ pc' = "exited"
    /\ code' = STATE_UNKNOWN
    /\ UNCHANGED <<options, loop, k, state, found>>

mp_ipmi_setup_done ==
    /\ pc = "init"
    /\ handlers = {}
    /\ handlers' = {"entity"}
    /\ UNCHANGED <<options, added, mp_ipmi_sensors, pending, valueless, pc, verdict>>

\* Entities come as they are found; only the wanted one is listened to.
mp_ipmi_entity_change ==
    /\ pc = "init"
    /\ handlers = {"entity"}
    /\ handlers' = {"entity", "sensor"}
    /\ UNCHANGED <<options, added, mp_ipmi_sensors, pending, valueless, pc, verdict>>

\* mp_ipmi_entity: check_ipmi_sensor and check_ipmi_psu listen to all.
Listened(n) == plugin \in {"sensor", "psu"} \/ device[n].entity = "own"

\* Defect: mp_ipmi_readingtype is set by all plugins.
Requests_typed(n) ==
    IF device[n].type = "threshold" THEN {<<"reading", n>>, <<"thresholds", n>>} ELSE {}

\* mp_ipmi_readingtype: check_ipmi_sensor and check_ipmi_fan ask only
\* threshold sensors.
Requests(n) ==
    IF device[n].type = "threshold" THEN {<<"reading", n>>, <<"thresholds", n>>}
    ELSE IF plugin \in {"sensor", "fan"} THEN {} ELSE {<<"states", n>>}

Entry(n) == [sensor |-> n, name |-> TRUE, value |-> UNSET, thresholds |-> FALSE, states |-> "NULL"]

\* The next sensor: a new head of the list, asked for its values; a sensor
\* that cannot be read, or of another entity, changes nothing.
mp_ipmi_sensor_change ==
    /\ pc = "init"
    /\ "sensor" \in handlers
    /\ added < Len(device)
    /\ added' = added + 1
    /\ IF device[added'].type # "unreadable" /\ Listened(added')
       THEN /\ mp_ipmi_sensors' = <<Entry(added')>> \o mp_ipmi_sensors
            /\ pending' = pending \cup Requests(added')
       ELSE UNCHANGED <<mp_ipmi_sensors, pending>>
    /\ UNCHANGED <<options, handlers, valueless, pc, verdict>>

Index(n) == CHOOSE j \in DOMAIN mp_ipmi_sensors : mp_ipmi_sensors[j].sensor = n
Its(n) == mp_ipmi_sensors[Index(n)]

\* An answer: the callback is called once, with the entry it was given.
Answer(what, n, entry) ==
    /\ pc = "init"
    /\ <<what, n>> \in pending
    /\ pending' = pending \ {<<what, n>>}
    /\ mp_ipmi_sensors' = [mp_ipmi_sensors EXCEPT ![Index(n)] = entry]
    /\ UNCHANGED <<options, handlers, added, pc, verdict>>

\* A value, or none: then the entry loses its name.
mp_ipmi_sensor_read_handler(n) ==
    \/ /\ Answer("reading", n, [Its(n) EXCEPT !.value = device[n].condition])
       /\ UNCHANGED valueless
    \/ /\ Answer("reading", n, [Its(n) EXCEPT !.name = FALSE])
       /\ valueless' = valueless \cup {n}

\* Thresholds and states; an error leaves the entry as it is, as if the answer
\* were still outstanding.
mp_ipmi_sensor_thresholds_handler(n) ==
    /\ Answer("thresholds", n, [Its(n) EXCEPT !.thresholds = TRUE])
    /\ UNCHANGED valueless

mp_ipmi_sensor_states_handler(n) ==
    /\ Answer("states", n, [Its(n) EXCEPT !.states = device[n].condition])
    /\ UNCHANGED valueless

\* Defect: the head of the list is lost.
Kept_tail(list) == {j \in DOMAIN list : j # 1 /\ list[j].name}

\* Cleaning empty sensors looks at what is behind an entry: the head stays.
Kept(list) == {j \in DOMAIN list : j = 1 \/ list[j].name}

\* All sensors are known, not all answers need to be there.  The entries that
\* are kept stay in their order.
mp_ipmi_domain_up ==
    /\ pc = "init"
    /\ handlers # {}
    /\ added = Len(device)
    /\ \E m \in 0 .. Len(mp_ipmi_sensors) : \E f \in [1 .. m -> Kept(mp_ipmi_sensors)] :
          /\ \A i, j \in 1 .. m : i < j => f[i] < f[j]
          /\ Kept(mp_ipmi_sensors) \subseteq Range(f)
          /\ mp_ipmi_sensors' = [i \in 1 .. m |-> mp_ipmi_sensors[f[i]]]
    /\ pc' = "judge"
    /\ UNCHANGED <<options, handlers, added, pending, valueless, verdict>>

\* SIGALRM: critical.
Timeout ==
    /\ pc \in {"init", "judge"}
    /\ pc' = "exited"
    /\ code' = STATE_CRITICAL
    /\ UNCHANGED <<options, loop, k, state, found>>

-----------------------------------------------------------------------------
(* Judging.                                                                 *)

Crash ==
    /\ pc' = "crashed"
    /\ UNCHANGED <<options, loop, verdict>>

\* On to place next with one more verdict; r is the set of verdicts possible.
Say(next, r) ==
    /\ k' = next
    /\ \E s \in r : state' = IF s > state THEN s ELSE state
    /\ found' = TRUE
    /\ UNCHANGED <<options, loop, pc, code>>

Pass ==
    /\ k' = k + 1
    /\ UNCHANGED <<options, loop, pc, state, found, code>>

\* get_status: 0.0 is judged if no value came, nothing is wrong if no
\* thresholds came.
get_status(e) ==
    IF ~e.thresholds THEN {STATE_OK}
    ELSE IF e.value = UNSET THEN {STATE_OK, STATE_WARNING, STATE_CRITICAL}
    ELSE {e.value}

IsThreshold(e) == device[e.sensor].type = "threshold"

\* mp_perfdata_float looks into the label, if there is performance data.
PerfdataCrash(e) == mp_showperfdata /\ ~e.name /\ IsThreshold(e)

\* check_ipmi_sensor: one entry of the list.
JudgeSensor ==
    /\ plugin = "sensor"
    /\ pc = "judge"
    /\ k <= Len(mp_ipmi_sensors)
    /\ LET e == mp_ipmi_sensors[k]
       IN  IF ~e.name /\ (named # <<>> \/ exclude # {}) THEN Crash
           ELSE IF \/ named # <<>> /\ e.sensor \notin ToSet(named)
                   \/ e.sensor \in exclude
           THEN Pass
           ELSE IF PerfdataCrash(e) THEN Crash
           ELSE Say(k + 1, get_status(e))

\* check_ipmi_fan without --fan: the threshold sensors of the list.
JudgeFan ==
    /\ plugin = "fan"
    /\ named = <<>>
    /\ pc = "judge"
    /\ k <= Len(mp_ipmi_sensors)
    /\ LET e == mp_ipmi_sensors[k]
       IN  IF ~IsThreshold(e) THEN Pass
           ELSE IF PerfdataCrash(e) THEN Crash
           ELSE Say(k + 1, get_status(e))

\* Comparing a name with the entries from the head on, up to its own.
Search(n) == {j \in DOMAIN mp_ipmi_sensors : \A i \in 1 .. j - 1 : mp_ipmi_sensors[i].sensor # n}
Nameless(n) == \E j \in Search(n) : ~mp_ipmi_sensors[j].name
Present(n) == \E j \in DOMAIN mp_ipmi_sensors : mp_ipmi_sensors[j].sensor = n

\* Defect: a fan that is not found is passed over.
NamedFan_silent ==
    /\ plugin = "fan"
    /\ pc = "judge"
    /\ k <= Len(named)
    /\ IF Nameless(named[k]) THEN Crash
       ELSE IF Present(named[k]) THEN Say(k + 1, get_status(Its(named[k])))
       ELSE Pass

\* check_ipmi_fan, one --fan: critical if it is not there.
NamedFan ==
    /\ plugin = "fan"
    /\ pc = "judge"
    /\ k <= Len(named)
    /\ IF Nameless(named[k]) THEN Crash
       ELSE IF Present(named[k]) THEN Say(k + 1, get_status(Its(named[k])))
       ELSE Say(k + 1, {STATE_CRITICAL})

\* check_ipmi_mem without --dimm: an empty slot is fine.
JudgeDimm ==
    /\ plugin = "mem"
    /\ named = <<>>
    /\ pc = "judge"
    /\ k <= Len(mp_ipmi_sensors)
    /\ LET e == mp_ipmi_sensors[k]
       IN  IF e.states = "NULL" THEN Crash
           ELSE Say(k + 1, {IF e.states = "bad" THEN STATE_CRITICAL ELSE STATE_OK})

\* check_ipmi_mem, one --dimm.  The loops over the states use the index of the
\* loop over the modules: a module that is found is the last one judged.
NamedDimm ==
    /\ plugin = "mem"
    /\ pc = "judge"
    /\ k <= Len(named)
    /\ IF Nameless(named[k]) THEN Crash
       ELSE IF ~Present(named[k]) THEN Say(k + 1, {STATE_CRITICAL})
       ELSE LET e == Its(named[k])
            IN  IF e.states = "NULL" THEN Crash
                ELSE Say(Len(named) + 1, {IF e.states = "good" THEN STATE_OK ELSE STATE_CRITICAL})

\* check_ipmi_psu: one entry of the list.  A power supply that is not present
\* and a lost redundancy are critical; of other sensors only the watts and the
\* temperatures are looked at, for the performance data.
JudgePsu ==
    /\ plugin = "psu"
    /\ pc = "judge"
    /\ k <= Len(mp_ipmi_sensors)
    /\ LET e == mp_ipmi_sensors[k]
       IN  IF device[e.sensor].entity # "own" THEN Pass
           ELSE IF named # <<>> /\ ~e.name THEN Crash
           ELSE IF named # <<>> /\ e.sensor \notin ToSet(named) THEN Pass
           ELSE IF device[e.sensor].type # "power" THEN Pass \/ (PerfdataCrash(e) /\ Crash)
           ELSE IF e.states = "NULL" THEN Crash
           ELSE Say(k + 1, {IF e.states = "good" THEN STATE_OK ELSE STATE_CRITICAL})

Places == IF plugin \in {"fan", "mem"} /\ named # <<>> THEN Len(named) ELSE Len(mp_ipmi_sensors)

\* check_ipmi_sensor that found nothing is critical.
Report ==
    /\ pc = "judge"
    /\ k > Places
    /\ pc' = "exited"
    /\ code' = IF plugin = "sensor" /\ ~found THEN STATE_CRITICAL ELSE state
    /\ UNCHANGED <<options, loop, k, state, found>>

Callback ==
    \/ mp_ipmi_setup_done \/ mp_ipmi_entity_change \/ mp_ipmi_sensor_change
    \/ \E n \in Sensors : \/ mp_ipmi_sensor_read_handler(n)
                          \/ mp_ipmi_sensor_thresholds_handler(n)
                          \/ mp_ipmi_sensor_states_handler(n)
    \/ mp_ipmi_domain_up

Judge == JudgeSensor \/ JudgeFan \/ NamedFan \/ JudgeDimm \/ NamedDimm \/ JudgePsu

Terminated == pc \in {"exited", "crashed"} /\ UNCHANGED vars

Next == InitFails \/ Callback \/ Timeout \/ Judge \/ Report \/ Terminated

\* OpenIPMI promises nothing: a callback may never come.
Spec == Init /\ [][Next]_vars
-----------------------------------------------------------------------------
(* Properties                                                               *)

Exited == pc = "exited" /\ k > Places

\* Cleaning the list loses no sensor but the ones whose reading came without
\* a value: not those that gave one, were not asked for one or have not
\* answered.
NothingForgotten ==
    pc = "judge" =>
        \A n \in Sensors :
            device[n].type # "unreadable" /\ Listened(n) => Present(n) \/ n \in valueless

SomethingIsMissing ==
    \/ pending # {}
    \/ valueless # {}
    \/ plugin = "mem" /\ \E j \in DOMAIN mp_ipmi_sensors : IsThreshold(mp_ipmi_sensors[j])

\* A plugin that got every answer it asked for, and a value with every reading,
\* does not look into a name, a label or states that are not there.  (The one
\* exception is check_ipmi_mem: it takes every sensor of a memory device for
\* one that has states, a temperature too.)
AnsweredDoesNotCrash == pc = "crashed" => SomethingIsMissing

\* The sensors a plugin is asked to judge.
Asked(n) ==
    /\ named = <<>> \/ n \in ToSet(named)
    /\ n \notin exclude
    /\ plugin = "psu" => device[n].entity = "own" /\ device[n].type = "power"

\* Its values do not call for more than OK.
Fine(e) == /\ e.thresholds /\ e.value # UNSET => e.value = STATE_OK
           /\ e.states # "bad"

\* A plugin that ends with OK has met no sensor it was asked for, and whose
\* values came, in a bad condition; every fan named is on the list.
\* check_ipmi_mem with names is left to EveryDimmIsChecked.
BadSensorIsReported ==
    Exited /\ code = STATE_OK /\ ~(plugin = "mem" /\ named # <<>>) =>
        /\ \A j \in DOMAIN mp_ipmi_sensors :
              Asked(mp_ipmi_sensors[j].sensor) => Fine(mp_ipmi_sensors[j])
        /\ plugin = "fan" => \A n \in ToSet(named) : Present(n)

\* "Check the give or all memory modules by IPMI.": a check of named modules
\* that ends with OK has looked at every one of them.
EveryDimmIsChecked ==
    Exited /\ code = STATE_OK /\ plugin = "mem" /\ named # <<>> =>
        \A n \in ToSet(named) : Present(n) /\ Its(n).states = "good"

-----------------------------------------------------------------------------
(* Why they hold: the parts of the inductive invariant                      *)

EntryType == [sensor : Nat, name : BOOLEAN, value : {UNSET} \cup Severities,
              thresholds : BOOLEAN, states : {"NULL"} \cup Conditions]

TypeOK ==
    /\ plugin \in Plugins
    /\ device \in Seq(Kinds)
    /\ named \in Seq(Nat)
    /\ added \in 0 .. Len(device)
    /\ mp_ipmi_sensors \in Seq(EntryType)
    /\ valueless \subseteq Nat
    /\ pc \in {"init", "judge", "exited", "crashed"}
    /\ k \in Nat \ {0}
    /\ state \in STATE_OK .. STATE_CRITICAL
    /\ code \in -1 .. STATE_UNKNOWN

\* Only what was announced is asked for, and only what its kind answers.
RequestsFit ==
    \A q \in pending : \E n \in 1 .. added : q \in Requests(n)

\* Every sensor has at most one entry, and the entry holds what came.
EntriesFit ==
    /\ \A i, j \in DOMAIN mp_ipmi_sensors :
          mp_ipmi_sensors[i].sensor = mp_ipmi_sensors[j].sensor => i = j
    /\ \A j \in DOMAIN mp_ipmi_sensors :
          LET e == mp_ipmi_sensors[j]
          IN  /\ e.sensor \in 1 .. added
              /\ e.thresholds \/ e.value # UNSET \/ ~e.name => IsThreshold(e)
              /\ ~e.name => e.sensor \in valueless
              /\ IF e.states = "NULL"
                 THEN IsThreshold(e) \/ plugin \in {"sensor", "fan"} \/ <<"states", e.sensor>> \in pending
                 ELSE ~IsThreshold(e) /\ plugin \notin {"sensor", "fan"}

\* Until the list is cleaned, every sensor to be judged is on it.
AllAreListed ==
    pc = "init" =>
        /\ k = 1
        /\ \A n \in 1 .. added : device[n].type # "unreadable" /\ Listened(n) => Present(n)
        /\ \A q \in pending : Present(q[2])

\* What is judged so far is fine if the state is.
JudgedSoFar ==
    state = STATE_OK /\ ~(plugin = "mem" /\ named # <<>>) =>
        IF plugin = "fan" /\ named # <<>>
        THEN \A i \in 1 .. Len(named) : i < k => Present(named[i]) /\ Fine(Its(named[i]))
        ELSE \A j \in DOMAIN mp_ipmi_sensors :
                j < k /\ Asked(mp_ipmi_sensors[j].sensor) => Fine(mp_ipmi_sensors[j])

IInv == /\ TypeOK
        /\ RequestsFit
        /\ EntriesFit
        /\ AllAreListed
        /\ NothingForgotten
        /\ JudgedSoFar
        /\ AnsweredDoesNotCrash
        /\ code = STATE_OK => state = STATE_OK /\ pc = "exited"

-----------------------------------------------------------------------------
(* The instance that is checked: the kinds of sensors the plugins tell      *)
(* apart.                                                                   *)

const_Kinds ==
    [entity : {"own"}, type : {"threshold"}, condition : {STATE_OK, STATE_CRITICAL}]
    \cup [entity : {"own"}, type : {"power", "discrete"}, condition : Conditions]
    \cup [entity : {"other"}, type : {"discrete"}, condition : {"bad"}]
    \cup [entity : {"own"}, type : {"unreadable"}, condition : {"bad"}]
==============================================================================
