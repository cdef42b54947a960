------------------------------ MODULE SnmpAkcp ------------------------------
(***************************************************************************)
(* snmp/check_akcp.c: the temperature and humidity sensors of an AKCP       *)
(* device, one query per sensor and kind.  Without --sensor the positions   *)
(* are tried in turn up to the first that is not available.  A query may be *)
(* lost.                                                                    *)
(***************************************************************************)
EXTENDS Integers, Sequences, SequencesExt

CONSTANTS
    Positions,      \* bound: sensor positions tried without --sensor (10)
    MaxSensors,     \* bound: --sensor options
    Kinds,          \* what --temp and --hum select: subsets of {"temp", "hum"}
    MaxLost         \* bound: queries lost

VARIABLES
    device,         \* reading of every position and kind
    asked,          \* the kinds asked for with --temp and --hum
    sensor,         \* the listed positions
    i,              \* loop index
    kind,           \* the query at hand
    found,          \* readings of this position
    sensor_found,
    state,
    pc,             \* "loop", "exited"
    code,
    lost,
    judged          \* history: readings that were judged

vars == <<device, asked, sensor, i, kind, found, sensor_found, state, pc, code, lost, judged>>
setup == <<device, asked, sensor>>

STATE_OK == 0
STATE_WARNING == 1
STATE_CRITICAL == 2
STATE_UNKNOWN == 3

\* sensor_online 0, 2, or 1 with the sensor_state normal, warning, critical.
Readings == {"unavailable", "offline", "normal", "warning", "critical"}

Init ==
    /\ device \in [1 .. Positions -> [temp : Readings, hum : Readings]]
    /\ asked \in Kinds
    /\ sensor \in UNION {[1 .. n -> 1 .. Positions] : n \in 0 .. MaxSensors}
    /\ i = 1
    /\ kind = "temp"
    /\ found = 0
    /\ sensor_found = 0
    /\ state = STATE_OK
    /\ pc = "loop"
    /\ code = -1
    /\ lost = 0
    /\ judged = {}

\* sensor_temp and sensor_hum: both kinds if neither option is given.
kinds == IF asked = {} THEN {"temp", "hum"} ELSE asked
Limit == IF sensor = <<>> THEN Positions ELSE Len(sensor)
idx == IF sensor = <<>> THEN i ELSE sensor[i]
Reading == device[idx][kind]
Unless(s) == IF state = STATE_OK THEN s ELSE state

\* Behind the loop.
Finish ==
    /\ pc' = "exited"
    /\ code' = IF sensor_found' = 0 THEN STATE_UNKNOWN ELSE state'

\* After a query: humidity follows temperature, the next position follows
\* humidity.  A listed position without a reading is unknown.
Advance(n, s) ==
    IF kind = "temp"
    THEN /\ kind' = "hum"
         /\ found' = n
         /\ state' = s
         /\ UNCHANGED <<i, sensor_found, pc, code>>
    ELSE /\ state' = IF sensor # <<>> /\ n = 0 /\ s = STATE_OK THEN STATE_UNKNOWN ELSE s
         /\ sensor_found' = sensor_found + n
         /\ kind' = "temp"
         /\ found' = 0
         /\ i' = i + 1
         /\ IF i = Limit THEN Finish ELSE UNCHANGED <<pc, code>>

\* A kind that is not selected is not queried.
Skip ==
    /\ pc = "loop"
    /\ kind \notin kinds
    /\ Advance(found, state)
    /\ UNCHANGED <<setup, lost, judged>>

Breaks == /\ i' = i
          /\ UNCHANGED <<kind, found, sensor_found, state>>
          /\ Finish

\* A query that fails ends the loop.
Lost ==
    /\ pc = "loop"
    /\ kind \in kinds
    /\ lost < MaxLost
    /\ lost' = lost + 1
    /\ Breaks
    /\ UNCHANGED <<setup, judged>>

\* So does an unavailable sensor if none is listed.
Unavailable ==
    /\ pc = "loop"
    /\ kind \in kinds
    /\ sensor = <<>>
    /\ Reading = "unavailable"
    /\ Breaks
    /\ UNCHANGED <<setup, lost, judged>>

\* A reading.
Online ==
    /\ pc = "loop"
    /\ kind \in kinds
    /\ Reading \in {"normal", "warning", "critical"}
    /\ Advance(found + 1, CASE Reading = "normal" -> state
                            [] Reading = "warning" -> Unless(STATE_WARNING)
                            [] Reading = "critical" -> STATE_CRITICAL)
    /\ judged' = judged \cup {Reading}
    /\ UNCHANGED <<setup, lost>>

\* A listed sensor that is offline or not available is unknown if --temp is
\* given; the code for the humidity looks at --temp too.
NoReading ==
    /\ pc = "loop"
    /\ kind \in kinds
    /\ Reading = "offline" \/ (Reading = "unavailable" /\ sensor # <<>>)
    /\ Advance(found, IF sensor # <<>> /\ "temp" \in asked
                      THEN Unless(STATE_UNKNOWN) ELSE state)
    /\ UNCHANGED <<setup, lost, judged>>

Terminated == pc = "exited" /\ UNCHANGED vars

Next == Skip \/ Lost \/ Unavailable \/ Online \/ NoReading \/ Terminated
Spec == Init /\ [][Next]_vars
-----------------------------------------------------------------------------
(* Properties                                                               *)

\* Unless it says that there are no sensors the plugin tells the worst of the
\* readings it saw.
WorstReadingWins ==
    pc = "exited" /\ sensor_found > 0 =>
        /\ code = STATE_CRITICAL <=> "critical" \in judged
        /\ code = STATE_OK => judged = {"normal"}

\* A listed position that gave no reading keeps the check from being OK,
\* whichever way it is silent.
ListedIsRead ==
    pc = "exited" /\ lost = 0 /\ code = STATE_OK =>
        \A k \in DOMAIN sensor : \E x \in kinds : device[sensor[k]][x] = "normal"

-----------------------------------------------------------------------------
(* Why they hold: the parts of the inductive invariant                      *)

TypeOK ==
    /\ device \in [1 .. Positions -> [temp : Readings, hum : Readings]]
    /\ asked \in SUBSET {"temp", "hum"}
    /\ sensor \in Seq(1 .. Positions)
    /\ i \in 1 .. Limit + 1
    /\ pc \in {"loop", "exited"}
    /\ pc = "loop" => i <= Limit
    /\ kind \in {"temp", "hum"}
    /\ found \in Nat
    /\ sensor_found \in Nat
    /\ state \in {STATE_OK, STATE_WARNING, STATE_CRITICAL, STATE_UNKNOWN}
    /\ lost \in Nat

\* The state is that of the readings, and a reading is counted.
StateIsWorst ==
    /\ state = STATE_CRITICAL <=> "critical" \in judged
    /\ state = STATE_OK => judged \subseteq {"normal"}
    /\ found > 0 \/ sensor_found > 0 => judged # {}

HasNormal(p) == \E x \in kinds : device[p][x] = "normal"

\* While all is well, the listed positions behind the loop have a reading, and
\* so has the one at hand if it was counted.
BehindIsRead ==
    state = STATE_OK /\ sensor # <<>> =>
        /\ \A k \in DOMAIN sensor : k < i => HasNormal(sensor[k])
        /\ pc = "loop" /\ found > 0 => HasNormal(sensor[i])

ExitIsRight ==
    pc = "exited" => /\ code = IF sensor_found = 0 THEN STATE_UNKNOWN ELSE state
                     /\ lost = 0 /\ sensor # <<>> => i = Limit + 1

IInv == TypeOK /\ StateIsWorst /\ BehindIsRead /\ ExitIsRight

=============================================================================
