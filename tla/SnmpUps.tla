------------------------------- MODULE SnmpUps -------------------------------
(***************************************************************************)
(* snmp/check_snmp_ups.c: a UPS by RFC 1628.  One query fetches everything, *)
(* its result is not looked at: a value that did not come keeps LONG_MIN.   *)
(* Then one judgement after the other may change the state.                 *)
(***************************************************************************)
EXTENDS Integers, Sequences

CONSTANTS
    Charges, Runtimes,              \* values the UPS may report
    WarningCharge, CriticalCharge,  \* ends of the ranges "@N", checked values
    WarningRuntime, CriticalRuntime \* inside which alert

VARIABLES
    ups,            \* what the UPS would report
    value,          \* what was fetched
    mp_showperfdata,
    pc,             \* the judgement that comes next
    state,
    perfdata,       \* label and value of the performance data
    code

vars == <<ups, value, mp_showperfdata, pc, state, perfdata, code>>

STATE_OK == 0
STATE_WARNING == 1
STATE_CRITICAL == 2
STATE_UNKNOWN == 3
LONG_MIN == -1

BATTERY_UNKNOWN == 1
BATTERY_NORMAL == 2
BATTERY_LOW == 3
BATTERY_DEPLETED == 4
OUTPUT_OTHER == 1
OUTPUT_NONE == 2
OUTPUT_NORMAL == 3
OUTPUT_BYPASS == 4      \* treated like the booster and the reducer
OUTPUT_BATTERY == 5

UPS == [battery : BATTERY_UNKNOWN .. BATTERY_DEPLETED,
        seconds : {0, 30},
        source : {OUTPUT_OTHER, OUTPUT_NONE, OUTPUT_NORMAL, OUTPUT_BYPASS, OUTPUT_BATTERY},
        alarms : {0, 1},
        runtime : Runtimes,
        charge : Charges]

Nothing == [field \in {"battery", "seconds", "source", "alarms", "runtime", "charge"} |-> LONG_MIN]

Init ==
    /\ ups \in UPS
    /\ value = Nothing
    /\ mp_showperfdata \in BOOLEAN
    /\ pc = "query"
    /\ state = STATE_OK
    /\ perfdata = <<>>
    /\ code = -1

\* mp_snmp_query: everything comes, single objects are missing, or nothing
\* comes at all.
Query ==
    /\ pc = "query"
    /\ \/ value' = ups
       \/ \E f \in DOMAIN Nothing : value' = [ups EXCEPT ![f] = LONG_MIN]
       \/ value' = Nothing
    /\ pc' = "battery"
    /\ UNCHANGED <<ups, mp_showperfdata, state, perfdata, code>>

Judge(here, next, s) ==
    /\ pc = here
    /\ pc' = next
    /\ state' = s
    /\ UNCHANGED <<ups, value, mp_showperfdata, perfdata, code>>

Worse(s) == IF state = STATE_OK THEN s ELSE state

OnBattery == \/ value.seconds # LONG_MIN /\ value.seconds > 0
             \/ value.source = OUTPUT_BATTERY

Battery == Judge("battery", "alarms", IF OnBattery THEN STATE_WARNING ELSE state)

Alarms == Judge("alarms", "runtime",
                IF value.alarms # LONG_MIN /\ value.alarms > 0 /\ state # STATE_CRITICAL
                THEN STATE_WARNING ELSE state)

\* get_status of a value against the ranges "@w" and "@c".
get_status(v, w, c) == IF v \in 0 .. c THEN STATE_CRITICAL
                       ELSE IF v \in 0 .. w THEN STATE_WARNING ELSE STATE_OK

Threshold(v, w, c) ==
    IF v = LONG_MIN \/ get_status(v, w, c) = STATE_OK THEN state
    ELSE IF get_status(v, w, c) = STATE_CRITICAL THEN STATE_CRITICAL ELSE Worse(STATE_WARNING)

Runtime == Judge("runtime", "charge", Threshold(value.runtime, WarningRuntime, CriticalRuntime))

Charge == Judge("charge", "status", Threshold(value.charge, WarningCharge, CriticalCharge))

BatteryStatus ==
    Judge("status", "source",
          IF value.battery = BATTERY_NORMAL THEN state
          ELSE IF value.battery \in {BATTERY_LOW, BATTERY_DEPLETED} THEN STATE_CRITICAL
          ELSE Worse(STATE_UNKNOWN))

OutputSource ==
    Judge("source", "perfdata",
          IF value.source = OUTPUT_NORMAL THEN state
          ELSE IF value.source = OUTPUT_NONE THEN STATE_CRITICAL
          ELSE IF value.source = LONG_MIN THEN Worse(STATE_UNKNOWN)
          ELSE IF state # STATE_CRITICAL THEN STATE_WARNING ELSE state)

Charge_data == IF value.charge = LONG_MIN THEN <<>> ELSE <<[label |-> "remaining_charge", value |-> value.charge]>>

\* The runtime's datum carries ups_remaining_charge.
Runtime_data == IF value.runtime = LONG_MIN THEN <<>> ELSE <<[label |-> "remaining_runtime", value |-> value.charge]>>

Perfdata ==
    /\ pc = "perfdata"
    /\ perfdata' = IF mp_showperfdata THEN Charge_data \o Runtime_data ELSE <<>>
    /\ pc' = "report"
    /\ UNCHANGED <<ups, value, mp_showperfdata, state, code>>

Report ==
    /\ pc = "report"
    /\ code' = state
    /\ pc' = "exited"
    /\ UNCHANGED <<ups, value, mp_showperfdata, state, perfdata>>

Terminated == pc = "exited" /\ UNCHANGED vars

Next == Query \/ Battery \/ Alarms \/ Runtime \/ Charge \/ BatteryStatus \/ OutputSource
        \/ Perfdata \/ Report \/ Terminated
Spec == Init /\ [][Next]_vars
-----------------------------------------------------------------------------
(* Properties                                                               *)

Exited == pc = "exited"
Below(v, limit) == v # LONG_MIN /\ v <= limit

\* "always warning, if on battery": no later judgement takes the warning back,
\* and what is critical stays critical whatever is judged after it.
BatteryIsNeverFine ==
    Exited =>
        /\ OnBattery => code \in {STATE_WARNING, STATE_CRITICAL}
        /\ code = STATE_CRITICAL <=> \/ Below(value.runtime, CriticalRuntime)
                                     \/ Below(value.charge, CriticalCharge)
                                     \/ value.battery \in {BATTERY_LOW, BATTERY_DEPLETED}
                                     \/ value.source = OUTPUT_NONE

\* A UPS that does not answer, or leaves out its battery status or its source,
\* is never OK although the result of the query is not looked at.
SilenceIsNotOk ==
    Exited /\ code = STATE_OK => value.battery = BATTERY_NORMAL /\ value.source = OUTPUT_NORMAL

-----------------------------------------------------------------------------
(* Why they hold: the parts of the inductive invariant                      *)

\* What comes next when a judgement is done.
AfterSource == {"perfdata", "report", "exited"}
AfterStatus == AfterSource \cup {"source"}
AfterCharge == AfterStatus \cup {"status"}
AfterRuntime == AfterCharge \cup {"charge"}
AfterBattery == AfterRuntime \cup {"alarms", "runtime"}

TypeOK ==
    /\ ups \in UPS
    /\ value.runtime \in Runtimes \cup {LONG_MIN}
    /\ value.charge \in Charges \cup {LONG_MIN}
    /\ pc \in AfterBattery \cup {"query", "battery"}
    /\ state \in {STATE_OK, STATE_WARNING, STATE_CRITICAL, STATE_UNKNOWN}

\* What is done is kept by the judgements after it.
JudgedIsKept ==
    /\ OnBattery /\ pc \in AfterBattery => state \in {STATE_WARNING, STATE_CRITICAL}
    /\ state = STATE_CRITICAL <=>
          \/ pc \in AfterRuntime /\ Below(value.runtime, CriticalRuntime)
          \/ pc \in AfterCharge /\ Below(value.charge, CriticalCharge)
          \/ pc \in AfterStatus /\ value.battery \in {BATTERY_LOW, BATTERY_DEPLETED}
          \/ pc \in AfterSource /\ value.source = OUTPUT_NONE
    /\ state = STATE_OK => /\ pc \in AfterStatus => value.battery = BATTERY_NORMAL
                           /\ pc \in AfterSource => value.source = OUTPUT_NORMAL

IInv == TypeOK /\ JudgedIsKept /\ (Exited => code = state)

=============================================================================
