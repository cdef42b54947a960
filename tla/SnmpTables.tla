----------------------------- MODULE SnmpTables -----------------------------
(***************************************************************************)
(* Judging a table row by row: snmp/check_qnap_vols.c, check_qnap_disks.c   *)
(* and check_arc_raid.c.  A table is what mp_snmp_subtree_query left: the   *)
(* whole column, or a part of it if the walk failed.                        *)
(***************************************************************************)
EXTENDS Integers, Sequences, SequencesExt

CONSTANTS
    Plugins,            \* the plugins that run
    MaxRows,            \* bound: rows of the device
    Unreadable          \* whether a value may have a wrong type or be too long

VARIABLES
    plugin,
    device,         \* the state of every row on the device
    table,          \* the state column that was fetched
    rc,             \* of mp_snmp_subtree_query
    pc,             \* "fetch", "rows", "report", "exited"
    i,              \* rows looked at
    status,
    output,         \* rows named in the message
    code            \* exit code, -1 while running

vars == <<plugin, device, table, rc, pc, i, status, output, code>>

STATE_OK == 0
STATE_WARNING == 1
STATE_CRITICAL == 2
STATE_UNKNOWN == 3
STAT_SUCCESS == 0
STAT_ERROR == 1

Cells(p) ==
    (IF p = "check_qnap_vols" THEN {"Ready", "In degraded mode", "Synchronizing"}
     ELSE IF p = "check_qnap_disks" THEN {"HDD_Ready", "HDD_NoDisk", "HDD_RWError"}
     ELSE {"Normal", "Checking", "Rebuilding", "Failed"})
    \cup (IF Unreadable THEN {"unreadable"} ELSE {})

Init ==
    /\ plugin \in Plugins
    /\ device \in UNION {[1 .. n -> Cells(plugin)] : n \in 0 .. MaxRows}
    /\ table = <<>>
    /\ rc = STAT_SUCCESS
    /\ pc = "fetch"
    /\ i = 0
    /\ status = STATE_OK
    /\ output = <<>>
    /\ code = -1

\* mp_snmp_subtree_query and what the plugin makes of its result: the QNAP
\* checks give up, check_arc_raid prints the error and goes on.
Fetch ==
    /\ pc = "fetch"
    /\ \/ /\ table' = device
          /\ rc' = STAT_SUCCESS
          /\ pc' = "rows"
          /\ UNCHANGED code
       \/ /\ \E n \in 0 .. Len(device) : table' = SubSeq(device, 1, n)
          /\ rc' = STAT_ERROR
          /\ IF plugin = "check_arc_raid"
             THEN pc' = "rows" /\ UNCHANGED code
             ELSE pc' = "exited" /\ code' = STATE_UNKNOWN
    /\ UNCHANGED <<plugin, device, i, status, output>>

\* mp_snmp_subtree_get_value of row k: <<>> for the result 0.
mp_snmp_subtree_get_value(k) ==
    IF k < Len(table) /\ table[k + 1] # "unreadable" THEN <<table[k + 1]>> ELSE <<>>

\* The first row without a readable state ends the loop.
NoRow ==
    /\ pc = "rows"
    /\ mp_snmp_subtree_get_value(i) = <<>>
    /\ pc' = "report"
    /\ UNCHANGED <<plugin, device, table, rc, i, status, output, code>>

\* One row: the good states are passed over, another one is added to the
\* message and makes the status worse.
Row(p, good, worse) ==
    /\ pc = "rows"
    /\ plugin = p
    /\ mp_snmp_subtree_get_value(i) # <<>>
    /\ i' = i + 1
    /\ LET state == mp_snmp_subtree_get_value(i)[1]
       IN  IF state \in good
           THEN UNCHANGED <<status, output>>
           ELSE /\ status' = worse[state]
                /\ output' = Append(output, i + 1)
    /\ UNCHANGED <<plugin, device, table, rc, pc, code>>

\* Defect: a later volume decides alone.
VolumeRow_last ==
    Row("check_qnap_vols", {"Ready"},
        [s \in {"In degraded mode", "Synchronizing"} |->
            IF s = "In degraded mode" THEN STATE_CRITICAL ELSE STATE_WARNING])

VolumeRow ==
    Row("check_qnap_vols", {"Ready"},
        [s \in {"In degraded mode", "Synchronizing"} |->
            IF status = STATE_CRITICAL \/ s = "In degraded mode"
            THEN STATE_CRITICAL ELSE STATE_WARNING])

DiskRow ==
    Row("check_qnap_disks", {"HDD_Ready"},
        [s \in {"HDD_NoDisk", "HDD_RWError"} |-> STATE_CRITICAL])

RaidRow ==
    Row("check_arc_raid", {"Normal", "Checking"},
        [s \in {"Rebuilding", "Failed"} |->
            IF status = STATE_CRITICAL \/ s # "Rebuilding"
            THEN STATE_CRITICAL ELSE STATE_WARNING])

Report ==
    /\ pc = "report"
    /\ code' = IF i = 0 THEN STATE_UNKNOWN ELSE status
    /\ pc' = "exited"
    /\ UNCHANGED <<plugin, device, table, rc, i, status, output>>

Terminated == pc = "exited" /\ UNCHANGED vars

Next == Fetch \/ NoRow \/ VolumeRow \/ DiskRow \/ RaidRow \/ Report \/ Terminated
Spec == Init /\ [][Next]_vars
-----------------------------------------------------------------------------
(* Properties                                                               *)

\* How bad a row is, from the words of the messages.
Severity == [c \in {"Ready", "HDD_Ready", "Normal", "Checking", "Synchronizing", "Rebuilding",
                    "In degraded mode", "HDD_NoDisk", "HDD_RWError", "Failed"} |->
                IF c \in {"Ready", "HDD_Ready", "Normal", "Checking"} THEN STATE_OK
                ELSE IF c \in {"Synchronizing", "Rebuilding"} THEN STATE_WARNING ELSE STATE_CRITICAL]

Readable == \A k \in DOMAIN device : device[k] # "unreadable"
Judged == pc = "exited" /\ rc = STAT_SUCCESS

\* The worst row decides, wherever it is in the table, and the message names
\* exactly the rows that are not well; a device without rows is unknown.
WorstRowWins ==
    Judged /\ Readable =>
        /\ device = <<>> <=> code = STATE_UNKNOWN
        /\ device # <<>> => /\ \A k \in DOMAIN device : Severity[device[k]] <= code
                            /\ \/ code = STATE_OK
                               \/ \E k \in DOMAIN device : Severity[device[k]] = code
        /\ \A k \in DOMAIN device : Contains(output, k) <=> Severity[device[k]] # STATE_OK

\* Whatever cannot be read and however the walk ended, a row that was judged
\* bad before is not forgotten.
BadRowIsKept ==
    pc = "exited" /\ code \in {STATE_OK, STATE_UNKNOWN} =>
        \A k \in 1 .. i : Severity[table[k]] = STATE_OK

-----------------------------------------------------------------------------
(* Why they hold: the parts of the inductive invariant                      *)

TypeOK ==
    /\ plugin \in {"check_qnap_vols", "check_qnap_disks", "check_arc_raid"}
    /\ device \in Seq(Cells(plugin))
    /\ table \in Seq(Cells(plugin))
    /\ rc \in {STAT_SUCCESS, STAT_ERROR}
    /\ pc \in {"fetch", "rows", "report", "exited"}
    /\ i \in 0 .. Len(table)
    /\ status \in {STATE_OK, STATE_WARNING, STATE_CRITICAL}
    /\ output \in Seq(Nat)

\* The whole column was fetched unless the walk failed.
Fetched == IF pc = "fetch" THEN i = 0 ELSE rc = STAT_SUCCESS => table = device

\* The loop has read the rows behind it, and the status and the message say
\* of them what there is to be said.
RowsBehind ==
    /\ \A k \in 1 .. i : table[k] # "unreadable" /\ Severity[table[k]] <= status
    /\ status = STATE_OK \/ \E k \in 1 .. i : Severity[table[k]] = status
    /\ \A k \in 1 .. i : Contains(output, k) <=> Severity[table[k]] # STATE_OK
    /\ \A l \in DOMAIN output : output[l] <= i

\* It ends behind the last row or before one that cannot be read.
LoopEnds ==
    pc \in {"report", "exited"} /\ rc = STAT_SUCCESS =>
        \/ i = Len(table)
        \/ i + 1 \in DOMAIN table /\ table[i + 1] = "unreadable"

ExitIsRight == IF pc = "exited" THEN code = IF i = 0 THEN STATE_UNKNOWN ELSE status ELSE code = -1

IInv == TypeOK /\ Fetched /\ RowsBehind /\ LoopEnds /\ ExitIsRight

=============================================================================
