------------------------------ MODULE SnmpVrrp ------------------------------
(***************************************************************************)
(* snmp/check_keepalived_vrrp.c: every VRRP instance of the table, or those *)
(* asked for with -i, is in its configured state.  A name ending in "*"     *)
(* asks for all instances that begin like it.                               *)
(***************************************************************************)
EXTENDS Integers, Sequences, SequencesExt

CONSTANTS
    Names,          \* names of VRRP instances
    Wildcards,      \* patterns of -i that end in "*"
    Matches,        \* Matches[w]: the names that begin like the pattern w
    MaxRows,        \* bound: instances of the router
    MaxInstances    \* bound: -i options

VARIABLES
    asked,          \* what -i asked for
    instance,       \* the options still looked for, "NULL" once matched
    device,         \* the instances of the router
    table,          \* the rows that were fetched
    rc,             \* of mp_snmp_subtree_query
    pc,             \* "fetch", "rows", "unmatched", "exited", "crashed"
    i,
    mp_state,       \* worst reported state, -1 before the first
    messages,       \* history: rows and options the plugin reported
    code

vars == <<asked, instance, device, table, rc, pc, i, mp_state, messages, code>>

STAT_SUCCESS == 0
STAT_ERROR == 1
STATE_OK == 0
STATE_WARNING == 1
STATE_CRITICAL == 2
STATE_UNKNOWN == 3

\* A row: its name and whether its state is the initial one, another one that
\* has a name, or one past the three STATENAMEs, such as fault(3); a cell of it
\* may be missing or have the wrong type, and a long name does not fit its buffer.
Rows == [name : Names, state : {"initial", "other", "fault", "unreadable", "unnamed"}]

Init ==
    /\ asked \in UNION {[1 .. n -> Names \cup Wildcards] : n \in 0 .. MaxInstances}
    /\ instance = asked
    /\ device \in UNION {[1 .. n -> Rows] : n \in 0 .. MaxRows}
    /\ \A k, l \in DOMAIN device : device[k].name = device[l].name => k = l
    /\ table = <<>>
    /\ rc = STAT_SUCCESS
    /\ pc = "fetch"
    /\ i = 0
    /\ mp_state = -1
    /\ messages = {}
    /\ code = -1

Fetch ==
    /\ pc = "fetch"
    /\ \/ pc' = "rows" /\ table' = device /\ rc' = STAT_SUCCESS /\ UNCHANGED code
       \/ pc' = "exited" /\ code' = STATE_UNKNOWN /\ rc' = STAT_ERROR /\ UNCHANGED table
    /\ UNCHANGED <<asked, instance, device, i, mp_state, messages>>

\* set_warning and set_critical.
Report(s, m) ==
    /\ mp_state' = IF mp_state < s THEN s ELSE mp_state
    /\ messages' = messages \cup {m}

mp_strmatch(string, match) ==
    IF match \in Wildcards THEN string \in Matches[match] ELSE string = match

\* The first option that is not used up and matches the row's name.
Matching(row) == {j \in DOMAIN instance :
                    instance[j] # "NULL" /\ mp_strmatch(row.name, instance[j])}
Chosen(row) == Min(Matching(row))

\* An exact name is used up by its match.
Used(j) == IF instance[j] \in Wildcards THEN instance ELSE [instance EXCEPT ![j] = "NULL"]

\* Defect: only the options are compared, not the state.
Judge_nostate(row) ==
    IF row.state = "unreadable"
    THEN Report(STATE_WARNING, row.name)
    ELSE UNCHANGED <<mp_state, messages>>

\* A cell that cannot be fetched is a warning, and so is a state that is not
\* the initial one.  What stands in place of a name that STATENAME does not have
\* is left out.
Judge(row) ==
    IF row.state \in {"unreadable", "other", "fault"}
    THEN Report(STATE_WARNING, row.name)
    ELSE UNCHANGED <<mp_state, messages>>

\* The loop reaches another row with a name.
Another == i < Len(table) /\ table[i + 1].state # "unnamed"

\* One row of the loop.
Row ==
    /\ pc = "rows"
    /\ Another
    /\ i' = i + 1
    /\ LET row == table[i + 1]
       IN  IF asked = <<>>
           THEN Judge(row) /\ UNCHANGED instance
           ELSE IF Matching(row) = {}
                THEN UNCHANGED <<mp_state, messages, instance>>
                ELSE Judge(row) /\ instance' = Used(Chosen(row))
    /\ UNCHANGED <<asked, device, table, rc, pc, code>>

\* STATENAME[vrrp_state] of a state past its end: what is found there need not be
\* a string.
RowCrashes ==
    /\ pc = "rows"
    /\ Another
    /\ LET row == table[i + 1]
       IN  row.state = "fault" /\ (asked = <<>> \/ Matching(row) # {})
    /\ pc' = "crashed"
    /\ UNCHANGED <<asked, instance, device, table, rc, i, mp_state, messages, code>>

\* Behind the last row the options are looked through; the loop over them
\* reuses i.
NoMoreRows ==
    /\ pc = "rows"
    /\ ~ Another
    /\ pc' = "unmatched"
    /\ i' = IF asked = <<>> THEN i ELSE 0
    /\ UNCHANGED <<asked, instance, device, table, rc, mp_state, messages, code>>

\* An exact name that no row used up is critical.
Unmatched ==
    /\ pc = "unmatched"
    /\ asked # <<>>
    /\ i < Len(instance)
    /\ i' = i + 1
    /\ IF instance[i + 1] \in Names
       THEN Report(STATE_CRITICAL, instance[i + 1])
       ELSE UNCHANGED <<mp_state, messages>>
    /\ UNCHANGED <<asked, instance, device, table, rc, pc, code>>

\* Nothing seen: unknown(); otherwise mp_exit().
Exit ==
    /\ pc = "unmatched"
    /\ asked = <<>> \/ i = Len(instance)
    /\ pc' = "exited"
    /\ code' = IF i = 0 THEN STATE_UNKNOWN
               ELSE IF mp_state = -1 THEN STATE_OK ELSE mp_state
    /\ UNCHANGED <<asked, instance, device, table, rc, i, mp_state, messages>>

Terminated == pc \in {"exited", "crashed"} /\ UNCHANGED vars

Next == Fetch \/ Row \/ RowCrashes \/ NoMoreRows \/ Unmatched \/ Exit \/ Terminated
Spec == Init /\ [][Next]_vars
-----------------------------------------------------------------------------
(* Properties                                                               *)

Ran == pc = "exited" /\ rc = STAT_SUCCESS
Options == ToSet(asked)
Seen(k) == \A l \in 1 .. k : device[l].state # "unnamed"
Has(n) == \E k \in DOMAIN device : device[k].name = n /\ Seen(k)
Selected(row) == asked = <<>> \/ \E m \in Options : mp_strmatch(row.name, m)

\* Every instance that is asked for and read is judged, whichever option asks for it
\* and in whichever order rows and options come: if the plugin reaches its end a
\* bad one is reported and keeps it from being OK.
AskedIsJudged ==
    Ran => \A k \in DOMAIN device :
        Seen(k) /\ Selected(device[k]) /\ device[k].state # "initial" =>
            device[k].name \in messages /\ code \in {STATE_WARNING, STATE_CRITICAL}

\* An instance that is asked for by name and is not on the router makes the
\* check critical.
MissingIsCritical ==
    Ran => \A n \in Options \cap Names : ~ Has(n) => code = STATE_CRITICAL

\* The instances asked for are all there, asked for by one option each, and in
\* their initial state.
AllIsWell ==
    /\ IsInjective(asked)
    /\ \A n \in Options \cap Names : Has(n)
    /\ \A k \in DOMAIN device : Seen(k) /\ Selected(device[k]) => device[k].state = "initial"
    /\ \A w \in Options \cap Wildcards : Options \cap Matches[w] = {}

\* Nothing is made up: a check of which all that is so ends, and is OK.
NoFalseAlarm ==
    AllIsWell => /\ pc # "crashed"
                 /\ Ran /\ (\E k \in DOMAIN device : Seen(k)) => code = STATE_OK

-----------------------------------------------------------------------------
(* Why they hold: the parts of the inductive invariant                      *)

TypeOK ==
    /\ asked \in Seq(Names \cup Wildcards)
    /\ instance \in Seq(Names \cup Wildcards \cup {"NULL"})
    /\ Len(instance) = Len(asked)
    /\ device \in Seq(Rows)
    /\ \A k, l \in DOMAIN device : device[k].name = device[l].name => k = l
    /\ pc \in {"fetch", "rows", "unmatched", "exited", "crashed"}
    /\ i \in Nat
    /\ mp_state \in {-1, STATE_WARNING, STATE_CRITICAL}

Fetched ==
    /\ pc = "fetch" => i = 0 /\ rc = STAT_SUCCESS
    /\ pc \in {"rows", "unmatched"} => rc = STAT_SUCCESS /\ table = device

\* The rows the loop has looked at: i of them while it runs, and in the end
\* all those before the first without a name.
LoopIsRight ==
    pc = "rows" => i <= Len(device) /\ \A k \in 1 .. i : device[k].state # "unnamed"
Behind(k) == /\ rc = STAT_SUCCESS
             /\ \/ pc \in {"rows", "crashed"} /\ k <= i
                \/ pc \in {"unmatched", "exited"} /\ Seen(k)

\* A bad one among them was reported.
RowsAreRight ==
    \A k \in DOMAIN device :
        Behind(k) /\ Selected(device[k]) /\ device[k].state # "initial" =>
            device[k].name \in messages /\ mp_state # -1

\* An option is used up by the row of its name only.
OptionsAreRight ==
    \A j \in DOMAIN asked :
        \/ instance[j] = asked[j]
        \/ /\ instance[j] = "NULL" /\ asked[j] \in Names
           /\ \E k \in DOMAIN device : Behind(k) /\ device[k].name = asked[j]

\* Where all is well nothing is reported, and the row of an option uses it up.
WellIsQuiet ==
    AllIsWell =>
        /\ mp_state = -1 /\ pc # "crashed"
        /\ \A j \in DOMAIN asked, k \in DOMAIN device :
               asked[j] \in Names /\ Behind(k) /\ device[k].name = asked[j] => instance[j] = "NULL"

\* The loop over the options reports those that are left.
RestIsReported ==
    pc = "unmatched" \/ Ran =>
        IF asked = <<>> THEN i = 0 => ~ \E k \in DOMAIN device : Seen(k)
        ELSE i <= Len(asked) /\ \A j \in 1 .. i : instance[j] \in Names => mp_state = STATE_CRITICAL

ExitIsRight ==
    Ran => /\ asked # <<>> => i = Len(asked)
           /\ code = IF i = 0 THEN STATE_UNKNOWN ELSE IF mp_state = -1 THEN STATE_OK ELSE mp_state

IInv == /\ TypeOK /\ Fetched /\ LoopIsRight /\ RowsAreRight /\ OptionsAreRight
        /\ WellIsQuiet /\ RestIsReported /\ ExitIsRight

=============================================================================
