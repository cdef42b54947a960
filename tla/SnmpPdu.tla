------------------------------- MODULE SnmpPdu -------------------------------
(***************************************************************************)
(* snmp/check_apc_pdu.c: power supplies and outlets of a PDU.  --on and     *)
(* --off list the outlets that must be on and off by number or by name;     *)
(* without a list all outlets must be on.                                   *)
(***************************************************************************)
EXTENDS Integers, Sequences, SequencesExt, FiniteSetsExt

CONSTANTS
    Names,          \* names of outlets
    Ports,          \* what --on and --off can list
    Number,         \* strtol of a name or of a listed port, 0 for no number
    MaxOutlets,     \* bound: outlets of the PDU
    MaxPorts        \* bound: ports of a list

VARIABLES
    pdu_psu1, pdu_psu2, \* 1 is good, -1 not fetched
    outlets,            \* the table: name and state of every outlet
    todo,               \* listed ports still to check, with their wanted state
    listed,             \* history: all of them
    pc,                 \* "fetch", "psu", "all", "ports", "report", "exited"
    i,
    status,
    code

vars == <<pdu_psu1, pdu_psu2, outlets, todo, listed, pc, i, status, code>>
device == <<pdu_psu1, pdu_psu2, outlets, listed>>

STATE_OK == 0
STATE_CRITICAL == 2
STATE_UNKNOWN == 3
ON == 1
OFF == 2
UNREADABLE == 0

Lists == UNION {[1 .. n -> Ports] : n \in 0 .. MaxPorts}
Want(s, ports) == [k \in DOMAIN ports |-> [port |-> ports[k], state |-> s]]

Init ==
    /\ pdu_psu1 \in {1, 2, -1}
    /\ pdu_psu2 \in {1, 2, -1}
    /\ outlets \in UNION {[1 .. n -> [name : Names, state : {ON, OFF, UNREADABLE}]] : n \in 0 .. MaxOutlets}
    /\ \A k, l \in DOMAIN outlets : outlets[k].name = outlets[l].name => k = l
    /\ \E on, off \in Lists : listed = Want(ON, on) \o Want(OFF, off)
    /\ todo = listed
    /\ pc = "fetch"
    /\ i = 0
    /\ status = STATE_OK
    /\ code = -1

\* A query that fails is unknown at once.
Fetch ==
    /\ pc = "fetch"
    /\ \/ pc' = "psu" /\ UNCHANGED code
       \/ pc' = "exited" /\ code' = STATE_UNKNOWN
    /\ UNCHANGED <<device, todo, i, status>>

PowerSupplies ==
    /\ pc = "psu"
    /\ status' = IF pdu_psu1 # 1 \/ pdu_psu2 # 1 THEN STATE_CRITICAL ELSE status
    /\ pc' = IF listed = <<>> THEN "all" ELSE "ports"
    /\ UNCHANGED <<device, todo, i, code>>

\* get_value of the state column.
State(k) == IF k \in DOMAIN outlets THEN outlets[k].state ELSE UNREADABLE

\* Without a list: the outlets up to the first that cannot be read.
AllOutlets ==
    /\ pc = "all"
    /\ IF State(i + 1) = UNREADABLE
       THEN pc' = "report" /\ UNCHANGED <<i, status>>
       ELSE /\ i' = i + 1
            /\ status' = IF State(i + 1) # ON THEN STATE_CRITICAL ELSE status
            /\ UNCHANGED pc
    /\ UNCHANGED <<device, todo, code>>

\* The outlet a listed port means: a number as it is, anything else the first
\* outlet of that name, 0 if there is none.
Outlet(port) ==
    IF Number[port] # 0 THEN Number[port]
    ELSE LET named == {k \in DOMAIN outlets : outlets[k].name = port}
         IN  IF named = {} THEN 0 ELSE Min(named)

\* Defect: a port that is not found forgets what was wrong before.
Port_forget ==
    /\ pc = "ports"
    /\ todo # <<>>
    /\ todo' = Tail(todo)
    /\ LET s == State(Outlet(Head(todo).port))
       IN  status' = IF s = UNREADABLE THEN STATE_UNKNOWN
                     ELSE IF s # Head(todo).state THEN STATE_CRITICAL ELSE status
    /\ UNCHANGED <<device, pc, i, code>>

\* One listed port: unknown if it is not found, critical if its state is not
\* the wanted one.
Port ==
    /\ pc = "ports"
    /\ todo # <<>>
    /\ todo' = Tail(todo)
    /\ LET s == State(Outlet(Head(todo).port))
       IN  status' = IF s = UNREADABLE
                     THEN IF status = STATE_OK THEN STATE_UNKNOWN ELSE status
                     ELSE IF s # Head(todo).state THEN STATE_CRITICAL ELSE status
    /\ UNCHANGED <<device, pc, i, code>>

PortsDone ==
    /\ pc = "ports"
    /\ todo = <<>>
    /\ pc' = "report"
    /\ UNCHANGED <<device, todo, i, status, code>>

Report ==
    /\ pc = "report"
    /\ pc' = "exited"
    /\ code' = status
    /\ UNCHANGED <<device, todo, i, status>>

Terminated == pc = "exited" /\ UNCHANGED vars

Next == Fetch \/ PowerSupplies \/ AllOutlets \/ Port \/ PortsDone \/ Report \/ Terminated
Spec == Init /\ [][Next]_vars
-----------------------------------------------------------------------------
(* Properties                                                               *)

\* The wanted state of every outlet that was looked at.
Wrong == IF listed = <<>>
         THEN \E k \in DOMAIN outlets : outlets[k].state = OFF
         ELSE \E w \in ToSet(listed) : State(Outlet(w.port)) \notin {w.state, UNREADABLE}
NotFound == \E w \in ToSet(listed) : State(Outlet(w.port)) = UNREADABLE
AllRead == \A k \in DOMAIN outlets : outlets[k].state # UNREADABLE
Reported == pc = "exited" /\ status = code

\* A fault outweighs a port that is not found and both outweigh what is in
\* order, in whichever order the ports are listed.
WorstOutletWins ==
    Reported /\ (AllRead \/ listed # <<>>) =>
        code = IF pdu_psu1 # 1 \/ pdu_psu2 # 1 \/ Wrong THEN STATE_CRITICAL
               ELSE IF NotFound THEN STATE_UNKNOWN ELSE STATE_OK

\* A listed number means the outlet in that place.
NumbersAreOutlets ==
    Reported /\ code = STATE_OK =>
        \A w \in ToSet(listed) : Number[w.port] # 0 =>
            /\ Number[w.port] \in DOMAIN outlets
            /\ outlets[Number[w.port]].state = w.state

-----------------------------------------------------------------------------
(* Why they hold: the parts of the inductive invariant                      *)

TypeOK ==
    /\ outlets \in Seq([name : Names, state : {ON, OFF, UNREADABLE}])
    /\ listed \in Seq([port : Ports, state : {ON, OFF}])
    /\ todo \in Seq([port : Ports, state : {ON, OFF}])
    /\ pc \in {"fetch", "psu", "all", "ports", "report", "exited"}
    /\ i \in 0 .. Len(outlets)

\* Ports are taken from the front of the list.
Behind == Len(listed) - Len(todo)
TodoIsListed ==
    /\ Len(todo) <= Len(listed)
    /\ \A k \in DOMAIN todo : todo[k] = listed[Behind + k]

BadSupply == pdu_psu1 # 1 \/ pdu_psu2 # 1
IsWrong(w) == State(Outlet(w.port)) \notin {w.state, UNREADABLE}
IsNotFound(w) == State(Outlet(w.port)) = UNREADABLE

\* The status of the power supplies and of the ports or outlets behind the loop.
StatusIsWorst ==
    /\ pc \in {"fetch", "psu"} => status = STATE_OK /\ i = 0 /\ todo = listed
    /\ pc = "all" => listed = <<>>
    /\ pc = "ports" => listed # <<>>
    /\ pc \in {"all", "ports", "report"} \/ Reported =>
          status = IF \/ BadSupply
                      \/ listed = <<>> /\ \E k \in 1 .. i : outlets[k].state = OFF
                      \/ \E k \in 1 .. Behind : IsWrong(listed[k])
                   THEN STATE_CRITICAL
                   ELSE IF \E k \in 1 .. Behind : IsNotFound(listed[k]) THEN STATE_UNKNOWN ELSE STATE_OK

\* A loop ends with the list, or with the table or an outlet that cannot be read.
LoopEnds ==
    pc = "report" \/ Reported =>
        IF listed = <<>> THEN i = Len(outlets) \/ State(i + 1) = UNREADABLE ELSE todo = <<>>

ExitIsRight == pc = "exited" => code = status \/ (code = STATE_UNKNOWN /\ status = STATE_OK)

IInv == TypeOK /\ TodoIsListed /\ StatusIsWorst /\ LoopEnds /\ ExitIsRight

=============================================================================
