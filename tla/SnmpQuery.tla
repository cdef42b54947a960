------------------------------ MODULE SnmpQuery ------------------------------
(***************************************************************************)
(* Fetching single objects: mp_snmp_query and mp_snmp_values_fetch1 in      *)
(* lib/snmp_utils.c.  One GET asks for all objects.  An SNMP v1 agent       *)
(* refuses the whole request for the first object it does not have, and the *)
(* loop repeats the request without it; later versions mark the missing     *)
(* objects in the answer.  Objects come and go between two requests.        *)
(***************************************************************************)
EXTENDS Integers, Sequences, SequencesExt

CONSTANTS
    Wanted,         \* the objects of querycmd, in order, each once
    Versions,       \* SNMP versions of the session
    MaxChanges      \* bound: changes of the agent's objects in a query

Objects == ToSet(Wanted)

VARIABLES
    func,           \* the function called
    version,        \* ss->version
    mib,            \* per object: "absent", "right", or "wrong": a type or a
                    \* size copy_value does not take
    changes,
    pc,             \* "send", "agent", "response", "done"
    pdu,            \* objects of the request
    response,
    target,         \* per object: "default" or "value"
    rc,
    steady,         \* history: objects that were "right" all the time
    blamed          \* history: objects an agent's error named

call == <<func, version>>
agent == <<mib, changes, steady>>
vars == <<call, agent, pc, pdu, response, target, rc, blamed>>

STAT_SUCCESS == 0
STAT_ERROR == 1
NOERROR == 0
TOOBIG == 1
NOSUCHNAME == 2
GENERR == 5

NoResponse == [errstat |-> -1, errindex |-> 0, variables |-> <<>>]

Init ==
    /\ func \in {"mp_snmp_query", "mp_snmp_values_fetch1"}
    /\ version \in Versions
    /\ mib \in [Objects -> {"absent", "right", "wrong"}]
    /\ changes = 0
    /\ pc = "send"
    /\ pdu = Wanted
    /\ response = NoResponse
    /\ target = [o \in Objects |-> "default"]
    /\ rc = STAT_SUCCESS
    /\ steady = {o \in Objects : mib[o] = "right"}
    /\ blamed = {}

\* The agent's objects change by themselves.
Change(o, s) ==
    /\ pc # "done"
    /\ changes < MaxChanges
    /\ mib[o] # s
    /\ changes' = changes + 1
    /\ mib' = [mib EXCEPT ![o] = s]
    /\ steady' = steady \ {o}
    /\ UNCHANGED <<call, pc, pdu, response, target, rc, blamed>>

Send ==
    /\ pc = "send"
    /\ pc' = "agent"
    /\ UNCHANGED <<call, agent, pdu, response, target, rc, blamed>>

-----------------------------------------------------------------------------
(* The agent                                                                *)

Answer(e, i) ==
    /\ pc = "agent"
    /\ pc' = "response"
    /\ response' = [errstat |-> e, errindex |-> i,
                    variables |-> [k \in DOMAIN pdu |-> [name |-> pdu[k], type |-> mib[pdu[k]]]]]
    /\ blamed' = IF i = 0 THEN blamed ELSE blamed \cup {pdu[i]}
    /\ UNCHANGED <<call, agent, pdu, target, rc>>

Missing == {i \in DOMAIN pdu : mib[pdu[i]] = "absent"}

\* The values; objects that are missing are marked unless this is SNMP v1,
\* which names the first of them and sends no value.
Get == IF version = 1 /\ Missing # {}
       THEN Answer(NOSUCHNAME, Min(Missing))
       ELSE Answer(NOERROR, 0)

\* The agent fails to read one object.
GenErr == \E i \in DOMAIN pdu : Answer(GENERR, i)

\* The answer does not fit a message.
TooBig == Answer(TOOBIG, 0)

\* No answer to the request and all its repetitions.
Lost ==
    /\ pc = "agent"
    /\ pc' = "done"
    /\ rc' = STAT_ERROR
    /\ UNCHANGED <<call, agent, pdu, response, target, blamed>>

-----------------------------------------------------------------------------
(* The answer                                                               *)

\* Defect: the first object is dropped, not the one the agent names.
Retry_first ==
    /\ pc = "response"
    /\ response.errindex # 0
    /\ pdu' = Tail(pdu)
    /\ response' = NoResponse
    /\ IF pdu' = <<>> THEN pc' = "done" /\ rc' = STAT_ERROR
                      ELSE pc' = "send" /\ UNCHANGED rc
    /\ UNCHANGED <<call, agent, target, blamed>>

\* snmp_fix_pdu: the same request without the object the agent names.  If
\* none is left mp_snmp_query returns the success of its last request and
\* mp_snmp_values_fetch1 an error.
Retry ==
    /\ pc = "response"
    /\ response.errindex # 0
    /\ pdu' = RemoveAt(pdu, response.errindex)
    /\ response' = NoResponse
    /\ IF pdu' = <<>>
       THEN /\ pc' = "done"
            /\ rc' = IF func = "mp_snmp_query" THEN STAT_SUCCESS ELSE STAT_ERROR
       ELSE pc' = "send" /\ UNCHANGED rc
    /\ UNCHANGED <<call, agent, target, blamed>>

\* Defect: the values are not checked for their type.
copy_value_any(var) == var.type # "absent"

\* copy_value takes a value of the expected type that fits; a marked object
\* is not offered to it.
copy_value(var) == var.type = "right"

\* Every value is stored in the target of its object.
Store ==
    /\ pc = "response"
    /\ response.errindex = 0
    /\ response.errstat = NOERROR
    /\ target' = [o \in Objects |->
           IF \E k \in DOMAIN response.variables :
                 response.variables[k].name = o /\ copy_value(response.variables[k])
           THEN "value" ELSE target[o]]
    /\ pc' = "done"
    /\ UNCHANGED <<call, agent, pdu, response, rc, blamed>>

\* An error that names no object: mp_snmp_query returns the success of the
\* request, mp_snmp_values_fetch1 an error.
OtherError ==
    /\ pc = "response"
    /\ response.errindex = 0
    /\ response.errstat # NOERROR
    /\ rc' = IF func = "mp_snmp_query" THEN STAT_SUCCESS ELSE STAT_ERROR
    /\ pc' = "done"
    /\ UNCHANGED <<call, agent, pdu, response, target, blamed>>

Client == Send \/ Retry \/ Store \/ OtherError
Reply == Get \/ GenErr \/ TooBig \/ Lost
Terminated == pc = "done" /\ UNCHANGED vars

Next ==
    \/ \E o \in Objects, s \in {"absent", "right", "wrong"} : Change(o, s)
    \/ Client
    \/ Reply
    \/ Terminated

\* snmp_synch_response always returns, and the loop does not wait.
Spec == Init /\ [][Next]_vars /\ WF_vars(Client) /\ WF_vars(Reply)
-----------------------------------------------------------------------------
(* Properties                                                               *)

\* Success means that every object that was there with the right type all
\* the time, and that no error of the agent named, is in its target: another
\* object's absence never costs a value.  An answer that was too big is a
\* success without values of mp_snmp_query only.
SuccessHasValues ==
    /\ pc = "done"
    /\ rc = STAT_SUCCESS
    /\ func = "mp_snmp_values_fetch1" \/ response.errstat # TOOBIG
    => \A o \in steady \ blamed : target[o] = "value"

\* A target is written only by an object of the right type: an absent or
\* mistyped object leaves the plugin's default, and a failed query writes
\* nothing at all.
DefaultsAreKept ==
    \A o \in Objects :
        target[o] = "value" => /\ rc = STAT_SUCCESS
                               /\ \E k \in DOMAIN response.variables :
                                     response.variables[k] = [name |-> o, type |-> "right"]

-----------------------------------------------------------------------------
(* Why they hold: the parts of the inductive invariant                      *)

TypeOK ==
    /\ mib \in [Objects -> {"absent", "right", "wrong"}]
    /\ pc \in {"send", "agent", "response", "done"}
    /\ pdu \in Seq(Objects)
    /\ target \in [Objects -> {"default", "value"}]
    /\ steady \subseteq {o \in Objects : mib[o] = "right"}
    /\ pc # "done" => rc = STAT_SUCCESS /\ target = [o \in Objects |-> "default"]

\* Only an object that an error named is dropped from the request.
OnlyBlamedAreDropped == \A o \in Objects : o \in ToSet(pdu) \/ o \in blamed

\* An answer has every steady object, and its error names one of the request
\* unless the answer was too big.
AnswerHasSteady ==
    pc = "response" =>
        /\ \A o \in steady \ blamed :
              \E k \in DOMAIN response.variables : response.variables[k] = [name |-> o, type |-> "right"]
        /\ \A k \in DOMAIN response.variables :
              response.variables[k] = [name |-> response.variables[k].name, type |-> response.variables[k].type]
        /\ response.errindex # 0 => response.errindex \in DOMAIN pdu /\ pdu[response.errindex] \in blamed
        /\ response.errindex = 0 => response.errstat \in {NOERROR, TOOBIG}

IInv == TypeOK /\ OnlyBlamedAreDropped /\ AnswerHasSteady /\ SuccessHasValues /\ DefaultsAreKept
=============================================================================
