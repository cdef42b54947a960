------------------------------ MODULE SnmpWalk ------------------------------
(***************************************************************************)
(* Fetching a table: mp_snmp_subtree_query in lib/snmp_utils.c.  The walk   *)
(* asks the agent for what follows the last object it saw until an answer   *)
(* leaves the subtree.  The agent lives on while it is walked: objects come *)
(* and go between two requests.  Requests and answers may be lost, and a    *)
(* broken agent answers anything.                                           *)
(***************************************************************************)
EXTENDS Integers, Sequences, SequencesExt

CONSTANTS
    OIDs,               \* the objects an agent can have
    Subtree,            \* subtree_oid, the root of the table
    MaxRepetitions,     \* request->max_repetitions (16)
    Versions,           \* SNMP versions of the session
    Agents,             \* "conforming", "broken"
    Verbosity,          \* values of mp_verbose
    MaxEvents           \* bound: changes of the agent's objects and answers a
                        \* broken agent makes up, in a walk

ASSUME WalkAssumption ==
    /\ OIDs \subseteq Seq(Nat)
    /\ Subtree \in Seq(Nat)
    /\ MaxRepetitions \in Nat \ {0}
    /\ Versions \subseteq {1, 2, 3}
    /\ Agents \subseteq {"conforming", "broken"}
    /\ Verbosity \subseteq Nat
    /\ MaxEvents \in Nat

VARIABLES
    version,            \* ss->version
    agent,              \* the kind of agent
    mp_verbose,
    mib,                \* the objects the agent has now
    changes,
    madeup,
    pc,                 \* "request", "agent", "response", "done", "exit", "crashed"
    last_oid,
    response,           \* the answer, NoResponse for NULL
    nextvar,            \* var: index of the variable looked at next
    subtree,            \* subtree->vars
    rc,
    always,             \* history: objects present since the walk began
    ever                \* history: objects present at some time of the walk

session == <<version, agent, mp_verbose>>
objects == <<mib, changes, always, ever>>
vars == <<session, objects, madeup, pc, last_oid, response, nextvar, subtree, rc>>

STAT_SUCCESS == 0
STAT_ERROR == 1
NOERROR == 0
NOSUCHNAME == 2
GENERR == 5

NoResponse == [errstat |-> -1, variables |-> <<>>]
Answer(vs) == [errstat |-> NOERROR, variables |-> vs]
Failure(e) == [errstat |-> e, variables |-> <<>>]
Value(o) == [name |-> o, type |-> "value"]
EndOfMibView(o) == [name |-> o, type |-> "endOfMibView"]

-----------------------------------------------------------------------------
(* Object identifiers                                                       *)

Less(a, b) == \/ IsStrictPrefix(a, b)
              \/ \E i \in 1 .. Len(a) : /\ i <= Len(b)
                                        /\ a[i] < b[i]
                                        /\ \A j \in 1 .. i - 1 : a[j] = b[j]

\* snmp_oidtree_compare: two names of which one begins with the other are
\* equal.
snmp_oidtree_compare(a, b) ==
    IF IsPrefix(a, b) \/ IsPrefix(b, a) THEN 0 ELSE IF Less(a, b) THEN -1 ELSE 1

Successors(o) == {s \in mib : Less(o, s)}

\* after lists the first ones of them in their order.
Firsts(o, after) ==
    /\ \A i, j \in DOMAIN after : i < j => Less(after[i], after[j])
    /\ \A s \in Successors(o) : s \in Range(after) \/ \A i \in DOMAIN after : Less(after[i], s)

-----------------------------------------------------------------------------
Init ==
    /\ version \in Versions
    /\ agent \in Agents
    /\ mp_verbose \in Verbosity
    /\ mib \in SUBSET OIDs
    /\ changes = 0
    /\ madeup = 0
    /\ pc = "request"
    /\ last_oid = Subtree
    /\ response = NoResponse
    /\ nextvar = 1
    /\ subtree = <<>>
    /\ rc = STAT_SUCCESS
    /\ always = mib
    /\ ever = mib

\* The agent's objects change by themselves.
Change(o) ==
    /\ pc \in {"request", "agent"}
    /\ changes + madeup < MaxEvents
    /\ changes' = changes + 1
    /\ mib' = IF o \in mib THEN mib \ {o} ELSE mib \cup {o}
    /\ always' = always \cap mib'
    /\ ever' = ever \cup mib'
    /\ UNCHANGED <<session, madeup, pc, last_oid, response, nextvar, subtree, rc>>

\* Top of the loop: the request for what follows last_oid is sent.
Request ==
    /\ pc = "request"
    /\ pc' = "agent"
    /\ response' = NoResponse
    /\ nextvar' = 1
    /\ UNCHANGED <<session, objects, madeup, last_oid, subtree, rc>>

Receive(r) ==
    /\ pc = "agent"
    /\ pc' = "response"
    /\ response' = r
    /\ UNCHANGED <<session, objects, last_oid, nextvar, subtree, rc>>

\* GETNEXT of SNMP v1: the next object, or an error after the last one.
GetNext ==
    /\ version = 1
    /\ \/ Successors(last_oid) = {} /\ Receive(Failure(NOSUCHNAME))
       \/ \E s \in Successors(last_oid) : Firsts(last_oid, <<s>>) /\ Receive(Answer(<<Value(s)>>))
    /\ UNCHANGED madeup

\* GETBULK: up to MaxRepetitions objects, fewer if they do not fit, and
\* endOfMibView after the last one.
GetBulk ==
    /\ version # 1
    /\ \E n \in 1 .. MaxRepetitions : \E m \in 0 .. n :
          \E after \in [1 .. m -> Successors(last_oid)] :
              /\ Firsts(last_oid, after)
              /\ m < n => Successors(last_oid) \subseteq Range(after)
              /\ LET end == IF m = 0 THEN last_oid ELSE after[m]
                 IN  Receive(Answer([i \in 1 .. n |->
                         IF i <= m THEN Value(after[i]) ELSE EndOfMibView(end)]))
    /\ UNCHANGED madeup

\* The agent cannot answer.
AgentError ==
    /\ Receive(Failure(GENERR))
    /\ UNCHANGED madeup

\* A broken agent answers with any object.
MadeUp(o) ==
    /\ agent = "broken"
    /\ changes + madeup < MaxEvents
    /\ madeup' = madeup + 1
    /\ Receive(Answer(<<Value(o)>>))

\* The request or every answer to it and to its repetitions is lost.  With
\* -vvvv the trace reads response->errstat of the NULL pointer.
Lost ==
    /\ pc = "agent"
    /\ IF mp_verbose > 3
       THEN pc' = "crashed" /\ UNCHANGED rc
       ELSE pc' = "done" /\ rc' = STAT_ERROR
    /\ UNCHANGED <<session, objects, madeup, last_oid, response, nextvar, subtree>>

-----------------------------------------------------------------------------
(* The answer                                                               *)

Current == response.variables[nextvar]

\* Defect: no check that the names increase.
Backwards_never == FALSE

Backwards == snmp_oidtree_compare(Current.name, last_oid) < 0
Outside == \/ Current.type = "endOfMibView"
           \/ snmp_oidtree_compare(Subtree, Current.name) # 0

\* A name in front of the last one: critical().
NotIncreasing ==
    /\ pc = "response"
    /\ nextvar <= Len(response.variables)
    /\ Backwards
    /\ pc' = "exit"
    /\ UNCHANGED <<session, objects, madeup, last_oid, response, nextvar, subtree, rc>>

\* The first name outside the subtree ends the walk.
Leave ==
    /\ pc = "response"
    /\ nextvar <= Len(response.variables)
    /\ ~ Backwards
    /\ Outside
    /\ pc' = "done"
    /\ rc' = STAT_SUCCESS
    /\ UNCHANGED <<session, objects, madeup, last_oid, response, nextvar, subtree>>

\* Defect: the place of the last fetched object is not kept.
Collect_nolast ==
    /\ pc = "response"
    /\ nextvar <= Len(response.variables)
    /\ ~ Backwards
    /\ ~ Outside
    /\ subtree' = Append(subtree, Current)
    /\ nextvar' = nextvar + 1
    /\ UNCHANGED <<session, objects, madeup, pc, last_oid, response, rc>>

\* An object of the table is kept, whatever its type, and the walk goes on
\* behind it.
Collect ==
    /\ pc = "response"
    /\ nextvar <= Len(response.variables)
    /\ ~ Backwards
    /\ ~ Outside
    /\ subtree' = Append(subtree, Current)
    /\ last_oid' = Current.name
    /\ nextvar' = nextvar + 1
    /\ UNCHANGED <<session, objects, madeup, pc, response, rc>>

\* Every variable is looked at: the next request.
NextRequest ==
    /\ pc = "response"
    /\ response.errstat = NOERROR
    /\ nextvar > Len(response.variables)
    /\ pc' = "request"
    /\ UNCHANGED <<session, objects, madeup, last_oid, response, nextvar, subtree, rc>>

\* SNMP v1 has no object behind last_oid: noted, and the loop goes on.
EndOfTree ==
    /\ pc = "response"
    /\ version = 1
    /\ response.errstat = NOSUCHNAME
    /\ pc' = "request"
    /\ UNCHANGED <<session, objects, madeup, last_oid, response, nextvar, subtree, rc>>

OtherFailure == /\ pc = "response"
                /\ response.errstat # NOERROR
                /\ ~ (version = 1 /\ response.errstat = NOSUCHNAME)

\* Defect: an error of the agent ends the table.
OtherError_success ==
    /\ OtherFailure
    /\ pc' = "done"
    /\ UNCHANGED <<session, objects, madeup, last_oid, response, nextvar, subtree, rc>>

\* Defect: an error of the agent does not end the loop.
OtherError_again ==
    /\ OtherFailure
    /\ pc' = "request"
    /\ UNCHANGED <<session, objects, madeup, last_oid, response, nextvar, subtree, rc>>

\* Any other error ends the walk.
OtherError ==
    /\ OtherFailure
    /\ pc' = "done"
    /\ rc' = STAT_ERROR
    /\ UNCHANGED <<session, objects, madeup, last_oid, response, nextvar, subtree>>

Terminated == pc \in {"done", "exit", "crashed"} /\ UNCHANGED vars

Walk == Request \/ NotIncreasing \/ Leave \/ Collect \/ NextRequest \/ EndOfTree \/ OtherError
Reply == GetNext \/ GetBulk \/ AgentError \/ (\E o \in OIDs : MadeUp(o)) \/ Lost

Next ==
    \/ \E o \in OIDs : Change(o)
    \/ Walk
    \/ Reply
    \/ Terminated

\* The plugin never stops between two requests, and snmp_synch_response
\* returns with an answer or after its last repetition.
Fairness == WF_vars(Walk) /\ WF_vars(Reply)

Spec == Init /\ [][Next]_vars /\ Fairness
-----------------------------------------------------------------------------
(* Properties                                                               *)

Variable == [name : Seq(Nat), type : {"value", "endOfMibView"}]

TypeOK ==
    /\ version \in Versions
    /\ agent \in Agents
    /\ mp_verbose \in Verbosity
    /\ mib \subseteq OIDs
    /\ changes \in 0 .. MaxEvents
    /\ madeup \in 0 .. MaxEvents
    /\ pc \in {"request", "agent", "response", "done", "exit", "crashed"}
    /\ last_oid \in Seq(Nat)
    /\ response \in [errstat : {-1, NOERROR, NOSUCHNAME, GENERR}, variables : Seq(Variable)]
    /\ nextvar \in Nat \ {0}
    /\ subtree \in Seq(Variable)
    /\ rc \in {STAT_SUCCESS, STAT_ERROR}
    /\ always \subseteq mib
    /\ mib \subseteq ever
    /\ ever \subseteq OIDs

Names == {subtree[i].name : i \in DOMAIN subtree}
Table == {o \in OIDs : IsStrictPrefix(Subtree, o)}
Finished == pc = "done" /\ rc = STAT_SUCCESS

\* A walk that reports success has the whole table: every object that was
\* there all the time, and none that never was.
TableIsComplete ==
    Finished /\ agent = "conforming" =>
        /\ always \cap Table \subseteq Names
        /\ Names \subseteq ever \cap Table

\* Rows come in the order of their names and none comes twice, however the
\* agent's objects change meanwhile.
RowsAreSorted ==
    agent = "conforming" =>
        \A i, j \in DOMAIN subtree : i < j => Less(subtree[i].name, subtree[j].name)

\* Even with a broken agent no row is outside the table, and a row precedes an
\* earlier one only if the agent has named, in between, an object above the
\* earlier row, which snmp_oidtree_compare takes for equal to all below it.
NeverBackwards ==
    /\ \A i \in DOMAIN subtree : snmp_oidtree_compare(Subtree, subtree[i].name) = 0
    /\ \A i, j \in DOMAIN subtree : i < j =>
          \/ snmp_oidtree_compare(subtree[i].name, subtree[j].name) <= 0
          \/ \E k \in i + 1 .. j - 1 : IsStrictPrefix(subtree[k].name, subtree[i].name)

\* A walk with v2c or v3 ends, whatever comes and goes meanwhile, is lost or
\* fails, and also after answers that a broken agent made up, the same name
\* again among them.  It need not end with an agent that never stops to repeat
\* itself, for a name equal to the last one is accepted in spite of the comment
\* "to prevent infinite loop with broken SNMP agents", nor with v1, where the end
\* of the agent's objects does not end the loop.
WalkEnds == version # 1 => <>(pc \in {"done", "exit", "crashed"})

-----------------------------------------------------------------------------
(* Why they hold: the parts of the inductive invariant                      *)

\* The walk goes on behind the last row.
LastIsLast == last_oid = IF subtree = <<>> THEN Subtree ELSE subtree[Len(subtree)].name

\* What a conforming agent said and the walk has not looked at yet: the objects
\* behind last_oid in their order, no steady one left out.
Ahead == nextvar .. Len(response.variables)
AnswerIsNext ==
    pc = "response" =>
        LET vs == response.variables
        IN  /\ \A i \in Ahead : vs[i].type = "value" => vs[i].name \in ever /\ Less(last_oid, vs[i].name)
            /\ \A i, j \in Ahead : i < j /\ vs[j].type = "value" =>
                    vs[i].type = "value" /\ Less(vs[i].name, vs[j].name)
            /\ \A o \in always : Less(last_oid, o) =>
                    \/ \E i \in Ahead : vs[i] = Value(o)
                    \/ \A i \in Ahead : vs[i].type = "value" /\ Less(vs[i].name, o)

\* Every steady object of the table is fetched or still ahead.
NothingSkipped == \A o \in always \cap Table : o \in Names \/ Less(last_oid, o)

\* The rows are objects of the table, and the walk stands in the table.
RowsAreObjects == IsPrefix(Subtree, last_oid) /\ Names \subseteq ever \cap Table

Conforms ==
    agent = "conforming" =>
        AnswerIsNext /\ NothingSkipped /\ RowsAreObjects /\ RowsAreSorted

\* Only the end of the loop sets rc, and an answer is read from its beginning.
Underway == /\ pc \notin {"done", "exit", "crashed"} => rc = STAT_SUCCESS
            /\ pc = "agent" => nextvar = 1

IInv == /\ TypeOK
        /\ LastIsLast
        /\ NeverBackwards
        /\ Conforms
        /\ TableIsComplete
        /\ Underway

-----------------------------------------------------------------------------
(* The instance that MCSnmpWalk.cfg checks: up to two rows and an object    *)
(* above them, one in front of the table and one behind it.                 *)

const_OIDs == {<<1, 1>>, <<2, 1>>, <<2, 1, 1>>, <<2, 1, 2>>, <<3>>}
const_Subtree == <<2>>
=============================================================================
