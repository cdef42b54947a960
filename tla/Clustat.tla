------------------------------- MODULE Clustat -------------------------------
(***************************************************************************)
(* rhcs/check_clustat.c with lib/rhcs_utils.c, run on one node of a cluster *)
(* after the other: every node judges for itself, from its own priority in  *)
(* the failover domain of every service, whether a service runs where it    *)
(* should.  The lists are those parse_rhcs_clustat and parse_rhcs_conf put  *)
(* together; clustat names groups "type:name".                              *)
(***************************************************************************)
EXTENDS Integers, Sequences, FiniteSets, FiniteSetsExt

CONSTANTS
    Nodes,          \* members of the cluster
    Groups,         \* groups of clustat
    Priorities      \* priorities in a failover domain

VARIABLES
    owner,          \* of every group: a node, or "NULL"
    conf,           \* cluster.conf: what it says of every group
    rgmanager,      \* nodes whose rgmanager runs
    local,          \* the node the plugin runs on
    todo,           \* groups the loop has still to look at
    foreign, missing,
    pc,             \* "parse", "groups", "report", "exited", "crashed"
    code,           \* exit code, -1 while running
    verdict         \* history: exit codes of the nodes

vars == <<owner, conf, rgmanager, local, todo, foreign, missing, pc, code, verdict>>
cluster == <<owner, conf, rgmanager>>

STATE_OK == 0
STATE_WARNING == 1
STATE_CRITICAL == 2
STATE_UNKNOWN == 3
INT_MAX == 1000
NONE == -1
CRASHED == -2

\* Members of a failover domain with their priorities; a service may have no
\* domain at all, and a group need not be a service of cluster.conf.
Domains == UNION {[S -> Priorities] : S \in SUBSET Nodes}

Init ==
    /\ owner \in [Groups -> Nodes \cup {"NULL"}]
    /\ conf \in [Groups -> [service : {TRUE}, bound : {TRUE}, autostart : BOOLEAN, node : Domains]
                           \cup [service : BOOLEAN, bound : {FALSE}, autostart : {TRUE}, node : {<<>>}]]
    /\ rgmanager \in {Nodes} \cup {Nodes \ {n} : n \in Nodes}
    /\ local \in Nodes
    /\ todo = Groups
    /\ foreign = {}
    /\ missing = {}
    /\ pc = "parse"
    /\ code = -1
    /\ verdict = [n \in Nodes |-> NONE]

Exit(s) == pc' = "exited" /\ code' = s

\* clustat and cluster.conf are read: clustat fails, rgmanager is down, the
\* file cannot be read; nobody looks for lists that are empty.
Parse ==
    /\ pc = "parse"
    /\ IF local \notin rgmanager THEN Exit(STATE_CRITICAL)
       ELSE \/ pc' = "groups" /\ UNCHANGED code
            \/ Exit(STATE_CRITICAL)
            \/ Exit(STATE_UNKNOWN)
            \/ (\A g \in Groups : ~conf[g].service) /\ pc' = "crashed" /\ UNCHANGED code
    /\ UNCHANGED <<cluster, local, todo, foreign, missing, verdict>>

node(g) == conf[g].node
prio(g, n) == IF n \in DOMAIN node(g) THEN node(g)[n] ELSE INT_MAX
bestprio(g) == Min({node(g)[n] : n \in DOMAIN node(g)} \cup {INT_MAX})

Foreign(g) == owner[g] = local /\ prio(g, local) > bestprio(g)

\* Defect: equal priorities are a reason to move.
Missing_equal(g) == owner[g] # local /\ prio(g, local) <= prio(g, owner[g])

Missing(g) == \/ owner[g] # local /\ prio(g, local) < prio(g, owner[g])
              \/ owner[g] = "NULL" /\ prio(g, local) = bestprio(g) /\ conf[g].autostart

\* A service that is bound to a domain with members.
Bound(g) == conf[g].service /\ conf[g].bound /\ DOMAIN node(g) # {}

\* One group of the loop; the domain of a service without one is read anyway.
Group ==
    /\ pc = "groups"
    /\ \E g \in todo :
        /\ todo' = todo \ {g}
        /\ IF conf[g].service /\ ~conf[g].bound
           THEN pc' = "crashed" /\ UNCHANGED <<foreign, missing>>
           ELSE /\ foreign' = IF Bound(g) /\ Foreign(g) THEN foreign \cup {g} ELSE foreign
                /\ missing' = IF Bound(g) /\ Missing(g) THEN missing \cup {g} ELSE missing
                /\ UNCHANGED pc
    /\ UNCHANGED <<cluster, local, code, verdict>>

Report ==
    /\ pc = "groups"
    /\ todo = {}
    /\ Exit(IF foreign = {} /\ missing = {} THEN STATE_OK ELSE STATE_WARNING)
    /\ UNCHANGED <<cluster, local, todo, foreign, missing, verdict>>

\* SIGALRM.
Alarm ==
    /\ pc \in {"parse", "groups"}
    /\ Exit(STATE_CRITICAL)
    /\ UNCHANGED <<cluster, local, todo, foreign, missing, verdict>>

\* The plugin runs on the next node.
NextNode ==
    /\ pc \in {"exited", "crashed"}
    /\ verdict' = [verdict EXCEPT ![local] = IF pc = "crashed" THEN CRASHED ELSE code]
    /\ \/ \E n \in Nodes :
            /\ verdict'[n] = NONE
            /\ local' = n
            /\ pc' = "parse"
       \/ /\ \A n \in Nodes : verdict'[n] # NONE
          /\ pc' = "done"
          /\ UNCHANGED local
    /\ todo' = Groups
    /\ foreign' = {}
    /\ missing' = {}
    /\ code' = -1
    /\ UNCHANGED cluster

Terminated == pc = "done" /\ UNCHANGED vars

Next == Parse \/ Group \/ Report \/ Alarm \/ NextNode \/ Terminated
Spec == Init /\ [][Next]_vars
-----------------------------------------------------------------------------
(* Properties                                                               *)

\* A service with a domain does not run, or not on one of its best nodes.
Misplaced(g) == Bound(g) /\ prio(g, owner[g]) # bestprio(g)
Judged == pc = "done" /\ \A n \in Nodes : verdict[n] \in {STATE_OK, STATE_WARNING}

\* The nodes, each of which sees only its own priority, together find exactly
\* the misplaced services: if one is, some node warns, and if none is all
\* nodes are OK.
NodesAgree ==
    Judged => ((\E g \in Groups : Misplaced(g)) <=> (\E n \in Nodes : verdict[n] = STATE_WARNING))

-----------------------------------------------------------------------------
(* Why they hold: the parts of the inductive invariant                      *)

\* What node n finds of a group when the loop has looked at it.
Warns(n, g) ==
    /\ Bound(g)
    /\ \/ owner[g] = n /\ prio(g, n) > bestprio(g)
       \/ owner[g] # n /\ prio(g, n) < prio(g, owner[g])
       \/ owner[g] = "NULL" /\ prio(g, n) = bestprio(g) /\ conf[g].autostart
NodeWarns(n) == \E g \in Groups : Warns(n, g)

TypeOK ==
    /\ owner \in [Groups -> Nodes \cup {"NULL"}]
    /\ conf \in [Groups -> [service : BOOLEAN, bound : BOOLEAN, autostart : BOOLEAN, node : Domains \cup {<<>>}]]
    /\ local \in Nodes
    /\ todo \subseteq Groups
    /\ pc \in {"parse", "groups", "exited", "crashed", "done"}

\* The loop has found what there is to be found of the groups behind it.
LoopIsRight ==
    pc \in {"parse", "groups"} =>
        /\ code = -1
        /\ pc = "parse" => todo = Groups
        /\ \A g \in foreign \cup missing : g \in Groups \ todo /\ Warns(local, g)
        /\ \A g \in Groups \ todo : Warns(local, g) => g \in foreign \cup missing

\* What a node that was not disturbed ends with.
ExitIsRight ==
    pc = "exited" /\ code \in {STATE_OK, STATE_WARNING} => (code = STATE_WARNING <=> NodeWarns(local))
VerdictsAreRight ==
    \A n \in Nodes : verdict[n] \in {STATE_OK, STATE_WARNING} => (verdict[n] = STATE_WARNING <=> NodeWarns(n))

IInv == TypeOK /\ DOMAIN verdict = Nodes /\ LoopIsRight /\ ExitIsRight /\ VerdictsAreRight

=============================================================================
