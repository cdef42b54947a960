----------------------------- MODULE RpcPlugins -----------------------------
(***************************************************************************)
(* rpc/check_nfs.c and rpc/check_rpc_ping.c with lib/rpc_utils.c: every     *)
(* version is tried over every transport, check_nfs asking mountd for its   *)
(* exports first, always as version 3.  The one global client is created    *)
(* and destroyed for every call, and the handler of SIGALRM destroys it too.*)
(***************************************************************************)
EXTENDS Integers, Sequences, SequencesExt, FiniteSets

CONSTANTS
    Plugins,        \* "check_nfs", "check_rpc_ping"
    Versions,       \* what -r may ask for: sequences of versions
    Transports      \* what -T may ask for: sequences of transports

VARIABLES
    plugin,
    rpcversion, rpctransport,
    i, j,           \* of the two loops
    step,           \* "export" or "ping"
    pc,             \* "start", "create", "call", "exited", "crashed"
    client,         \* "NULL", "live", or "freed": it is not reset
    failed,         \* pairs in noconnection, callfailed, noexport, nfs_crit or ping_failed
    warn,           \* pairs in nfs_warn or ping_warn
    world,          \* history: what was called, in which step, with what result
    code            \* exit code, -1 while running

vars == <<plugin, rpcversion, rpctransport, i, j, step, pc, client, failed, warn, world, code>>
given == <<plugin, rpcversion, rpctransport>>
judged == <<failed, warn, world>>

STATE_OK == 0
STATE_WARNING == 1
STATE_CRITICAL == 2
STATE_UNKNOWN == 3

First == IF plugin = "check_nfs" THEN "export" ELSE "ping"
Pair == <<rpcversion[i], rpctransport[j]>>

\* What step s of the a-th version and the b-th transport calls: check_export
\* names the version in its messages and asks for version 3.
Called(a, b, s) == <<IF s = "export" THEN "3" ELSE rpcversion[a], rpctransport[b]>>

Init ==
    /\ plugin \in Plugins
    /\ rpcversion \in Versions
    /\ rpctransport \in Transports
    /\ i = 1
    /\ j = 1
    /\ step = First
    /\ pc = "start"
    /\ client = "NULL"
    /\ failed = {}
    /\ warn = {}
    /\ world = {}
    /\ code = -1

Exit(s) == pc' = "exited" /\ code' = s

\* rpc_getrpcent: check_nfs uses what it returns without a look.
rpc_getrpcent ==
    /\ pc = "start"
    /\ \/ pc' = "create" /\ UNCHANGED code
       \/ plugin = "check_rpc_ping" /\ Exit(STATE_UNKNOWN)
       \/ plugin = "check_nfs" /\ pc' = "crashed" /\ UNCHANGED code
    /\ UNCHANGED <<given, i, j, step, client, judged>>

\* Behind the loops.
Report == Exit(IF failed' # {} THEN STATE_CRITICAL
               ELSE IF warn' # {} THEN STATE_WARNING ELSE STATE_OK)

\* Defect: the inner loop is not started again.
Advance_inner ==
    IF step = "export" THEN step' = "ping" /\ pc' = "create" /\ UNCHANGED <<i, j, code>>
    ELSE /\ step' = First
         /\ i' = i + 1
         /\ j' = j
         /\ IF i = Len(rpcversion) THEN Report ELSE pc' = "create" /\ UNCHANGED code

\* The ping follows the export; transports are the inner loop.
Advance ==
    IF step = "export" THEN step' = "ping" /\ pc' = "create" /\ UNCHANGED <<i, j, code>>
    ELSE /\ step' = First
         /\ j' = IF j < Len(rpctransport) THEN j + 1 ELSE 1
         /\ i' = IF j < Len(rpctransport) THEN i ELSE i + 1
         /\ IF j = Len(rpctransport) /\ i = Len(rpcversion) THEN Report
            ELSE pc' = "create" /\ UNCHANGED code

Note(result) == world' = world \cup {<<Called(i, j, step), step, result>>}

clnt_create ==
    /\ pc = "create"
    /\ \/ client' = "live" /\ pc' = "call" /\ UNCHANGED <<i, j, step, judged, code>>
       \/ /\ client' = "NULL"
          /\ failed' = failed \cup {Pair}
          /\ Note("failed")
          /\ Advance
          /\ UNCHANGED warn
    /\ UNCHANGED given

\* clnt_call of the exports or of the null procedure, and clnt_destroy.  An
\* export has no time; a missing one is like a failed call.
clnt_call ==
    /\ pc = "call"
    /\ client' = "freed"
    /\ \E result \in {"fast", "failed"} \cup IF step = "ping" THEN {"slow", "real slow"} ELSE {} :
        /\ Note(result)
        /\ failed' = IF result \in {"failed", "real slow"} THEN failed \cup {Pair} ELSE failed
        /\ warn' = IF result = "slow" THEN warn \cup {Pair} ELSE warn
    /\ Advance
    /\ UNCHANGED given

\* rpc_timeout_alarm_handler: a client that is destroyed already is destroyed
\* again, which may or may not go well.
Alarm ==
    /\ pc \in {"start", "create", "call"}
    /\ \/ Exit(STATE_CRITICAL)
       \/ client = "freed" /\ pc' = "crashed" /\ UNCHANGED code
    /\ client' = IF client = "NULL" THEN "NULL" ELSE "freed"
    /\ UNCHANGED <<given, i, j, step, judged>>

Terminated == pc \in {"exited", "crashed"} /\ UNCHANGED vars

Next == rpc_getrpcent \/ clnt_create \/ clnt_call \/ Alarm \/ Terminated
Spec == Init /\ [][Next]_vars
-----------------------------------------------------------------------------
(* Properties                                                               *)

Steps == IF plugin = "check_nfs" THEN {"export", "ping"} ELSE {"ping"}
Results == {"fast", "slow", "real slow", "failed"}

\* Every version is called over every transport before the check is OK or a
\* warning, and one result that is bad is not made up for by another.  Of mountd
\* check_nfs knows version 3 only: its exports are fetched over every transport,
\* but not with the versions of --rpcversion, whatever the messages name.
EveryPairCounts ==
    code \in {STATE_OK, STATE_WARNING} =>
        \A v \in ToSet(rpcversion), t \in ToSet(rpctransport), s \in Steps :
            LET call == <<IF s = "export" THEN "3" ELSE v, t>>
                results == {r \in Results : <<call, s, r>> \in world}
            IN  results # {} /\ results \subseteq IF code = STATE_OK THEN {"fast"} ELSE {"fast", "slow"}

-----------------------------------------------------------------------------
(* Why they hold: the parts of the inductive invariant                      *)

TypeOK ==
    /\ plugin \in {"check_nfs", "check_rpc_ping"}
    /\ rpcversion \in Seq(STRING) \ {<<>>}
    /\ rpctransport \in Seq(STRING) \ {<<>>}
    /\ i \in 1 .. Len(rpcversion) + 1
    /\ j \in 1 .. Len(rpctransport)
    /\ step \in Steps
    /\ pc \in {"start", "create", "call", "exited", "crashed"}

\* The loops are past step s of the a-th version over the b-th transport.
Past(a, b, s) == \/ a < i
                 \/ a = i /\ b < j
                 \/ a = i /\ b = j /\ s = "export" /\ step = "ping"

PastIsNoted ==
    \A a \in DOMAIN rpcversion, b \in DOMAIN rpctransport, s \in Steps :
        Past(a, b, s) => \E r \in Results : <<Called(a, b, s), s, r>> \in world

\* Whatever went wrong has left something in the lists.
NotedIsJudged ==
    \A e \in world : /\ e[3] \in {"failed", "real slow"} => failed # {}
                     /\ e[3] = "slow" => warn # {}

ExitIsRight ==
    /\ pc \in {"start", "create", "call"} => i <= Len(rpcversion) /\ code = -1
    /\ code \in {STATE_OK, STATE_WARNING} => i > Len(rpcversion) /\ failed = {}
    /\ code = STATE_OK => warn = {}

IInv == TypeOK /\ PastIsNoted /\ NotedIsJudged /\ ExitIsRight

=============================================================================
