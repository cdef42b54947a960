-------------------------------- MODULE Oping --------------------------------
(***************************************************************************)
(* oping/check_oping.c: up to `packets` echo requests; with --quick the     *)
(* loop is left as soon as what was seen so far is fine.  liboping reports  *)
(* a lost packet with a latency of -1 and counts it as dropped.             *)
(***************************************************************************)
EXTENDS Integers, Sequences

CONSTANTS
    Packets,        \* what -p may ask for
    Latencies,      \* round trip times in ms
    RtaWarning, RtaCritical,    \* ends of the ranges "~:N"
    LostWarning, LostCritical   \* ends of the ranges "N", in percent

VARIABLES
    asked,          \* the packets asked for
    packets,        \* those that are left
    quick,
    num, dropped, rta,  \* what liboping counts, and the sum of the latencies
    pc,             \* "setup", "send", "report", "exited"
    code            \* exit code, -1 while running

vars == <<asked, packets, quick, num, dropped, rta, pc, code>>
counts == <<num, dropped, rta>>

STATE_OK == 0
STATE_WARNING == 1
STATE_CRITICAL == 2
STATE_UNKNOWN == 3
LOST == -1

Init ==
    /\ asked \in Packets
    /\ packets = asked
    /\ quick \in BOOLEAN
    /\ num = 0
    /\ dropped = 0
    /\ rta = 0
    /\ pc = "setup"
    /\ code = -1

Exit(s) == pc' = "exited" /\ code' = s

\* ping_construct, its options and ping_host_add.
Setup ==
    /\ pc = "setup"
    /\ \/ pc' = "send" /\ UNCHANGED code
       \/ Exit(STATE_UNKNOWN)
    /\ UNCHANGED <<asked, packets, quick, counts>>

\* get_status of the mean and of the percentage, which is an integer.
rta_status == IF rta' > RtaCritical * num' THEN STATE_CRITICAL
              ELSE IF rta' > RtaWarning * num' THEN STATE_WARNING ELSE STATE_OK
Lost == (dropped' * 100) \div num'
lost_status == IF Lost > LostCritical THEN STATE_CRITICAL
               ELSE IF Lost > LostWarning THEN STATE_WARNING ELSE STATE_OK

\* Defect: only the loss is looked at.
Fine_lost == lost_status = STATE_OK

Fine == rta_status = STATE_OK /\ lost_status = STATE_OK

\* One turn of the loop: ping_send, what liboping says of it, and the end of
\* a quick check.
Ping ==
    /\ pc = "send"
    /\ packets > 0
    /\ \/ /\ \E rt \in Latencies \cup {LOST} :
                /\ num' = num + 1
                /\ dropped' = IF rt = LOST THEN dropped + 1 ELSE dropped
                /\ rta' = rta + rt
          /\ IF quick /\ Fine THEN pc' = "report" /\ UNCHANGED packets
             ELSE packets' = packets - 1 /\ UNCHANGED pc
          /\ UNCHANGED code
       \/ Exit(STATE_CRITICAL) /\ UNCHANGED <<packets, counts>>
       \/ Exit(STATE_UNKNOWN) /\ UNCHANGED <<packets, counts>>
    /\ UNCHANGED <<asked, quick>>

Done ==
    /\ pc = "send"
    /\ packets <= 0
    /\ pc' = "report"
    /\ UNCHANGED <<asked, packets, quick, counts, code>>

\* Nothing was sent, or the worse of the two results.
Report ==
    /\ pc = "report"
    /\ UNCHANGED <<asked, packets, quick, counts>>
    /\ Exit(IF num = 0 THEN STATE_CRITICAL
            ELSE IF rta_status > lost_status THEN rta_status ELSE lost_status)

\* SIGALRM.
Alarm ==
    /\ pc \in {"setup", "send", "report"}
    /\ Exit(STATE_CRITICAL)
    /\ UNCHANGED <<asked, packets, quick, counts>>

Terminated == pc = "exited" /\ UNCHANGED vars

Next == Setup \/ Ping \/ Done \/ Report \/ Alarm \/ Terminated
Spec == Init /\ [][Next]_vars
-----------------------------------------------------------------------------
(* Properties                                                               *)

\* A quick check gives up early only to be OK: it is a warning, or OK without
\* --quick, only after all packets; and a host that never answers is not OK.
QuickIsSound ==
    pc = "exited" =>
        /\ code = STATE_WARNING \/ (code = STATE_OK /\ ~quick) => num = asked
        /\ code = STATE_OK => dropped < num

-----------------------------------------------------------------------------
(* Why they hold: the parts of the inductive invariant                      *)

TypeOK ==
    /\ asked \in Int /\ packets \in Int
    /\ quick \in BOOLEAN
    /\ num \in Nat /\ dropped \in 0 .. num /\ rta \in Int
    /\ pc \in {"setup", "send", "report", "exited"}

\* All packets were sent, or what a quick check saw was fine.
SoFarFine == /\ num > 0
             /\ rta <= RtaCritical * num /\ rta <= RtaWarning * num
             /\ (dropped * 100) \div num <= LostCritical /\ (dropped * 100) \div num <= LostWarning
PacketsAreCounted ==
    /\ packets < 0 => num = 0
    /\ pc \in {"setup", "send"} => packets + num = asked /\ code = -1
    /\ pc = "report" => /\ code = -1
                        /\ (packets <= 0 /\ packets + num = asked) \/ (quick /\ SoFarFine)

IInv == TypeOK /\ PacketsAreCounted /\ QuickIsSound

=============================================================================
