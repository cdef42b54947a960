------------------------------ MODULE CheckDhcp ------------------------------
(***************************************************************************)
(* base/check_dhcp.c and lib/dhcp_utils.c: one request, then every packet   *)
(* on the port is looked at until an answer fits.  alarm(T) runs from the   *)
(* start, select waits T for every packet, so the alarm is always first;    *)
(* without a timeout (-t 0) there is no alarm and select only polls.        *)
(***************************************************************************)
EXTENDS Integers, FiniteSets

CONSTANTS
    Timeouts,       \* what -t may ask for
    MaxPackets      \* bound: packets that arrive

VARIABLES
    options,        \* hostname, unicast, request, type, mp_timeout; and whether
                    \* the host has an address (hostent)
    now,            \* time since alarm(mp_timeout)
    since,          \* when mp_dhcp_recv was called
    pc,             \* "start", "setup", "send", "recv", "exited"
    arrived,        \* packets seen so far
    accepted,       \* the packet the verdict is about, or NONE
    failed,         \* whether recvmsg failed
    code            \* exit code, -1 while running

vars == <<options, now, since, pc, arrived, accepted, failed, code>>

STATE_OK == 0
STATE_WARNING == 1
STATE_CRITICAL == 2
STATE_UNKNOWN == 3
NONE == [type |-> "none"]
T == options.mp_timeout

Types == {"offer", "ack", "nak"}

\* A packet on the port: whether it is a BOOTREPLY, whose transaction it
\* belongs to, whether cookie and options are in order, the server
\* identification (a name in sname, if the option is missing) and the type.
Packets == [op : {"request", "reply"}, xid : {"ours", "other"}, sound : BOOLEAN,
            server : {"named", "other", "sname named", "sname other"},
            type : Types \cup {"missing", "discover"}]

\* process_arguments: unicast needs a host; the type follows the request.
Init ==
    /\ \E h, u, r \in BOOLEAN, t \in Types \cup {"default"}, timeout \in Timeouts :
        /\ u => h
        /\ options = [hostname |-> h, hostent |-> FALSE, unicast |-> u, request |-> r,
                      type |-> IF t # "default" THEN t ELSE IF r THEN "ack" ELSE "offer",
                      mp_timeout |-> timeout]
    /\ now = 0
    /\ since = 0
    /\ pc = "start"
    /\ arrived = 0
    /\ accepted = NONE
    /\ failed = FALSE
    /\ code = -1

Exit(s) == pc' = "exited" /\ code' = s

\* gethostbyname, before the alarm is set.
Resolve ==
    /\ pc = "start"
    /\ \/ pc' = "setup" /\ UNCHANGED code
       \/ options.hostname /\ Exit(STATE_UNKNOWN)
    /\ UNCHANGED <<options, now, since, arrived, accepted, failed>>

\* dhcp_setup: a second lookup for unicast, the socket and its options.
dhcp_setup ==
    /\ pc = "setup"
    /\ \/ pc' = "send" /\ UNCHANGED code
       \/ options.unicast /\ Exit(STATE_WARNING)
       \/ Exit(STATE_CRITICAL)
    /\ UNCHANGED <<options, now, since, arrived, accepted, failed>>

\* The host is looked up once more behind the send, and nobody looks at the
\* result before the answers are compared with it.
mp_dhcp_send ==
    /\ pc = "send"
    /\ \/ /\ pc' = "recv"
          /\ since' = now
          /\ \E found \in BOOLEAN :
                options' = [options EXCEPT !.hostent = options.hostname /\ found]
          /\ UNCHANGED code
       \/ Exit(STATE_WARNING) /\ UNCHANGED <<since, options>>
    /\ UNCHANGED <<now, arrived, accepted, failed>>

\* mp_dhcp_recv passes over what is no sound answer to this request; the
\* time that is left goes on running.
Dropped(p) == p.op # "reply" \/ p.xid # "ours" \/ ~p.sound

FromHost(p) == p.server \in {"named", "sname named"}

\* With a host every type it may answer with ends the check; a host that is
\* not found any more is ignored.
Fits(p) ==
    IF options.hostent THEN FromHost(p) /\ p.type \in Types
    ELSE p.type = options.type

\* A packet: dropped; or looked at, and mp_dhcp_recv is called again; or the
\* end of the check.
Receive ==
    /\ pc = "recv"
    /\ arrived < MaxPackets
    /\ arrived' = arrived + 1
    /\ \E p \in Packets :
        IF Dropped(p) THEN UNCHANGED <<pc, since, accepted, code>>
        ELSE IF ~Fits(p) THEN since' = now /\ UNCHANGED <<pc, accepted, code>>
        ELSE accepted' = p /\ Exit(STATE_OK) /\ UNCHANGED since
    /\ UNCHANGED <<options, now, failed>>

\* Behind the loop: silence is fine if no host is named.
Silence == Exit(IF options.hostname THEN STATE_CRITICAL ELSE STATE_OK)

\* recvmsg fails: mp_dhcp_recv returns NULL.
ReceiveFails ==
    /\ pc = "recv"
    /\ failed' = TRUE
    /\ Silence
    /\ UNCHANGED <<options, now, since, arrived, accepted>>

\* select returns 0: at once without a timeout, otherwise later than T after
\* its call, which came after the call of alarm.
SelectTimeout ==
    /\ pc = "recv"
    /\ T = 0 \/ now > since + T
    /\ Silence
    /\ UNCHANGED <<options, now, since, arrived, accepted, failed>>

\* Defect: the alarm is set to twice the time.
Deadline_twice == 2 * T

\* When SIGALRM comes: alarm(mp_timeout).
Deadline == T

Alarm ==
    /\ pc \in {"setup", "send", "recv"}
    /\ T # 0 /\ now = Deadline
    /\ Exit(STATE_CRITICAL)
    /\ UNCHANGED <<options, now, since, arrived, accepted, failed>>

\* Time passes, but not past a signal that is due.
Tick ==
    /\ pc \in {"setup", "send", "recv"}
    /\ T # 0 /\ now < Deadline
    /\ now' = now + 1
    /\ UNCHANGED <<options, since, pc, arrived, accepted, failed, code>>

Terminated == pc = "exited" /\ UNCHANGED vars

Next == Resolve \/ dhcp_setup \/ mp_dhcp_send \/ Receive \/ ReceiveFails \/ SelectTimeout
        \/ Alarm \/ Tick \/ Terminated
Spec == Init /\ [][Next]_vars
-----------------------------------------------------------------------------
(* Properties                                                               *)

\* An answer to this request, and one of the host if it was found again behind
\* the send.
Ours(p) == p # NONE /\ p.op = "reply" /\ p.xid = "ours" /\ p.sound
           /\ (options.hostent => p.server \in {"named", "sname named"})

\* If there is a timeout the check is OK only for an answer to its own request
\* and, if a host is named, of that host, whatever else arrives on the port:
\* silence is critical with or without a host, for the alarm is always before
\* the end of select.  Two ways out remain: an error of recvmsg, which leads to
\* "No DHCP Offer received.", and a host that was found before the alarm is set
\* and not found any more behind the send, for which any server will do.
SilenceIsCritical ==
    pc = "exited" /\ code = STATE_OK /\ T # 0 /\ ~failed => Ours(accepted)

\* Why it holds: no packet is accepted before the end, and neither the clock
\* nor the beginning of select is past the alarm.
IInv ==
    /\ options \in [hostname : BOOLEAN, hostent : BOOLEAN, unicast : BOOLEAN, request : BOOLEAN,
                    type : Types, mp_timeout : Timeouts]
    /\ now \in 0 .. Deadline /\ since \in 0 .. now
    /\ accepted # NONE => pc = "exited" /\ Ours(accepted)
    /\ pc # "exited" => code = -1
    /\ SilenceIsCritical
=============================================================================
