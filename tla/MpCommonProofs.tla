--------------------------- MODULE MpCommonProofs ---------------------------
(* Proofs about a plugin's report, for every set of messages and any number
   of them.  A line is complete because mp_state and the three texts follow
   the reports all the time (StateIsWorst, TextsAreKept); the last verdict on
   it is the exit code because an exit path prints one verdict and then none
   (LastVerdict) and only the handler leaves a path for another (OneExit).  *)
EXTENDS MpCommon, SeqFacts

(* Printing only adds to the line: what stood on it stays in its place. *)
Grows == /\ line' \in Seq(Pieces)
         /\ \A i \in DOMAIN line : i \in DOMAIN line' /\ line'[i] = line[i]

(* What is new on the line is no verdict. *)
NoVerdict == \A j \in DOMAIN line' : j \notin DOMAIN line => ~IsStatus(line'[j])

(* The places of a line. *)
LEMMA LineFacts ==
    ASSUME TypeOK
    PROVE  /\ line # <<>> => 1 \in DOMAIN line
           /\ 1 \in DOMAIN line => line # <<>>
  <1>1. line \in Seq(Pieces)
    BY DEF TypeOK
  <1> QED
    BY <1>1, TopFacts

(* The reports are reports. *)
LEMMA ReportsFacts ==
    ASSUME TypeOK
    PROVE  \A i \in DOMAIN reports : reports[i].state \in Reported /\ reports[i].text \in Messages
  <1> DEFINE R == [state : Reported, text : Messages]
  <1>1. reports \in Seq(R)
    BY DEF TypeOK
  <1> HIDE DEF R
  <1>2. \A i \in DOMAIN reports : reports[i] \in R
    BY <1>1, TopFacts
  <1> QED
    BY <1>2 DEF R

Holds(s, v) == \E i \in DOMAIN s : s[i] = v

(* A concatenation holds what its parts hold, and begins as the first one. *)
LEMMA HoldsConcat ==
    ASSUME NEW S, NEW s \in Seq(S), NEW t \in Seq(S)
    PROVE  /\ s \o t \in Seq(S)
           /\ \A v : Holds(s, v) \/ Holds(t, v) => Holds(s \o t, v)
           /\ 1 \in DOMAIN s => 1 \in DOMAIN (s \o t) /\ (s \o t)[1] = s[1]
  <1>1. /\ s \o t \in Seq(S)
        /\ \A i \in DOMAIN s : i \in DOMAIN (s \o t) /\ (s \o t)[i] = s[i]
        /\ \A i \in DOMAIN t : /\ Len(s) + i \in DOMAIN (s \o t)
                                /\ (s \o t)[Len(s) + i] = t[i]
    BY ConcatFacts
  <1>2. ASSUME NEW v, Holds(s, v) PROVE Holds(s \o t, v)
    BY <1>1, <1>2 DEF Holds
  <1>3. ASSUME NEW v, Holds(t, v) PROVE Holds(s \o t, v)
    BY <1>1, <1>3 DEF Holds
  <1> QED
    BY <1>1, <1>2, <1>3

(* Appending a piece makes the line grow. *)
LEMMA AppendGrows ==
    ASSUME TypeOK, NEW x \in Pieces, line' = Append(line, x)
    PROVE  Grows
  <1>1. line \in Seq(Pieces)
    BY DEF TypeOK
  <1>2. /\ line' \in Seq(Pieces)
        /\ Len(line') = Len(line) + 1
        /\ \A i \in 1 .. Len(line) : line'[i] = line[i]
    BY <1>1, AppendFacts
  <1>3. /\ DOMAIN line = 1 .. Len(line) /\ Len(line) \in Nat
        /\ DOMAIN line' = 1 .. Len(line')
    BY <1>1, <1>2, TopFacts
  <1> QED
    BY <1>2, <1>3 DEF Grows

(* A line that grows keeps its head and every piece that was printed. *)
LEMMA GrowingKeeps ==
    ASSUME TypeOK, Grows, UNCHANGED <<collected, leaving>>,
           path = "mp_exit" => line # <<>> /\ line[1] = Status(status),
           MessagesArePrinted
    PROVE  /\ path' = "mp_exit" => line' # <<>> /\ line'[1] = Status(status')
           /\ MessagesArePrinted'
  <1>1. UNCHANGED <<reports, path, status>>
    BY DEF collected, leaving
  <1>2. path = "mp_exit" => line' # <<>> /\ line'[1] = Status(status)
    <2>1. line' \in Seq(Pieces)
      BY DEF Grows
    <2>2. 1 \in DOMAIN line' => line' # <<>>
      BY <2>1, TopFacts
    <2>3. path = "mp_exit" => 1 \in DOMAIN line
      BY LineFacts
    <2> QED
      BY <2>2, <2>3 DEF Grows
  <1>3. ASSUME path = "mp_exit", NEW i \in DOMAIN reports
        PROVE  Printed(Text(reports[i].state, reports[i].text))'
    <2>1. PICK j \in DOMAIN line : line[j] = Text(reports[i].state, reports[i].text)
      BY <1>3 DEF MessagesArePrinted, Printed
    <2>2. j \in DOMAIN line' /\ line'[j] = line[j]
      BY DEF Grows
    <2> QED
      BY <2>1, <2>2, <1>1 DEF Printed, Text
  <1>4. MessagesArePrinted'
    BY <1>1, <1>3 DEF MessagesArePrinted, Printed, Text
  <1> QED
    BY <1>1, <1>2, <1>4 DEF Status

(* The worst state and the texts follow the reports alone. *)
LEMMA CollectedKept ==
    ASSUME StateIsWorst, TextsAreKept, UNCHANGED collected,
           path' = path
    PROVE  StateIsWorst' /\ TextsAreKept'
  BY DEF StateIsWorst, TextsAreKept, collected

(* Before a plugin leaves there is nothing on the line and nothing to print. *)
LEMMA NotLeaving ==
    ASSUME path' = "none", pc' # "exit", perfdata' # "freed"
    PROVE  FreedOnce' /\ LastVerdict' /\ EndIsReached' /\ MessagesArePrinted'
  BY DEF FreedOnce, LastVerdict, EndIsReached, MessagesArePrinted

(* set_ok, set_warning and set_critical preserve the invariant. *)
LEMMA ReportStep ==
    ASSUME IInv, NEW s \in Reported, NEW m \in Messages, Report(s, m)
    PROVE  IInv'
  <1> DEFINE r == [state |-> s, text |-> m]
             n == Len(reports)
  <1>0. TypeOK /\ StateIsWorst /\ TextsAreKept /\ OneExit /\ FreedOnce
    BY DEF IInv
  <1>1. /\ pc = "check"
        /\ mp_state' = IF mp_state < s THEN s ELSE mp_state
        /\ out' = [out EXCEPT ![s] = Append(@, m)]
        /\ reports' = Append(reports, r)
        /\ UNCHANGED <<okonly, mp_timeout, mp_showperfdata, path, status, perfdata, alarm, pc, line, code>>
    BY DEF Report, options, leaving
  <1>2. path = "none" /\ alarm # "fired"
    BY <1>0, <1>1 DEF OneExit
  <1>3. r \in [state : Reported, text : Messages]
    OBVIOUS
  <1>4. reports \in Seq([state : Reported, text : Messages])
    BY <1>0 DEF TypeOK
  <1> HIDE DEF r
  <1>5. /\ reports' \in Seq([state : Reported, text : Messages])
        /\ Len(reports') = n + 1
        /\ \A i \in 1 .. n : reports'[i] = reports[i]
        /\ reports'[n + 1] = r
        /\ reports' # <<>>
    BY <1>1, <1>3, <1>4, AppendFacts
  <1>6. /\ n \in Nat /\ DOMAIN reports = 1 .. n
        /\ DOMAIN reports' = 1 .. n + 1
        /\ \A i \in 1 .. n : reports[i] \in [state : Reported, text : Messages]
    BY <1>4, <1>5, TopFacts
  <1>7. r.state = s /\ r.text = m
    BY DEF r
  <1>8. /\ out[s] \in Seq(Messages)
        /\ Append(out[s], m) \in Seq(Messages)
        /\ Len(Append(out[s], m)) = Len(out[s]) + 1
        /\ \A j \in 1 .. Len(out[s]) : Append(out[s], m)[j] = out[s][j]
        /\ Append(out[s], m)[Len(out[s]) + 1] = m
    <2>1. out[s] \in Seq(Messages)
      BY <1>0 DEF TypeOK
    <2> QED
      BY <2>1, AppendFacts
  <1>9. /\ Len(out[s]) \in Nat /\ DOMAIN out[s] = 1 .. Len(out[s])
        /\ DOMAIN Append(out[s], m) = 1 .. Len(out[s]) + 1
    BY <1>8, TopFacts
  <1>10. /\ out'[s] = Append(out[s], m)
         /\ \A t \in Reported : t # s => out'[t] = out[t]
         /\ out' \in [Reported -> Seq(Messages)]
    BY <1>0, <1>1, <1>8 DEF TypeOK
  <1>11. TypeOK'
    <2>1. mp_state' \in Reported \cup {-1}
      BY <1>0, <1>1 DEF TypeOK
    <2> QED
      BY <1>0, <1>1, <1>5, <1>10, <2>1 DEF TypeOK
  <1>12. StateIsWorst'
    <2>1. mp_state \in Reported \cup {-1} /\ s \in {0, 1, 2}
      BY <1>0 DEF TypeOK, Reported, STATE_OK, STATE_WARNING, STATE_CRITICAL
    <2>2. mp_state \in {-1, 0, 1, 2}
      BY <2>1 DEF Reported, STATE_OK, STATE_WARNING, STATE_CRITICAL
    <2>3. mp_state <= mp_state' /\ s <= mp_state' /\ mp_state' \in {mp_state, s}
      BY <1>1, <2>1, <2>2
    <2>4. \A i \in 1 .. n : reports[i].state \in {0, 1, 2}
      BY <1>6 DEF Reported, STATE_OK, STATE_WARNING, STATE_CRITICAL
    <2>5. \A i \in 1 .. n + 1 : reports'[i].state <= mp_state'
      <3> TAKE i \in 1 .. n + 1
      <3>1. CASE i = n + 1
        BY <3>1, <1>5, <1>7, <2>3
      <3>2. CASE i \in 1 .. n
        <4>1. reports[i].state <= mp_state
          BY <3>2, <1>0, <1>6 DEF StateIsWorst
        <4> QED
          BY <4>1, <3>2, <1>5, <2>1, <2>2, <2>3, <2>4
      <3> QED
        BY <3>1, <3>2, <1>6
    <2>6. \E i \in 1 .. n + 1 : reports'[i].state = mp_state'
      <3>1. CASE mp_state' = s
        BY <3>1, <1>5, <1>6, <1>7
      <3>2. CASE mp_state' = mp_state /\ mp_state' # s
        <4>1. mp_state # -1
          BY <3>2, <1>1, <2>1
        <4>2. \E i \in DOMAIN reports : reports[i].state = mp_state
          BY <4>1, <1>0, <1>2 DEF StateIsWorst
        <4> QED
          BY <4>2, <3>2, <1>5, <1>6
      <3> QED
        BY <3>1, <3>2, <2>3
    <2> QED
      BY <2>5, <2>6, <1>5, <1>6 DEF StateIsWorst
  <1>13. TextsAreKept'
    <2> SUFFICES ASSUME NEW i \in 1 .. n + 1
                 PROVE  \E j \in DOMAIN out'[reports'[i].state] :
                            out'[reports'[i].state][j] = reports'[i].text
      BY <1>6 DEF TextsAreKept
    <2>1. CASE i = n + 1
      <3>1. reports'[i].state = s /\ reports'[i].text = m
        BY <2>1, <1>5, <1>7
      <3>2. Len(out[s]) + 1 \in DOMAIN out'[s] /\ out'[s][Len(out[s]) + 1] = m
        BY <1>8, <1>9, <1>10
      <3> QED
        BY <3>1, <3>2
    <2>2. CASE i \in 1 .. n
      <3>1. reports'[i] = reports[i] /\ reports[i].state \in Reported
        BY <2>2, <1>5, <1>6
      <3>2. PICK j \in DOMAIN out[reports[i].state] : out[reports[i].state][j] = reports[i].text
        BY <2>2, <1>0, <1>6 DEF TextsAreKept
      <3>3. CASE reports[i].state = s
        BY <3>1, <3>2, <3>3, <1>8, <1>9, <1>10
      <3>4. CASE reports[i].state # s
        BY <3>1, <3>2, <3>4, <1>10
      <3> QED
        BY <3>3, <3>4
    <2> QED
      BY <2>1, <2>2, <1>6
  <1>14. OneExit'
    BY <1>0, <1>1, <1>2 DEF OneExit
  <1>15. FreedOnce' /\ LastVerdict' /\ EndIsReached' /\ MessagesArePrinted'
    BY <1>0, <1>1, <1>2, NotLeaving DEF FreedOnce
  <1> QED
    BY <1>11, <1>12, <1>13, <1>14, <1>15 DEF IInv

(* The lines of ok, warning, critical, unknown and of mp_exit. *)
LEMMA TextsFacts ==
    ASSUME NEW s \in Reported \cup {-1}, NEW ms \in Seq(Messages)
    PROVE  /\ Texts(s, ms) \in Seq(Pieces)
           /\ DOMAIN Texts(s, ms) = DOMAIN ms
           /\ \A i \in DOMAIN ms : Texts(s, ms)[i] = Text(s, ms[i])
  <1>1. /\ Len(ms) \in Nat /\ DOMAIN ms = 1 .. Len(ms)
        /\ \A i \in 1 .. Len(ms) : ms[i] \in Messages
    BY TopFacts
  <1>2. \A i \in 1 .. Len(ms) : Text(s, ms[i]) \in Pieces
    BY <1>1 DEF Pieces
  <1>3. [i \in 1 .. Len(ms) |-> Text(s, ms[i])] \in Seq(Pieces)
    BY <1>1, <1>2, IsASeq
  <1> QED
    BY <1>1, <1>3 DEF Texts

(* A sequence without a verdict, and one with none behind its head. *)
Quiet(s) == \A i \in DOMAIN s : ~IsStatus(s[i])
OneHead(s) == \A i \in DOMAIN s : i > 1 => ~IsStatus(s[i])

(* The texts of a message are no verdicts. *)
LEMMA TextsQuiet ==
    ASSUME NEW s \in Reported \cup {-1}, NEW ms \in Seq(Messages)
    PROVE  Quiet(Texts(s, ms))
  <1>1. \A m : ~IsStatus(Text(s, m))
    BY DEF IsStatus, Text
  <1> QED
    BY <1>1, TextsFacts DEF Quiet

(* Texts behind a verdict bring no second one. *)
LEMMA HeadConcat ==
    ASSUME NEW s \in Seq(Pieces), NEW t \in Seq(Pieces), OneHead(s), Quiet(t)
    PROVE  OneHead(s \o t)
  <1>1. /\ s \o t \in Seq(Pieces)
        /\ Len(s \o t) = Len(s) + Len(t)
        /\ Len(s) \in Nat /\ Len(t) \in Nat
        /\ \A i \in DOMAIN s : (s \o t)[i] = s[i]
        /\ \A i \in DOMAIN t : (s \o t)[Len(s) + i] = t[i]
    BY ConcatFacts, TopFacts
  <1>2. /\ DOMAIN s = 1 .. Len(s) /\ DOMAIN t = 1 .. Len(t)
        /\ DOMAIN (s \o t) = 1 .. Len(s) + Len(t)
    BY <1>1, TopFacts
  <1> SUFFICES ASSUME NEW i \in 1 .. Len(s) + Len(t), i > 1
               PROVE  ~IsStatus((s \o t)[i])
    BY <1>2 DEF OneHead
  <1>3. CASE i <= Len(s)
    BY <1>1, <1>2, <1>3 DEF OneHead
  <1>4. CASE i > Len(s)
    <2>1. i - Len(s) \in DOMAIN t /\ i = Len(s) + (i - Len(s))
      BY <1>1, <1>2, <1>4
    <2>2. (s \o t)[i] = t[i - Len(s)]
      BY <1>1, <2>1
    <2> QED
      BY <2>1, <2>2 DEF Quiet
  <1> QED
    BY <1>1, <1>3, <1>4

(* A status line begins with the status. *)
LEMMA StatusFacts ==
    ASSUME line = <<>>, NEW s \in Reported \cup {STATE_UNKNOWN}
    PROVE  /\ Append(line, Status(s)) = <<Status(s)>>
           /\ <<Status(s)>> \in Seq(Pieces)
           /\ Len(<<Status(s)>>) = 1
           /\ 1 \in DOMAIN <<Status(s)>>
           /\ <<Status(s)>>[1] = Status(s)
  <1>1. Status(s) \in Pieces
    BY DEF Pieces
  <1> QED
    BY <1>1

(* A line that begins with its verdict and has no other ends with that one. *)
LEMMA OneVerdict ==
    ASSUME TypeOK', line'[1] = Status(status'), 1 \in DOMAIN line',
           \A j \in DOMAIN line' : j > 1 => ~IsStatus(line'[j])
    PROVE  LastVerdict'
  <1>1. \A j \in 1 .. 1 - 1 : FALSE
    OBVIOUS
  <1> QED
    BY <1>1 DEF LastVerdict

(* ok, warning, critical and unknown preserve the invariant. *)
LEMMA VerdictStep ==
    ASSUME IInv, NEW s \in Reported \cup {STATE_UNKNOWN},
           pc \in {"args", "check"}, Verdict(s)
    PROVE  IInv'
  <1>0. TypeOK /\ StateIsWorst /\ TextsAreKept /\ OneExit /\ FreedOnce
    BY DEF IInv
  <1>1. /\ path' = "verdict" /\ status' = s /\ pc' = "perfdata"
        /\ line' = Append(line, Status(s))
        /\ UNCHANGED collected
        /\ UNCHANGED <<mp_state, out, okonly, reports, mp_timeout, mp_showperfdata, perfdata, alarm, code>>
    BY DEF Verdict, collected, options
  <1>2. path = "none" /\ line = <<>> /\ alarm # "fired" /\ perfdata # "freed"
    BY <1>0 DEF OneExit, FreedOnce
  <1>3. /\ line' = <<Status(s)>> /\ line' \in Seq(Pieces)
        /\ Len(line') = 1 /\ 1 \in DOMAIN line' /\ line'[1] = Status(s)
    BY <1>1, <1>2, StatusFacts
  <1>4. TypeOK'
    BY <1>0, <1>1, <1>3 DEF TypeOK
  <1>5. StateIsWorst' /\ TextsAreKept'
    BY <1>0, <1>1, <1>2 DEF StateIsWorst, TextsAreKept
  <1>6. OneExit' /\ FreedOnce' /\ EndIsReached' /\ MessagesArePrinted'
    BY <1>1, <1>2 DEF OneExit, FreedOnce, EndIsReached, MessagesArePrinted
  <1>7. LastVerdict'
    <2>1. \A j \in DOMAIN line' : ~(j > 1)
      BY <1>3, TopFacts
    <2> QED
      BY <1>1, <1>3, <1>4, <2>1, OneVerdict DEF Status
  <1> QED
    BY <1>4, <1>5, <1>6, <1>7 DEF IInv

(* mp_exit preserves the invariant: the line it prints has every message. *)
LEMMA ExitStep ==
    ASSUME IInv, mp_exit
    PROVE  IInv'
  <1> DEFINE new == IF mp_state = -1 THEN STATE_OK ELSE mp_state
             l0 == <<Status(new)>>
             c == Texts(STATE_CRITICAL, out[STATE_CRITICAL])
             w == Texts(STATE_WARNING, out[STATE_WARNING])
             o == Texts(STATE_OK, out[STATE_OK])
             x == IF new = STATE_OK THEN Texts(-1, okonly) ELSE <<>>
  <1>0. TypeOK /\ StateIsWorst /\ TextsAreKept /\ OneExit /\ FreedOnce
    BY DEF IInv
  <1>1. /\ pc = "check" /\ pc' = "perfdata" /\ path' = "mp_exit"
        /\ mp_state' = new /\ status' = new
        /\ line' = Append(line, Status(new)) \o c \o w \o o \o x
        /\ UNCHANGED <<out, okonly, reports, mp_timeout, mp_showperfdata, perfdata, alarm, code>>
    BY DEF mp_exit, options
  <1>2. path = "none" /\ line = <<>> /\ alarm # "fired" /\ perfdata # "freed"
    BY <1>0, <1>1 DEF OneExit, FreedOnce
  <1>3. new \in Reported
    BY <1>0 DEF TypeOK, Reported
  <1>4. /\ Append(line, Status(new)) = l0
        /\ l0 \in Seq(Pieces) /\ Len(l0) = 1 /\ 1 \in DOMAIN l0 /\ l0[1] = Status(new)
    BY <1>2, <1>3, StatusFacts
  <1>5. /\ c \in Seq(Pieces) /\ w \in Seq(Pieces) /\ o \in Seq(Pieces) /\ x \in Seq(Pieces)
    <2>1. /\ out[STATE_CRITICAL] \in Seq(Messages)
          /\ out[STATE_WARNING] \in Seq(Messages)
          /\ out[STATE_OK] \in Seq(Messages)
          /\ okonly \in Seq(Messages)
      BY <1>0 DEF TypeOK, Reported
    <2>2. <<>> \in Seq(Pieces)
      BY EmptySeq
    <2>3. {STATE_CRITICAL, STATE_WARNING, STATE_OK, -1} \subseteq Reported \cup {-1}
      BY DEF Reported
    <2> QED
      BY <2>1, <2>2, <2>3, TextsFacts
  <1>6. \A s \in Reported : \A j \in DOMAIN out[s] :
            \E y \in {c, w, o} : Holds(y, Text(s, out[s][j]))
    <2>1. \A s \in Reported : /\ out[s] \in Seq(Messages)
                              /\ s \in Reported \cup {-1}
      BY <1>0 DEF TypeOK
    <2>2. \A s \in Reported : \A j \in DOMAIN out[s] :
              Holds(Texts(s, out[s]), Text(s, out[s][j]))
      BY <2>1, TextsFacts DEF Holds
    <2>3. \A s \in Reported : Texts(s, out[s]) \in {c, w, o}
      BY DEF Reported
    <2> QED
      BY <2>2, <2>3
  <1>6a. Quiet(c) /\ Quiet(w) /\ Quiet(o) /\ Quiet(x)
    <2>1. /\ out[STATE_CRITICAL] \in Seq(Messages)
          /\ out[STATE_WARNING] \in Seq(Messages)
          /\ out[STATE_OK] \in Seq(Messages)
          /\ okonly \in Seq(Messages)
      BY <1>0 DEF TypeOK, Reported
    <2>2. {STATE_CRITICAL, STATE_WARNING, STATE_OK, -1} \subseteq Reported \cup {-1}
      BY DEF Reported
    <2>3. Quiet(<<>>)
      BY DEF Quiet
    <2> QED
      BY <2>1, <2>2, <2>3, TextsQuiet
  <1>6b. OneHead(l0)
    BY <1>4, TopFacts DEF OneHead
  <1> HIDE DEF l0, c, w, o, x, new
  <1>7. /\ l0 \o c \o w \o o \o x \in Seq(Pieces)
        /\ 1 \in DOMAIN (l0 \o c \o w \o o \o x)
        /\ (l0 \o c \o w \o o \o x)[1] = Status(new)
        /\ \A y \in {c, w, o} : \A v : Holds(y, v) => Holds(l0 \o c \o w \o o \o x, v)
    <2>1. /\ l0 \o c \in Seq(Pieces)
          /\ \A v : Holds(l0, v) \/ Holds(c, v) => Holds(l0 \o c, v)
          /\ 1 \in DOMAIN (l0 \o c) /\ (l0 \o c)[1] = l0[1]
      BY <1>4, <1>5, HoldsConcat
    <2>2. /\ l0 \o c \o w \in Seq(Pieces)
          /\ \A v : Holds(l0 \o c, v) \/ Holds(w, v) => Holds(l0 \o c \o w, v)
          /\ 1 \in DOMAIN (l0 \o c \o w) /\ (l0 \o c \o w)[1] = l0[1]
      BY <2>1, <1>5, HoldsConcat
    <2>3. /\ l0 \o c \o w \o o \in Seq(Pieces)
          /\ \A v : Holds(l0 \o c \o w, v) \/ Holds(o, v) => Holds(l0 \o c \o w \o o, v)
          /\ 1 \in DOMAIN (l0 \o c \o w \o o) /\ (l0 \o c \o w \o o)[1] = l0[1]
      BY <2>2, <1>5, HoldsConcat
    <2>4. /\ l0 \o c \o w \o o \o x \in Seq(Pieces)
          /\ \A v : Holds(l0 \o c \o w \o o, v) => Holds(l0 \o c \o w \o o \o x, v)
          /\ 1 \in DOMAIN (l0 \o c \o w \o o \o x) /\ (l0 \o c \o w \o o \o x)[1] = l0[1]
      <3> DEFINE d == l0 \o c \o w \o o
      <3>1. d \in Seq(Pieces) /\ 1 \in DOMAIN d /\ d[1] = l0[1]
        BY <2>3
      <3> HIDE DEF d
      <3>2. /\ d \o x \in Seq(Pieces)
            /\ \A v : Holds(d, v) => Holds(d \o x, v)
            /\ 1 \in DOMAIN (d \o x) /\ (d \o x)[1] = l0[1]
        BY <3>1, <1>5, HoldsConcat
      <3> QED
        BY <3>2 DEF d
    <2> QED
      BY <2>1, <2>2, <2>3, <2>4, <1>4
  <1>7a. OneHead(l0 \o c \o w \o o \o x)
    <2>1. OneHead(l0 \o c) /\ l0 \o c \in Seq(Pieces)
      BY <1>4, <1>5, <1>6a, <1>6b, HeadConcat, HoldsConcat
    <2>2. OneHead(l0 \o c \o w) /\ l0 \o c \o w \in Seq(Pieces)
      BY <2>1, <1>5, <1>6a, HeadConcat, HoldsConcat
    <2>3. OneHead(l0 \o c \o w \o o) /\ l0 \o c \o w \o o \in Seq(Pieces)
      BY <2>2, <1>5, <1>6a, HeadConcat, HoldsConcat
    <2> QED
      BY <2>3, <1>5, <1>6a, HeadConcat
  <1>8. line' = l0 \o c \o w \o o \o x
    BY <1>1, <1>4
  <1>9. TypeOK'
    BY <1>0, <1>1, <1>3, <1>7, <1>8 DEF TypeOK
  <1>10. StateIsWorst'
    <2>2. \A i \in DOMAIN reports : reports[i].state \in Reported
      BY <1>0, ReportsFacts
    <2>3. CASE reports = <<>>
      <3>1. mp_state = -1 /\ DOMAIN reports = {}
        BY <2>3, <1>0, <1>2 DEF StateIsWorst
      <3> QED
        BY <2>3, <3>1, <1>1 DEF StateIsWorst, new
    <2>4. CASE reports # <<>>
      <3>1. PICK i \in DOMAIN reports : reports[i].state = mp_state
        BY <2>4, <1>0 DEF StateIsWorst
      <3>2. mp_state # -1
        BY <3>1, <2>2 DEF Reported, STATE_OK, STATE_WARNING, STATE_CRITICAL
      <3> QED
        BY <2>4, <3>2, <1>0, <1>1 DEF StateIsWorst, new
    <2> QED
      BY <2>3, <2>4
  <1>11. TextsAreKept'
    BY <1>0, <1>1 DEF TextsAreKept
  <1>12. MessagesArePrinted'
    <2> SUFFICES ASSUME NEW i \in DOMAIN reports
                 PROVE  Holds(line', Text(reports[i].state, reports[i].text))
      BY <1>1 DEF MessagesArePrinted, Printed, Text, Holds
    <2>1. reports[i].state \in Reported
      BY <1>0, ReportsFacts
    <2>2. PICK j \in DOMAIN out[reports[i].state] : out[reports[i].state][j] = reports[i].text
      BY <1>0 DEF TextsAreKept
    <2>3. PICK y \in {c, w, o} : Holds(y, Text(reports[i].state, reports[i].text))
      BY <2>1, <2>2, <1>6
    <2> QED
      BY <2>3, <1>7, <1>8
  <1>13. OneExit' /\ FreedOnce' /\ EndIsReached'
    <2>1. line' # <<>>
      BY <1>7, <1>8, TopFacts
    <2> QED
      BY <2>1, <1>1, <1>2, <1>7, <1>8 DEF OneExit, FreedOnce, EndIsReached, Status
  <1>14. LastVerdict'
    BY <1>1, <1>7, <1>7a, <1>8, <1>9, OneVerdict DEF OneHead, Status
  <1> QED
    BY <1>9, <1>10, <1>11, <1>12, <1>13, <1>14 DEF IInv

(* An unchanged line has not shrunk and has nothing new on it. *)
LEMMA SameGrows ==
    ASSUME TypeOK, line' = line
    PROVE  Grows /\ NoVerdict
  BY DEF TypeOK, Grows, NoVerdict

(* A piece that is no verdict. *)
LEMMA PieceGrows ==
    ASSUME TypeOK, NEW x \in Pieces, ~IsStatus(x), line' = Append(line, x)
    PROVE  Grows /\ NoVerdict /\ line' # <<>> /\ line'[Len(line')] = x
  <1>1. line \in Seq(Pieces)
    BY DEF TypeOK
  <1>2. /\ line' \in Seq(Pieces) /\ line' # <<>>
        /\ Len(line') = Len(line) + 1 /\ line'[Len(line) + 1] = x
    BY <1>1, AppendFacts
  <1>3. /\ DOMAIN line = 1 .. Len(line) /\ Len(line) \in Nat
        /\ DOMAIN line' = 1 .. Len(line')
    BY <1>1, <1>2, TopFacts
  <1>4. \A j \in DOMAIN line' : j \notin DOMAIN line => j = Len(line) + 1
    BY <1>2, <1>3
  <1> QED
    BY <1>2, <1>4, AppendGrows DEF NoVerdict

(* A step of an exit path, which leaves the reports and the path alone and
   prints no verdict, preserves the invariant if it keeps what is said of the
   performance data and of the end. *)
LEMMA LeavingStep ==
    ASSUME IInv, TypeOK', Grows, NoVerdict, UNCHANGED <<collected, leaving, alarm>>,
           pc \notin {"args", "check", "exited"}, pc' \notin {"args", "check"},
           FreedOnce', EndIsReached'
    PROVE  IInv'
  <1>1. TypeOK /\ StateIsWorst /\ TextsAreKept /\ OneExit /\ LastVerdict /\ MessagesArePrinted
    BY DEF IInv
  <1>2. path' = path /\ status' = status /\ mp_state' = mp_state /\ alarm' = alarm
    BY DEF leaving, collected
  <1>3. path # "none"
    BY <1>1 DEF OneExit, TypeOK
  <1>4. StateIsWorst' /\ TextsAreKept'
    BY <1>1, <1>2, CollectedKept
  <1>5. /\ path' = "mp_exit" => line' # <<>> /\ line'[1] = Status(status')
        /\ MessagesArePrinted'
    BY <1>1, GrowingKeeps DEF OneExit
  <1>6. OneExit'
    BY <1>1, <1>2, <1>3, <1>5 DEF OneExit
  <1>7. LastVerdict'
    <2>1. PICK i \in DOMAIN line :
                /\ line[i] = Status(status)
                /\ \A j \in DOMAIN line : j > i => ~IsStatus(line[j])
                /\ (\E j \in 1 .. i - 1 : IsStatus(line[j])) => path = "handler"
      BY <1>1, <1>3 DEF LastVerdict
    <2>2. line \in Seq(Pieces)
      BY <1>1 DEF TypeOK
    <2>3. DOMAIN line = 1 .. Len(line) /\ Len(line) \in Nat
      BY <2>2, TopFacts
    <2>4. i \in DOMAIN line' /\ line'[i] = Status(status')
      BY <2>1, <1>2 DEF Grows, Status
    <2>5. \A j \in DOMAIN line' : j > i => ~IsStatus(line'[j])
      BY <2>1 DEF Grows, NoVerdict
    <2>6. \A j \in 1 .. i - 1 : line'[j] = line[j]
      BY <2>3 DEF Grows
    <2>7. (\E j \in 1 .. i - 1 : IsStatus(line'[j])) => path' = "handler"
      BY <2>1, <2>6, <1>2
    <2> QED
      BY <2>4, <2>5, <2>7 DEF LastVerdict
  <1> QED
    BY <1>4, <1>5, <1>6, <1>7 DEF IInv

(* The steps of the exit path preserve the invariant. *)
LEMMA LeavingSteps ==
    ASSUME IInv, Leaving
    PROVE  IInv'
  <1>0. TypeOK /\ OneExit /\ FreedOnce /\ EndIsReached
    BY DEF IInv
  <1>1. /\ <<"perfdata">> \in Pieces /\ ~IsStatus(<<"perfdata">>)
        /\ <<"newline">> \in Pieces /\ ~IsStatus(<<"newline">>)
        /\ IsNewline(<<"newline">>)
    BY DEF Pieces, IsStatus, IsNewline
  <1>2. CASE PrintPerfdata
    <2>1. Grows /\ NoVerdict
      BY <1>0, <1>1, <1>2, PieceGrows, SameGrows DEF PrintPerfdata
    <2>2. TypeOK'
      BY <1>0, <1>2, <2>1 DEF PrintPerfdata, TypeOK, Grows, collected, options, leaving
    <2>3. FreedOnce' /\ EndIsReached'
      BY <1>0, <1>2 DEF PrintPerfdata, FreedOnce, EndIsReached, leaving
    <2> QED
      BY <1>2, <2>1, <2>2, <2>3, LeavingStep DEF PrintPerfdata
  <1>3. CASE FreePerfdata
    <2>1. Grows /\ NoVerdict
      BY <1>0, <1>3, SameGrows DEF FreePerfdata
    <2>2. TypeOK'
      BY <1>0, <1>3 DEF FreePerfdata, TypeOK, collected, options, leaving
    <2>3. FreedOnce' /\ EndIsReached'
      BY <1>0, <1>3 DEF FreePerfdata, OneExit, FreedOnce, EndIsReached, leaving
    <2> QED
      BY <1>3, <2>1, <2>2, <2>3, LeavingStep DEF FreePerfdata
  <1>4. CASE Newline
    <2>1. Grows /\ NoVerdict /\ line' # <<>> /\ IsNewline(line'[Len(line')])
      BY <1>0, <1>1, <1>4, PieceGrows DEF Newline
    <2>2. TypeOK'
      BY <1>0, <1>4, <2>1 DEF Newline, TypeOK, Grows, collected, options, leaving
    <2>3. FreedOnce' /\ EndIsReached'
      BY <1>0, <1>4, <2>1 DEF Newline, FreedOnce, EndIsReached, leaving
    <2> QED
      BY <1>4, <2>1, <2>2, <2>3, LeavingStep DEF Newline
  <1>5. CASE Exit
    <2>1. Grows /\ NoVerdict
      BY <1>0, <1>5, SameGrows DEF Exit
    <2>2. TypeOK'
      BY <1>0, <1>5 DEF Exit, TypeOK, collected, options, leaving
    <2>3. status # ABORTED
      BY <1>0 DEF TypeOK, Reported, STATE_OK, STATE_WARNING, STATE_CRITICAL, STATE_UNKNOWN, ABORTED
    <2>4. FreedOnce' /\ EndIsReached'
      BY <1>0, <1>5, <2>3 DEF Exit, FreedOnce, EndIsReached, leaving
    <2> QED
      BY <1>5, <2>1, <2>2, <2>4, LeavingStep DEF Exit
  <1> QED
    BY <1>2, <1>3, <1>4, <1>5 DEF Leaving

(* The signal handler preserves the invariant wherever it strikes: its verdict
   is the last on the line and it takes a path of its own. *)
LEMMA HandlerStep ==
    ASSUME IInv, timeout_alarm_handler
    PROVE  IInv'
  <1>0. TypeOK /\ StateIsWorst /\ TextsAreKept
    BY DEF IInv
  <1>1. /\ alarm' = "fired" /\ path' = "handler" /\ status' = STATE_CRITICAL /\ pc' = "perfdata"
        /\ line' = Append(line, Status(STATE_CRITICAL))
        /\ UNCHANGED <<mp_state, out, okonly, reports, perfdata, code, mp_timeout, mp_showperfdata>>
    BY DEF timeout_alarm_handler, collected, options
  <1>2. line \in Seq(Pieces) /\ Status(STATE_CRITICAL) \in Pieces
    BY <1>0 DEF TypeOK, Pieces, Reported
  <1>3. /\ line' \in Seq(Pieces)
        /\ Len(line') = Len(line) + 1 /\ line'[Len(line) + 1] = Status(STATE_CRITICAL)
    BY <1>1, <1>2, AppendFacts
  <1>4. DOMAIN line' = 1 .. Len(line') /\ Len(line) \in Nat
    BY <1>2, <1>3, TopFacts
  <1>5. TypeOK'
    BY <1>0, <1>1, <1>3 DEF TypeOK, Reported
  <1>6. StateIsWorst' /\ TextsAreKept'
    BY <1>0, <1>1 DEF StateIsWorst, TextsAreKept
  <1>7. OneExit' /\ FreedOnce' /\ EndIsReached' /\ MessagesArePrinted'
    BY <1>1 DEF OneExit, FreedOnce, EndIsReached, MessagesArePrinted
  <1>8. LastVerdict'
    <2>1. /\ Len(line) + 1 \in DOMAIN line'
          /\ \A j \in DOMAIN line' : ~(j > Len(line) + 1)
      BY <1>3, <1>4
    <2>2. line'[Len(line) + 1] = Status(status')
      BY <1>1, <1>3
    <2> QED
      BY <1>1, <2>1, <2>2 DEF LastVerdict, Status
  <1> QED
    BY <1>5, <1>6, <1>7, <1>8 DEF IInv

(* main() before and during the check: nothing is collected or printed. *)
LEMMA QuietStep ==
    ASSUME IInv, StartCheck \/ usage \/ Help \/ AddPerfdata \/ \E m \in Messages : set_okonly(m)
    PROVE  IInv'
  <1>0. TypeOK /\ StateIsWorst /\ TextsAreKept /\ OneExit /\ FreedOnce
    BY DEF IInv
  <1>1. /\ pc \in {"args", "check"}
        /\ UNCHANGED <<mp_state, out, reports, mp_timeout, mp_showperfdata, path, status, line>>
    BY DEF StartCheck, usage, Help, AddPerfdata, set_okonly, collected, options, leaving
  <1>2. path = "none" /\ alarm # "fired" /\ perfdata # "freed"
    BY <1>0, <1>1 DEF OneExit, FreedOnce
  <1>3. /\ okonly' \in Seq(Messages) /\ perfdata' \in {"NULL", "live"}
        /\ alarm' \in {"off", "armed"} /\ pc' \in {"check", "exited"}
        /\ code' \in Reported \cup {-1, STATE_UNKNOWN, ABORTED}
    <2>1. CASE StartCheck \/ usage \/ Help \/ AddPerfdata
      BY <2>1, <1>0, <1>2 DEF StartCheck, usage, Help, AddPerfdata, collected, TypeOK, Reported
    <2>2. CASE \E m \in Messages : set_okonly(m)
      <3>1. PICK m \in Messages : set_okonly(m)
        BY <2>2
      <3>2. okonly' \in {okonly, <<m>>} /\ <<m>> \in Seq(Messages)
        BY <3>1 DEF set_okonly
      <3> QED
        BY <3>1, <3>2, <1>0, <1>2 DEF set_okonly, TypeOK
    <2> QED
      BY <2>1, <2>2
  <1>4. TypeOK'
    BY <1>0, <1>1, <1>3 DEF TypeOK
  <1>5. StateIsWorst' /\ TextsAreKept'
    BY <1>0, <1>1 DEF StateIsWorst, TextsAreKept
  <1>6. OneExit'
    BY <1>0, <1>1, <1>2, <1>3 DEF OneExit
  <1>7. FreedOnce' /\ LastVerdict' /\ EndIsReached' /\ MessagesArePrinted'
    BY <1>1, <1>2, <1>3, NotLeaving
  <1> QED
    BY <1>4, <1>5, <1>6, <1>7 DEF IInv

(* Every step preserves the invariant. *)
LEMMA NextStep ==
    ASSUME IInv, [Next]_vars
    PROVE  IInv'
  <1>0. {STATE_OK, STATE_WARNING, STATE_CRITICAL} \subseteq Reported
    BY DEF Reported
  <1>1. CASE StartCheck \/ usage \/ Help \/ AddPerfdata \/ \E m \in Messages : set_okonly(m)
    BY <1>1, QuietStep
  <1>2. ASSUME NEW m \in Messages, set_ok(m) \/ set_warning(m) \/ set_critical(m)
        PROVE  IInv'
    BY <1>0, <1>2, ReportStep DEF set_ok, set_warning, set_critical
  <1>3. CASE ok \/ warning \/ critical \/ unknown
    BY <1>0, <1>3, VerdictStep DEF ok, warning, critical, unknown
  <1>4. CASE mp_exit
    BY <1>4, ExitStep
  <1>5. CASE Leaving
    BY <1>5, LeavingSteps
  <1>6. CASE timeout_alarm_handler
    BY <1>6, HandlerStep
  <1>7. CASE UNCHANGED vars
    BY <1>7 DEF vars, IInv, TypeOK, StateIsWorst, TextsAreKept, OneExit, MessagesArePrinted,
                FreedOnce, LastVerdict, EndIsReached, Printed, Pieces, Status, Text
  <1> QED
    BY <1>1, <1>2, <1>3, <1>4, <1>5, <1>6, <1>7 DEF Next

(* A plugin starts with nothing reported and nothing printed. *)
LEMMA InitStep ==
    ASSUME Init
    PROVE  IInv
  <1>1. <<>> \in Seq(Messages) /\ <<>> \in Seq(Pieces) /\ <<>> \in Seq([state : Reported, text : Messages])
    BY EmptySeq
  <1>2. TypeOK
    BY <1>1 DEF Init, TypeOK
  <1>3. reports = <<>> /\ DOMAIN reports = {}
    BY DEF Init
  <1> QED
    BY <1>2, <1>3 DEF Init, IInv, StateIsWorst, TextsAreKept, OneExit, MessagesArePrinted,
                       FreedOnce, LastVerdict, EndIsReached

(* The inductive invariant: reports, worst state, texts, line and exit code
   belong together at every step of lib/mp_common.c, the signal included. *)
THEOREM ReportInvariant == Spec => []IInv
  <1>1. Init => IInv
    BY InitStep
  <1>2. IInv /\ [Next]_vars => IInv'
    BY NextStep
  <1> QED
    BY <1>1, <1>2, PTL DEF Spec

(* mp_exit: exit code and line agree with everything that was collected by
   set_ok, set_warning and set_critical. *)
THEOREM LineCorrect == Spec => []LineIsComplete
  <1>1. IInv => LineIsComplete
    <2> SUFFICES ASSUME IInv, path = "mp_exit"
                 PROVE  /\ line[1] = Status(status)
                        /\ \A i \in DOMAIN reports :
                              /\ reports[i].state <= status
                              /\ Printed(Text(reports[i].state, reports[i].text))
                        /\ IF reports = <<>> THEN status = STATE_OK
                           ELSE \E i \in DOMAIN reports : reports[i].state = status
                        /\ pc = "exited" => code = status
      BY DEF LineIsComplete
    <2>1. StateIsWorst /\ OneExit /\ EndIsReached /\ MessagesArePrinted
      BY DEF IInv
    <2>2. status = mp_state /\ line[1] = Status(status) /\ (pc = "exited" => code = status)
      BY <2>1 DEF OneExit, EndIsReached
    <2> QED
      BY <2>1, <2>2 DEF StateIsWorst, MessagesArePrinted
  <1> QED
    BY <1>1, ReportInvariant, PTL

(* timeout_alarm_handler and the exit paths: wherever the signal cuts a path,
   the last verdict of a finished line is the exit code, and a second verdict
   or an abort comes from the signal alone. *)
THEOREM TimeoutCorrect == Spec => []LastVerdictCounts
  <1>1. IInv => LastVerdictCounts
    <2> SUFFICES ASSUME IInv, path # "none", pc = "exited"
                 PROVE  IF code = ABORTED
                        THEN alarm = "fired" /\ perfdata = "freed"
                        ELSE /\ IsNewline(line[Len(line)])
                             /\ \E i \in DOMAIN line :
                                   /\ line[i] = Status(code)
                                   /\ \A j \in DOMAIN line : j > i => ~IsStatus(line[j])
                                   /\ (\E j \in 1 .. i - 1 : IsStatus(line[j])) => alarm = "fired"
                             /\ alarm = "fired" => code = STATE_CRITICAL
      BY DEF LastVerdictCounts
    <2>1. OneExit /\ LastVerdict /\ EndIsReached
      BY DEF IInv
    <2>2. CASE code = ABORTED
      BY <2>1, <2>2 DEF OneExit, EndIsReached
    <2>3. CASE code # ABORTED
      <3>1. code = status /\ IsNewline(line[Len(line)])
        BY <2>1, <2>3 DEF EndIsReached
      <3>2. \E i \in DOMAIN line :
                /\ line[i] = Status(code)
                /\ \A j \in DOMAIN line : j > i => ~IsStatus(line[j])
                /\ (\E j \in 1 .. i - 1 : IsStatus(line[j])) => path = "handler"
        BY <2>1, <3>1 DEF LastVerdict
      <3> QED
        BY <2>1, <2>3, <3>1, <3>2 DEF OneExit
    <2> QED
      BY <2>2, <2>3
  <1> QED
    BY <1>1, ReportInvariant, PTL
=============================================================================
