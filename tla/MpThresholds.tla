---------------------------- MODULE MpThresholds ----------------------------
(***************************************************************************)
(* Thresholds: the ranges given with -w and -c are parsed by lib/mp_args.c, *)
(* made absolute as a side effect of the mp_perfdata_* calls of             *)
(* lib/mp_perfdata.c, and compared with a reading by get_status.            *)
(*                                                                         *)
(* A double is represented by its value in hundredths, so that n% (n/100)  *)
(* is exact for the numbers used.  A range string is a record of its parts.*)
(***************************************************************************)
EXTENDS Integers

CONSTANTS
    Strings,    \* the range strings that may be given
    Readings,   \* the values compared with the thresholds
    Maxes       \* the maxima passed to mp_perfdata_*2; 0 when there is none

Multipliers == {"BISI", "TIME"}

\* A range string [@][FROM:]TO has fields at, colon, from and to; FROM counts only
\* if there is a colon.  One side of it is a number n with the unit that follows
\* ("num"), "~" ("tilde"), nothing at all ("empty"), or text that strtod cannot read
\* ("junk").

VARIABLES
    flavour,    \* which getopt_wc* function the plugin uses for these options
    th,         \* the thresholds structure: its two ranges
    given,      \* the options as they were last given
    resolved,   \* the max by which percent bounds became absolute, -1: none
    phase,      \* "args", "checking", "exited"
    judged      \* the last get_status: reading, max resolved by then, verdict

vars == <<flavour, th, given, resolved, phase, judged>>

STATE_OK == 0
STATE_WARNING == 1
STATE_CRITICAL == 2

Levels == {"warning", "critical"}

-----------------------------------------------------------------------------
(* lib/mp_args.c                                                           *)

\* A range pointer: set is FALSE for NULL.
Unset == [set |-> FALSE, start |-> 0, start_infinity |-> FALSE, start_percent |-> FALSE,
          end |-> 0, end_infinity |-> FALSE, end_percent |-> FALSE, alert_on |-> "OUTSIDE"]

\* Larger units follow the same pattern and exceed the integers of TLC.
parse_multiplier_string(unit) ==
    CASE unit = "k" -> 1000
      [] unit = "K" -> 1024
      [] unit = "m" -> 1000000
      [] unit = "M" -> 1048578
      [] OTHER      -> 1

parse_time_multiplier_string(unit) ==
    CASE unit = "m" -> 60
      [] unit = "h" -> 3600
      [] unit = "d" -> 86400
      [] unit = "w" -> 604800
      [] OTHER      -> 1

\* strtod, the division by 100 of a percentage, and the multiplier.  Text
\* that is no number counts as 0.
BoundValue(b, multiplier) ==
    IF b.kind # "num" THEN 0
    ELSE LET v == IF b.unit = "%" THEN b.n \div 100 ELSE b.n
         IN  v * (IF multiplier = "BISI" THEN parse_multiplier_string(b.unit)
                                         ELSE parse_time_multiplier_string(b.unit))

Percent(b) == b.kind = "num" /\ b.unit = "%"

\* The test for a FROM that is no number compares with the wrong pointer and
\* never holds: only TO can be refused.
RangeRefused(s) == s.to.kind = "junk"

\* The bounds are swapped if they are reversed, as the numbers stand before
\* percentages are resolved and without their percent flags.
parse_range_string(s, multiplier) ==
    LET start == IF s.colon THEN BoundValue(s.from, multiplier) ELSE 0
        start_inf == s.colon /\ s.from.kind = "tilde"
        end == BoundValue(s.to, multiplier)
        end_inf == s.to.kind \in {"tilde", "empty"}
        inOrder == start_inf \/ end_inf \/ start <= end
    IN  [set |-> TRUE,
         start |-> IF inOrder THEN start ELSE end,
         start_infinity |-> start_inf,
         start_percent |-> s.colon /\ Percent(s.from),
         end |-> IF inOrder THEN end ELSE start,
         end_infinity |-> end_inf,
         end_percent |-> Percent(s.to),
         alert_on |-> IF s.at THEN "INSIDE" ELSE "OUTSIDE"]

check_range(value, r) ==
    IF \/ value < r.start /\ ~r.start_infinity
       \/ value > r.end /\ ~r.end_infinity
    THEN r.alert_on = "OUTSIDE"
    ELSE r.alert_on = "INSIDE"

get_status(value, t) ==
    IF t.critical.set /\ check_range(value, t.critical) THEN STATE_CRITICAL
    ELSE IF t.warning.set /\ check_range(value, t.warning) THEN STATE_WARNING
    ELSE STATE_OK

-----------------------------------------------------------------------------
(* lib/mp_perfdata.c                                                       *)

\* Defect: a bound that is absolute still counts as a percentage.
percent_resolv_range_again(r, max) ==
    [r EXCEPT !.start = IF r.start_percent THEN @ * max ELSE @,
              !.end = IF r.end_percent THEN @ * max ELSE @]

percent_resolv_range(r, max) ==
    [r EXCEPT !.start = IF r.start_percent THEN @ * max ELSE @,
              !.start_percent = FALSE,
              !.end = IF r.end_percent THEN @ * max ELSE @,
              !.end_percent = FALSE]

mp_perfdata_percent_resolv(t, max) ==
    [l \in Levels |-> percent_resolv_range(t[l], max)]

-----------------------------------------------------------------------------
(* The thresholds of one plugin run.                                       *)

NotGiven == [set |-> FALSE]
NotJudged == [reading |-> 0, max |-> -1, verdict |-> -1]

Init ==
    /\ flavour \in [multiplier : Multipliers, at : BOOLEAN]
    /\ th = [l \in Levels |-> Unset]
    /\ given = [l \in Levels |-> NotGiven]
    /\ resolved = -1
    /\ phase = "args"
    /\ judged = NotJudged

\* getopt_wc, getopt_wc_time and their _at variants, which alert inside if
\* there is no colon.  An option may be repeated; the last one counts.
OptionRange(s) ==
    [parse_range_string(s, flavour.multiplier) EXCEPT
        !.alert_on = IF flavour.at /\ ~s.colon THEN "INSIDE" ELSE @]
getopt_wc(l, s) ==
    /\ phase = "args"
    /\ IF RangeRefused(s)
       THEN /\ phase' = "exited"                    \* usage()
            /\ UNCHANGED <<th, given>>
       ELSE /\ th' = [th EXCEPT ![l] = OptionRange(s)]
            /\ given' = [given EXCEPT ![l] = [set |-> TRUE, str |-> s]]
            /\ UNCHANGED phase
    /\ UNCHANGED <<flavour, resolved, judged>>

\* process_arguments has returned.
ArgumentsDone ==
    /\ phase = "args"
    /\ phase' = "checking"
    /\ UNCHANGED <<flavour, th, given, resolved, judged>>

\* What mp_perfdata_int2 and mp_perfdata_float2 share: percentages are resolved
\* whether or not perfdata is shown.
mp_perfdata(max) ==
    /\ phase = "checking"
    /\ th' = mp_perfdata_percent_resolv(th, max)
    /\ resolved' = IF resolved = -1 THEN max ELSE resolved
    /\ UNCHANGED <<flavour, given, phase, judged>>

mp_perfdata_int2(max) == mp_perfdata(max)
mp_perfdata_float2(max) == mp_perfdata(max)

\* mp_perfdata_int and mp_perfdata_float: no max, percentages become 0.
mp_perfdata_int == mp_perfdata(0)

Judge(v) ==
    /\ phase = "checking"
    /\ judged' = [reading |-> v, max |-> resolved, verdict |-> get_status(v, th)]
    /\ UNCHANGED <<flavour, th, given, resolved, phase>>

\* usage() has ended the plugin.
Terminated == phase = "exited" /\ UNCHANGED vars

Next ==
    \/ \E l \in Levels, s \in Strings : getopt_wc(l, s)
    \/ ArgumentsDone
    \/ \E max \in Maxes : mp_perfdata_int2(max) \/ mp_perfdata_float2(max)
    \/ mp_perfdata_int
    \/ \E v \in Readings : Judge(v)
    \/ Terminated

Spec == Init /\ [][Next]_vars

-----------------------------------------------------------------------------
(* What the manual page monitoringplug-range says.                         *)

\* A bound in absolute terms, percentages relative to max.
Absolute(b, max) ==
    IF Percent(b) THEN (b.n \div 100) * max ELSE BoundValue(b, flavour.multiplier)

FromValue(g, max) == IF g.str.colon THEN Absolute(g.str.from, max) ELSE 0
ToValue(g, max) == Absolute(g.str.to, max)
FromInfinite(g) == g.str.colon /\ g.str.from.kind = "tilde"
ToInfinite(g) == g.str.to.kind \in {"tilde", "empty"}

\* "A alert is rised if the reading is outside of the defined range.  This can
\* be inverted by prepending the definition with a '@'."  (The options of the
\* _at functions are inverted when they have no colon.)
DocAlert(g, v, max) ==
    LET f == FromValue(g, max)
        t == ToValue(g, max)
        both == ~FromInfinite(g) /\ ~ToInfinite(g)
        inside ==
            /\ FromInfinite(g) \/ v >= f \/ (both /\ v >= t)
            /\ ToInfinite(g) \/ v <= t \/ (both /\ v <= f)
        inverted == g.str.at \/ (flavour.at /\ ~g.str.colon)
    IN  g.set /\ (inside <=> inverted)

DocStatus(v, max) ==
    IF DocAlert(given["critical"], v, max) THEN STATE_CRITICAL
    ELSE IF DocAlert(given["warning"], v, max) THEN STATE_WARNING
    ELSE STATE_OK

\* Resolving the percentages of a range changes neither the order of its bounds
\* nor which of them is the relative one: both or none of them are, or one is
\* infinite, or the range is 0:TO with a TO that is not negative.
HasPercent(g) == g.set /\ ((g.str.colon /\ Percent(g.str.from)) \/ Percent(g.str.to))
Uniform(g) ==
    \/ ~HasPercent(g)
    \/ FromInfinite(g) \/ ToInfinite(g)
    \/ Percent(g.str.to) /\ IF g.str.colon THEN Percent(g.str.from) ELSE g.str.to.n >= 0

\* The verdict of get_status is the documented one for the options as they
\* were last given, whatever was given before them and however often perfdata
\* was added, provided that relative bounds were resolved by then and that the
\* ranges are Uniform.
JudgedAsDocumented ==
    (/\ judged.verdict # -1
     /\ \A l \in Levels : Uniform(given[l]) /\ (HasPercent(given[l]) => judged.max # -1))
    => judged.verdict = DocStatus(judged.reading, judged.max)

-----------------------------------------------------------------------------
(* Why it holds                                                            *)

Legal(s) ==
    /\ s.at \in BOOLEAN /\ s.colon \in BOOLEAN
    /\ \A b \in {s.from, s.to} : b.kind \in {"num", "tilde", "empty", "junk"} /\ b.n \in Int

\* A range as it was given, after its percentages met max, -1: none.
RangeAt(l, max) ==
    LET r == IF given[l].set THEN OptionRange(given[l].str) ELSE Unset
    IN  IF max = -1 THEN r ELSE percent_resolv_range(r, max)

Accepted == {s \in Strings : ~RangeRefused(s)}
IInv ==
    /\ flavour \in [multiplier : Multipliers, at : BOOLEAN]
    /\ given \in [Levels -> {NotGiven} \cup [set : {TRUE}, str : Accepted]]
    /\ resolved \in {-1, 0} \cup Maxes
    /\ phase = "args" => resolved = -1 /\ judged = NotJudged
    /\ th = [l \in Levels |-> RangeAt(l, resolved)]
    /\ \/ judged = NotJudged
       \/ /\ judged.max \in {-1, 0} \cup Maxes /\ judged.reading \in Readings
          /\ judged.verdict = get_status(judged.reading, [l \in Levels |-> RangeAt(l, judged.max)])
=============================================================================
