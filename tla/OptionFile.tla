----------------------------- MODULE OptionFile -----------------------------
(***************************************************************************)
(* lib/mp_getopt.c and lib/mp_eopt.c: the options of every plugin, and those *)
(* of a section of a file that take the place of --eopt.                    *)
(*                                                                         *)
(* An argument has a kind: an option "opt" with its own argument, "eopt" or *)
(* a "word" without a dash.  The section and file that --eopt names are     *)
(* a pair, <<"", "">> if it names none.  A line of a file is a "header", an *)
(* "option", "bare" without an equal sign, "other" (a comment, or less than *)
(* two characters) or "cut": too long, or the end of a file without a       *)
(* newline.                                                                 *)
(***************************************************************************)
EXTENDS Integers, Sequences, SequencesExt

CONSTANTS
    Worlds,     \* the command line and the lines of every file that can be opened
    MaxReads    \* bound: sections read, for one may name itself

VARIABLES
    given,      \* one of Worlds
    todo,       \* the arguments from optind on
    seen,       \* the options the plugin was given, and mp_timeout
    status,     \* sections read
    pc,         \* "parse", "parsed", "crashed" or "usage"
    code        \* exit code, -1 while running

vars == <<given, todo, seen, status, pc, code>>

STATE_OK == 0
STATE_UNKNOWN == 3
NoSpec == <<"", "">>

Init ==
    /\ given \in Worlds
    /\ todo = given.argv
    /\ seen = [opts |-> <<>>, mp_timeout |-> 10]
    /\ status = 0
    /\ pc = "parse"
    /\ code = -1

Leave(s) == pc' = "usage" /\ code' = s

-----------------------------------------------------------------------------
(* mp_eopt                                                                  *)

\* [section][@file]
SectionOf(spec) == IF spec[1] = "" THEN "progname" ELSE spec[1]
FileOf(spec) == IF spec[2] = "" THEN "monitoringplug.ini" ELSE spec[2]

\* An argument that was not given with an equal sign is the next word, if one comes.
Word == todo[1].spec = NoSpec /\ Len(todo) > 1 /\ todo[2].kind = "word"
Spec_eopt == IF Word THEN todo[2].spec ELSE todo[1].spec
Rest == SubSeq(todo, IF Word THEN 3 ELSE 2, Len(todo))

\* Defect: a section lasts until the end of the file.
Line_nosection(f, l, section) ==
    CASE f.end # "" -> f
      [] l.kind = "cut" -> [f EXCEPT !.end = "cut"]
      [] l.kind = "header" -> [f EXCEPT !.current_section = @ \/ l.name = section]
      [] l.kind = "option" /\ f.current_section -> [f EXCEPT !.new_argv = Append(@, l.argument)]
      [] l.kind = "bare" /\ f.current_section -> [f EXCEPT !.end = "crash"]
      [] OTHER -> f

\* One turn of the loop over the lines.  The value of a line without an equal sign is
\* read through a null pointer.
Line(f, l, section) ==
    CASE f.end # "" -> f
      [] l.kind = "cut" -> [f EXCEPT !.end = "cut"]
      [] l.kind = "header" -> [f EXCEPT !.current_section = (l.name = section)]
      [] l.kind = "option" /\ f.current_section -> [f EXCEPT !.new_argv = Append(@, l.argument)]
      [] l.kind = "bare" /\ f.current_section -> [f EXCEPT !.end = "crash"]
      [] OTHER -> f

Read(lines, section) ==
    FoldLeft(LAMBDA f, l : Line(f, l, section),
             [current_section |-> FALSE, new_argv |-> <<>>, end |-> ""], lines)

\* The new arguments come before the rest.  A file that cannot be opened or has a line
\* that is cut leaves everything as it was.  If --eopt is the last argument, the end of
\* the array is read as one more.
mp_eopt ==
    /\ pc = "parse"
    /\ todo # <<>>
    /\ todo[1].kind = "eopt"
    /\ status < MaxReads
    /\ IF todo[1].spec = NoSpec /\ Len(todo) = 1
       THEN pc' = "crashed" /\ UNCHANGED <<todo, status>>
       ELSE IF FileOf(Spec_eopt) \notin DOMAIN given.files
       THEN todo' = Rest /\ UNCHANGED <<status, pc>>
       ELSE LET f == Read(given.files[FileOf(Spec_eopt)], SectionOf(Spec_eopt)) IN
            /\ pc' = IF f.end = "crash" THEN "crashed" ELSE pc
            /\ todo' = IF f.end = "" THEN f.new_argv \o Rest ELSE Rest
            /\ status' = status + 1
    /\ UNCHANGED <<given, seen, code>>

-----------------------------------------------------------------------------
(* mp_getopt                                                                *)

\* An option of every plugin, or one that the caller handles; getopt_long moves words
\* out of the way.  An option that it does not know is the end.
mp_getopt ==
    /\ pc = "parse"
    /\ todo # <<>>
    /\ todo[1].kind # "eopt"
    /\ LET a == todo[1] IN
       CASE a.kind = "word" \/ (a.kind = "opt" /\ a.name = "v") -> UNCHANGED <<seen, pc, code>>
         [] a.kind = "opt" /\ a.name = "?" -> Leave(STATE_UNKNOWN) /\ UNCHANGED seen
         [] a.kind = "opt" /\ a.name \in {"h", "V"} -> Leave(STATE_OK) /\ UNCHANGED seen
         [] a.kind = "opt" /\ a.name = "t" -> seen' = [seen EXCEPT !.mp_timeout = a.arg] /\ UNCHANGED <<pc, code>>
         [] OTHER -> seen' = [seen EXCEPT !.opts = Append(@, a)] /\ UNCHANGED <<pc, code>>
    /\ todo' = Tail(todo)
    /\ UNCHANGED <<given, status>>

Parsed ==
    /\ pc = "parse"
    /\ todo = <<>>
    /\ pc' = "parsed"
    /\ UNCHANGED <<given, todo, seen, status, code>>

Terminated == (pc # "parse" \/ status = MaxReads) /\ UNCHANGED vars

Next == mp_getopt \/ mp_eopt \/ Parsed \/ Terminated
Spec == Init /\ [][Next]_vars
-----------------------------------------------------------------------------
(* Properties                                                               *)

\* The options of a section: those whose nearest header above is the section's.
Under(lines, k, section) ==
    \E h \in 1 .. k - 1 : /\ lines[h].kind = "header" /\ lines[h].name = section
                          /\ \A m \in h + 1 .. k - 1 : lines[m].kind # "header"
OptionsOf(lines, section) ==
    LET at == SelectSeq([k \in DOMAIN lines |-> k],
                        LAMBDA k : lines[k].kind = "option" /\ Under(lines, k, section))
    IN  [k \in DOMAIN at |-> lines[at[k]].argument]
Whole(f) == f \in DOMAIN given.files /\ \A k \in DOMAIN given.files[f] : given.files[f][k].kind # "cut"

\* What argument k of the command line stands for.
Meaning(k) ==
    LET a == given.argv[k]
        spec == IF a.spec = NoSpec /\ k < Len(given.argv) /\ given.argv[k + 1].kind = "word"
                THEN given.argv[k + 1].spec ELSE a.spec
    IN  CASE a.kind = "opt" -> <<a>>
          [] a.kind = "eopt" -> IF Whole(FileOf(spec)) THEN OptionsOf(given.files[FileOf(spec)], SectionOf(spec)) ELSE <<>>
          [] a.kind = "word" -> <<>>
CommandLine == FlattenSeq([k \in DOMAIN given.argv |-> Meaning(k)])
Nested == \E k \in DOMAIN CommandLine : CommandLine[k].kind # "opt"
IsTimeout(a) == a.kind = "opt" /\ a.name = "t"
OfCaller(a) == ~(a.kind = "opt" /\ a.name \in {"t", "v"})

\* Every plugin: an option file counts as a whole or not at all; its section's options
\* stand in the place of --eopt, so that what follows on the command line comes later
\* and wins; the last -t counts wherever it stands.  (doc/monitoringplug-eopt.xml: "they
\* are injectet into the argument string in place of the --eopt.")
OptionsAreHeard ==
    pc = "parsed" /\ ~Nested =>
        LET times == SelectSeq(CommandLine, IsTimeout) IN
        /\ seen.opts = SelectSeq(CommandLine, OfCaller)
        /\ seen.mp_timeout = IF times = <<>> THEN 10 ELSE Last(times).arg
=============================================================================
