--------------------------- MODULE SnmpWalkProofs ---------------------------
(* Proofs about the walk of a table, for every set of objects, every subtree,
   every bound and every agent.  First the order of object identifiers: Less
   is a strict total order, snmp_oidtree_compare is not even transitive.    *)
EXTENDS SnmpWalk, SeqFacts

-----------------------------------------------------------------------------
(* Object identifiers                                                       *)

OID == Seq(Nat)

(* Names are compared number by number. *)
LEMMA PrefixFacts ==
    ASSUME NEW a \in OID, NEW b \in OID
    PROVE  /\ Len(a) \in Nat /\ Len(b) \in Nat
           /\ \A i \in 1 .. Len(a) : a[i] \in Nat
           /\ \A i \in 1 .. Len(b) : b[i] \in Nat
           /\ IsPrefix(a, b) <=> Len(a) <= Len(b) /\ \A i \in 1 .. Len(a) : a[i] = b[i]
           /\ a = b <=> IsPrefix(a, b) /\ IsPrefix(b, a)
  <1>1. /\ Len(a) \in Nat /\ Len(b) \in Nat
        /\ \A i \in 1 .. Len(a) : a[i] \in Nat
        /\ \A i \in 1 .. Len(b) : b[i] \in Nat
    BY TopFacts DEF OID
  <1>2. ASSUME NEW s \in OID, NEW t \in OID, Len(s) <= Len(t)
        PROVE  SubSeq(s, 1, Len(s)) = SubSeq(t, 1, Len(s))
               <=> \A i \in 1 .. Len(s) : s[i] = t[i]
    <2>1. /\ Len(s) \in Nat /\ Len(t) \in Nat
          /\ \A i \in 1 .. Len(s) : s[i] \in Nat
          /\ \A i \in 1 .. Len(t) : t[i] \in Nat
      BY TopFacts DEF OID
    <2> DEFINE u == SubSeq(s, 1, Len(s))
               v == SubSeq(t, 1, Len(s))
               n == Len(s)
    <2>2. /\ u \in Seq(Nat)
          /\ Len(u) = IF 1 <= n THEN n - 1 + 1 ELSE 0
          /\ \A i \in 1 .. n - 1 + 1 : u[i] = s[1 + i - 1]
      BY <2>1, SubSeqProperties
    <2>3. \A i \in 1 .. Len(s) : t[i] \in Nat
      BY <1>2, <2>1
    <2>4. /\ v \in Seq(Nat)
          /\ Len(v) = IF 1 <= n THEN n - 1 + 1 ELSE 0
          /\ \A i \in 1 .. n - 1 + 1 : v[i] = t[1 + i - 1]
      BY <2>1, <2>3, SubSeqProperties
    <2> HIDE DEF u, v, n
    <2>5. n \in Nat
      BY <2>1 DEF n
    <2>6. /\ Len(u) = n /\ \A i \in 1 .. n : u[i] = s[i]
          /\ Len(v) = n /\ \A i \in 1 .. n : v[i] = t[i]
      BY <2>2, <2>4, <2>5
    <2>7. u = v <=> \A i \in 1 .. n : u[i] = v[i]
      BY <2>2, <2>4, <2>6, SeqEqual
    <2> QED
      BY <2>6, <2>7 DEF u, v, n
  <1>3. IsPrefix(a, b) <=> Len(a) <= Len(b) /\ \A i \in 1 .. Len(a) : a[i] = b[i]
    BY <1>1, <1>2 DEF IsPrefix
  <1>4. IsPrefix(b, a) <=> Len(b) <= Len(a) /\ \A i \in 1 .. Len(b) : b[i] = a[i]
    BY <1>1, <1>2 DEF IsPrefix
  <1>5. IsPrefix(a, b) /\ IsPrefix(b, a) => a = b
    <2> HAVE IsPrefix(a, b) /\ IsPrefix(b, a)
    <2>1. Len(a) = Len(b) /\ \A i \in 1 .. Len(a) : a[i] = b[i]
      BY <1>1, <1>3, <1>4
    <2> QED
      BY <2>1, SeqEqual DEF OID
  <1> QED
    BY <1>1, <1>3, <1>4, <1>5

(* a precedes b at place i. *)
At(i, a, b) == /\ i \in 1 .. Len(a) /\ i <= Len(b)
               /\ a[i] < b[i]
               /\ \A j \in 1 .. i - 1 : a[j] = b[j]

(* The two ways to precede. *)
LEMMA LessFacts ==
    ASSUME NEW a \in OID, NEW b \in OID
    PROVE  Less(a, b) <=> \/ IsPrefix(a, b) /\ ~ IsPrefix(b, a)
                          \/ \E i \in Nat : At(i, a, b)
  <1>1. IsStrictPrefix(a, b) <=> IsPrefix(a, b) /\ ~ IsPrefix(b, a)
    BY PrefixFacts DEF IsStrictPrefix
  <1> QED
    BY <1>1 DEF Less, At

(* No name precedes itself or one that it begins with. *)
LEMMA LessIrreflexive ==
    ASSUME NEW a \in OID, NEW b \in OID, IsPrefix(b, a)
    PROVE  ~ Less(a, b)
  <1>1. \A i \in Nat : ~ At(i, a, b)
    BY PrefixFacts DEF At
  <1> QED
    BY <1>1, LessFacts

LEMMA LessTransitive ==
    ASSUME NEW a \in OID, NEW b \in OID, NEW c \in OID, Less(a, b), Less(b, c)
    PROVE  Less(a, c)
  <1>0. /\ Len(a) \in Nat /\ Len(b) \in Nat /\ Len(c) \in Nat
        /\ \A i \in 1 .. Len(a) : a[i] \in Nat
        /\ \A i \in 1 .. Len(b) : b[i] \in Nat
        /\ \A i \in 1 .. Len(c) : c[i] \in Nat
    BY PrefixFacts
  <1>1. CASE IsPrefix(a, b) /\ ~ IsPrefix(b, a) /\ IsPrefix(b, c) /\ ~ IsPrefix(c, b)
    <2>1. IsPrefix(a, c) /\ ~ IsPrefix(c, a)
      BY <1>0, <1>1, PrefixFacts
    <2> QED
      BY <2>1, LessFacts
  <1>2. ASSUME IsPrefix(a, b), NEW i \in Nat, At(i, b, c)
        PROVE  Less(a, c)
    <2>1. CASE i <= Len(a)
      <3>1. At(i, a, c)
        BY <1>0, <1>2, <2>1, PrefixFacts DEF At
      <3> QED
        BY <3>1, LessFacts
    <2>2. CASE i > Len(a)
      <3>1. IsPrefix(a, c) /\ ~ IsPrefix(c, a)
        BY <1>0, <1>2, <2>2, PrefixFacts DEF At
      <3> QED
        BY <3>1, LessFacts
    <2> QED
      BY <1>0, <2>1, <2>2
  <1>3. ASSUME NEW i \in Nat, At(i, a, b), IsPrefix(b, c)
        PROVE  Less(a, c)
    <2>1. At(i, a, c)
      BY <1>0, <1>3, PrefixFacts DEF At
    <2> QED
      BY <2>1, LessFacts
  <1>4. ASSUME NEW i \in Nat, At(i, a, b), NEW k \in Nat, At(k, b, c)
        PROVE  Less(a, c)
    <2>1. CASE i <= k
      <3>1. At(i, a, c)
        BY <1>0, <1>4, <2>1 DEF At
      <3> QED
        BY <3>1, LessFacts
    <2>2. CASE k < i
      <3>1. At(k, a, c)
        BY <1>0, <1>4, <2>2 DEF At
      <3> QED
        BY <3>1, LessFacts
    <2> QED
      BY <2>1, <2>2
  <1> QED
    BY <1>1, <1>2, <1>3, <1>4, LessFacts

(* Names that do not begin with each other differ in some place first. *)
LEMMA LessTotal ==
    ASSUME NEW a \in OID, NEW b \in OID, ~ IsPrefix(a, b), ~ IsPrefix(b, a)
    PROVE  Less(a, b) \/ Less(b, a)
  <1>0. /\ Len(a) \in Nat /\ Len(b) \in Nat
        /\ \A i \in 1 .. Len(a) : a[i] \in Nat
        /\ \A i \in 1 .. Len(b) : b[i] \in Nat
    BY PrefixFacts
  <1> DEFINE D == {i \in Nat : i \in 1 .. Len(a) /\ i <= Len(b) /\ a[i] # b[i]}
  <1>1. D # {}
    <2> SUFFICES ASSUME D = {} PROVE FALSE
      OBVIOUS
    <2>1. \A i \in 1 .. Len(a) : i <= Len(b) => a[i] = b[i]
      BY <1>0
    <2>2. Len(a) <= Len(b) => IsPrefix(a, b)
      BY <1>0, <2>1, PrefixFacts
    <2>3. Len(b) <= Len(a) => IsPrefix(b, a)
      BY <1>0, <2>1, PrefixFacts
    <2> QED
      BY <1>0, <2>2, <2>3
  <1>2. PICK i \in D : \A j \in D : i <= j
    BY <1>1, LeastNat
  <1>3. \A j \in 1 .. i - 1 : a[j] = b[j]
    BY <1>0, <1>2
  <1>4. a[i] < b[i] \/ b[i] < a[i]
    BY <1>0, <1>2
  <1>5. At(i, a, b) \/ At(i, b, a)
    BY <1>0, <1>2, <1>3, <1>4 DEF At
  <1> QED
    BY <1>5, LessFacts

(* What snmp_oidtree_compare says in terms of the order. *)
LEMMA CompareFacts ==
    ASSUME NEW a \in OID, NEW b \in OID
    PROVE  /\ snmp_oidtree_compare(a, b) = 0 <=> IsPrefix(a, b) \/ IsPrefix(b, a)
           /\ snmp_oidtree_compare(a, b) <= 0 <=> IsPrefix(a, b) \/ IsPrefix(b, a) \/ Less(a, b)
           /\ ~ (snmp_oidtree_compare(b, a) < 0) => snmp_oidtree_compare(a, b) <= 0
  BY LessTotal DEF snmp_oidtree_compare

(* The comparison is transitive across a name that is not above the first. *)
LEMMA CompareStep ==
    ASSUME NEW a \in OID, NEW b \in OID, NEW c \in OID,
           snmp_oidtree_compare(a, b) <= 0, ~ IsStrictPrefix(b, a),
           snmp_oidtree_compare(b, c) <= 0
    PROVE  snmp_oidtree_compare(a, c) <= 0
  <1>0. /\ Len(a) \in Nat /\ Len(b) \in Nat /\ Len(c) \in Nat
        /\ \A i \in 1 .. Len(a) : a[i] \in Nat
        /\ \A i \in 1 .. Len(b) : b[i] \in Nat
        /\ \A i \in 1 .. Len(c) : c[i] \in Nat
    BY PrefixFacts
  <1>1. IsPrefix(a, b) \/ \E i \in Nat : At(i, a, b)
    BY CompareFacts, LessFacts, PrefixFacts DEF IsStrictPrefix
  <1>2. IsPrefix(b, c) \/ IsPrefix(c, b) \/ \E i \in Nat : At(i, b, c)
    BY CompareFacts, LessFacts
  <1>3. CASE Less(a, b) /\ Less(b, c)
    BY <1>3, LessTransitive, CompareFacts
  <1>4. CASE IsPrefix(a, b) /\ ~ Less(a, b)
    <2>1. a = b
      BY <1>4, LessFacts, PrefixFacts
    <2> QED
      BY <2>1
  <1>5. CASE IsPrefix(a, b) /\ IsPrefix(c, b)
    <2>1. IsPrefix(a, c) \/ IsPrefix(c, a)
      BY <1>0, <1>5, PrefixFacts
    <2> QED
      BY <2>1, CompareFacts
  <1>6. ASSUME NEW i \in Nat, At(i, a, b), IsPrefix(c, b)
        PROVE  snmp_oidtree_compare(a, c) <= 0
    <2>1. CASE i <= Len(c)
      <3>1. At(i, a, c)
        BY <1>0, <1>6, <2>1, PrefixFacts DEF At
      <3> QED
        BY <3>1, LessFacts, CompareFacts
    <2>2. CASE i > Len(c)
      <3>1. IsPrefix(c, a)
        BY <1>0, <1>6, <2>2, PrefixFacts DEF At
      <3> QED
        BY <3>1, CompareFacts
    <2> QED
      BY <1>0, <2>1, <2>2
  <1>7. CASE b = c
    BY <1>7
  <1>8. IsPrefix(b, c) /\ b # c => Less(b, c)
    BY LessFacts, PrefixFacts
  <1>9. (\E i \in Nat : At(i, a, b)) => Less(a, b)
    BY LessFacts
  <1>10. (\E i \in Nat : At(i, b, c)) => Less(b, c)
    BY LessFacts
  <1> QED
    BY <1>1, <1>2, <1>3, <1>4, <1>5, <1>6, <1>7, <1>8, <1>9, <1>10

(* An object behind one of the table, and not outside the table, is in it. *)
LEMMA InsideFacts ==
    ASSUME NEW s \in OID, NEW l \in OID, NEW x \in OID,
           IsPrefix(s, l), Less(l, x), snmp_oidtree_compare(s, x) = 0
    PROVE  IsStrictPrefix(s, x)
  <1>1. IsPrefix(s, x) \/ IsPrefix(x, s)
    BY CompareFacts
  <1>2. ~ IsPrefix(x, s)
    <2> SUFFICES ASSUME IsPrefix(x, s) PROVE FALSE
      OBVIOUS
    <2>1. IsPrefix(x, l)
      BY PrefixFacts
    <2> QED
      BY <2>1, LessIrreflexive
  <1> QED
    BY <1>1, <1>2, PrefixFacts DEF IsStrictPrefix

(* The first object outside the table is behind all of the table. *)
LEMMA OutsideFacts ==
    ASSUME NEW s \in OID, NEW l \in OID, NEW x \in OID, NEW o \in OID,
           IsPrefix(s, l), Less(l, x), snmp_oidtree_compare(s, x) # 0, IsPrefix(s, o)
    PROVE  Less(o, x)
  <1>0. /\ Len(s) \in Nat /\ Len(l) \in Nat /\ Len(x) \in Nat /\ Len(o) \in Nat
    BY PrefixFacts
  <1>1. ~ IsPrefix(s, x) /\ ~ IsPrefix(x, s)
    BY CompareFacts
  <1>2. ~ IsPrefix(l, x)
    BY <1>0, <1>1, PrefixFacts
  <1>3. PICK i \in Nat : At(i, l, x)
    BY <1>2, LessFacts
  <1>4. i <= Len(s)
    <2> SUFFICES ASSUME i > Len(s) PROVE FALSE
      BY <1>0, <1>3
    <2>1. IsPrefix(s, x)
      BY <1>0, <1>3, PrefixFacts DEF At
    <2> QED
      BY <2>1, <1>1
  <1>5. /\ Len(s) <= Len(o) /\ \A j \in 1 .. Len(s) : s[j] = o[j]
        /\ Len(s) <= Len(l) /\ \A j \in 1 .. Len(s) : s[j] = l[j]
    BY PrefixFacts
  <1>6. At(i, o, x)
    BY <1>0, <1>3, <1>4, <1>5 DEF At
  <1> QED
    BY <1>6, LessFacts

-----------------------------------------------------------------------------
(* The walk                                                                 *)

(* Names of objects are object identifiers. *)
LEMMA NameFacts ==
    ASSUME TypeOK
    PROVE  /\ Subtree \in OID /\ OIDs \subseteq OID /\ last_oid \in OID
           /\ always \subseteq OID /\ ever \subseteq OID
           /\ response.variables \in Seq(Variable)
           /\ Len(response.variables) \in Nat
           /\ DOMAIN response.variables = 1 .. Len(response.variables)
           /\ \A i \in 1 .. Len(response.variables) :
                 /\ response.variables[i] \in Variable
                 /\ response.variables[i].name \in OID
                 /\ response.variables[i].type \in {"value", "endOfMibView"}
           /\ Len(subtree) \in Nat /\ DOMAIN subtree = 1 .. Len(subtree)
           /\ subtree = <<>> <=> Len(subtree) = 0
           /\ \A i \in 1 .. Len(subtree) : subtree[i].name \in OID
  <1>1. /\ Subtree \in OID /\ OIDs \subseteq OID /\ last_oid \in OID
        /\ always \subseteq OID /\ ever \subseteq OID
        /\ response.variables \in Seq(Variable) /\ subtree \in Seq(Variable)
    BY WalkAssumption DEF OID, TypeOK
  <1>2. /\ Len(response.variables) \in Nat
        /\ DOMAIN response.variables = 1 .. Len(response.variables)
        /\ \A i \in 1 .. Len(response.variables) : response.variables[i] \in Variable
    BY <1>1, TopFacts
  <1>3. /\ Len(subtree) \in Nat /\ DOMAIN subtree = 1 .. Len(subtree)
        /\ subtree = <<>> <=> Len(subtree) = 0
        /\ \A i \in 1 .. Len(subtree) : subtree[i] \in Variable
    BY <1>1, TopFacts
  <1>4. \A v \in Variable : v.name \in OID /\ v.type \in {"value", "endOfMibView"}
    BY DEF Variable, OID
  <1> QED
    BY <1>1, <1>2, <1>3, <1>4

(* A step that leaves the rows alone preserves the invariant if the answer it
   brings is the next one and the walk does not end with less than the table. *)
LEMMA SameRows ==
    ASSUME IInv, TypeOK', UNCHANGED <<agent, last_oid, subtree>>,
           always' \subseteq always, ever \subseteq ever',
           agent = "conforming" => AnswerIsNext',
           Underway',
           Finished' /\ agent = "conforming" => always' \cap Table \subseteq Names
    PROVE  IInv'
  <1>1. LastIsLast' /\ NeverBackwards'
    BY DEF IInv, LastIsLast, NeverBackwards
  <1>2. Names' = Names
    BY DEF Names
  <1>3. Conforms'
    <2> SUFFICES ASSUME agent = "conforming"
                 PROVE  AnswerIsNext' /\ NothingSkipped' /\ RowsAreObjects' /\ RowsAreSorted'
      BY DEF Conforms
    <2>1. NothingSkipped /\ RowsAreObjects /\ RowsAreSorted
      BY DEF IInv, Conforms
    <2>2. NothingSkipped'
      BY <2>1, <1>2 DEF NothingSkipped
    <2>3. RowsAreObjects'
      BY <2>1, <1>2 DEF RowsAreObjects
    <2>4. RowsAreSorted'
      BY <2>1 DEF RowsAreSorted
    <2> QED
      BY <2>2, <2>3, <2>4
  <1>4. TableIsComplete'
    BY <1>2, <1>3 DEF TableIsComplete, Conforms, RowsAreObjects
  <1> QED
    BY <1>1, <1>3, <1>4 DEF IInv

(* A step that ends nothing and brings no answer. *)
LEMMA SilentStep ==
    ASSUME IInv, TypeOK', UNCHANGED <<agent, last_oid, subtree>>,
           always' \subseteq always, ever \subseteq ever',
           pc' # "response", Underway', pc' = "done" => rc' = STAT_ERROR
    PROVE  IInv'
  <1>1. AnswerIsNext'
    BY DEF AnswerIsNext
  <1>2. ~ Finished'
    BY DEF Finished, STAT_SUCCESS, STAT_ERROR
  <1> QED
    BY <1>1, <1>2, SameRows

(* Steps without an answer: the agent's objects change, a request is sent, the
   answer is lost, the loop goes on, an error or a wrong order ends it. *)
LEMMA SilentSteps ==
    ASSUME IInv,
           \/ \E o \in OIDs : Change(o)
           \/ Request \/ Lost \/ NotIncreasing \/ NextRequest \/ EndOfTree \/ OtherError
    PROVE  IInv'
  <1>0. TypeOK /\ Underway
    BY DEF IInv
  <1>1. ASSUME NEW o \in OIDs, Change(o) PROVE IInv'
    <2>1. TypeOK'
      BY <1>0, <1>1, WalkAssumption DEF TypeOK, Change, session
    <2> QED
      BY <1>0, <1>1, <2>1, SilentStep DEF Change, session, Underway
  <1>2. CASE Request
    <2>1. NoResponse \in [errstat : {-1, NOERROR, NOSUCHNAME, GENERR}, variables : Seq(Variable)]
      BY EmptySeq DEF NoResponse
    <2>2. TypeOK'
      BY <1>0, <1>2, <2>1 DEF TypeOK, Request, session, objects
    <2> QED
      BY <1>0, <1>2, <2>2, SilentStep DEF Request, session, objects, Underway
  <1>3. CASE Lost
    <2>1. TypeOK'
      BY <1>0, <1>3 DEF TypeOK, Lost, session, objects
    <2> QED
      BY <1>0, <1>3, <2>1, SilentStep DEF Lost, session, objects, Underway
  <1>4. CASE NotIncreasing \/ NextRequest \/ EndOfTree \/ OtherError
    <2>1. TypeOK'
      BY <1>0, <1>4 DEF TypeOK, NotIncreasing, NextRequest, EndOfTree, OtherError, OtherFailure, session, objects
    <2> QED
      BY <1>0, <1>4, <2>1, SilentStep
         DEF NotIncreasing, NextRequest, EndOfTree, OtherError, OtherFailure, session, objects, Underway
  <1> QED
    BY <1>1, <1>2, <1>3, <1>4

(* An answer without variables, or from an agent that is broken. *)
LEMMA ReceiveStep ==
    ASSUME IInv, NEW vs \in Seq(Variable), NEW e \in {NOERROR, NOSUCHNAME, GENERR},
           Receive([errstat |-> e, variables |-> vs]), madeup' \in 0 .. MaxEvents,
           agent = "conforming" => AnswerIsNext'
    PROVE  IInv'
  <1>0. TypeOK /\ Underway
    BY DEF IInv
  <1>1. TypeOK'
    BY <1>0 DEF TypeOK, Receive, session, objects
  <1>2. ~ Finished'
    BY DEF Finished, Receive
  <1>3. Underway'
    BY <1>0 DEF Underway, Receive
  <1> QED
    BY <1>1, <1>2, <1>3, SameRows DEF Receive, session, objects

(* What makes a new answer of a conforming agent the next one. *)
LEMMA NewAnswer ==
    ASSUME IInv, NEW vs \in Seq(Variable), NEW e \in {NOERROR, NOSUCHNAME, GENERR},
           Receive([errstat |-> e, variables |-> vs]),
           \A i \in 1 .. Len(vs) : vs[i].type = "value" => vs[i].name \in ever /\ Less(last_oid, vs[i].name),
           \A i, j \in 1 .. Len(vs) : i < j /\ vs[j].type = "value" =>
                    vs[i].type = "value" /\ Less(vs[i].name, vs[j].name),
           \A o \in always : Less(last_oid, o) =>
                    \/ \E i \in 1 .. Len(vs) : vs[i] = Value(o)
                    \/ \A i \in 1 .. Len(vs) : vs[i].type = "value" /\ Less(vs[i].name, o)
    PROVE  AnswerIsNext'
  <1>1. nextvar' = 1 /\ response'.variables = vs /\ UNCHANGED <<last_oid, always, ever>>
    BY DEF IInv, Underway, Receive, objects
  <1>2. Ahead' = 1 .. Len(vs)
    BY <1>1 DEF Ahead
  <1> QED
    BY <1>1, <1>2 DEF AnswerIsNext

(* Answers without variables. *)
LEMMA FailureStep ==
    ASSUME IInv, NEW e \in {NOSUCHNAME, GENERR}, Receive(Failure(e)), UNCHANGED madeup
    PROVE  IInv'
  <1>0. madeup' \in 0 .. MaxEvents
    BY DEF IInv, TypeOK
  <1>1. <<>> \in Seq(Variable) /\ Len(<<>>) = 0
    BY EmptySeq
  <1>2. Receive([errstat |-> e, variables |-> <<>>])
    BY DEF Failure
  <1>3. 1 .. Len(<<>>) = {}
    BY <1>1
  <1>4. AnswerIsNext'
    BY <1>1, <1>2, <1>3, NewAnswer
  <1> QED
    BY <1>0, <1>1, <1>2, <1>4, ReceiveStep

(* SNMP v1: the next object of those there are now. *)
LEMMA GetNextStep ==
    ASSUME IInv, GetNext
    PROVE  IInv'
  <1>0. TypeOK /\ madeup' \in 0 .. MaxEvents
    BY DEF IInv, TypeOK, GetNext
  <1>1. CASE Receive(Failure(NOSUCHNAME))
    BY <1>1, FailureStep DEF GetNext
  <1>2. ASSUME NEW s \in Successors(last_oid), Firsts(last_oid, <<s>>), Receive(Answer(<<Value(s)>>))
        PROVE  IInv'
    <2>1. s \in OID /\ s \in ever /\ Less(last_oid, s)
      BY <1>0, <1>2, NameFacts DEF Successors, TypeOK
    <2>2. Value(s) \in Variable
      BY <2>1 DEF Value, Variable, OID
    <2> DEFINE vs == <<Value(s)>>
    <2>3. vs \in Seq(Variable) /\ Len(vs) = 1 /\ vs[1] = Value(s)
      BY <2>2
    <2>4. Value(s).type = "value" /\ Value(s).name = s
      BY DEF Value
    <2>5. Receive([errstat |-> NOERROR, variables |-> vs])
      BY <1>2 DEF Answer
    <2>6. \A o \in always : Less(last_oid, o) => o = s \/ Less(s, o)
      <3> TAKE o \in always
      <3> HAVE Less(last_oid, o)
      <3>1. o \in Successors(last_oid)
        BY <1>0 DEF TypeOK, Successors
      <3> QED
        BY <1>2, <3>1 DEF Firsts, Range
    <2> HIDE DEF vs
    <2>7. AnswerIsNext'
      <3>1. 1 .. Len(vs) = {1}
        BY <2>3
      <3>2. \A i \in 1 .. Len(vs) : vs[i].type = "value" => vs[i].name \in ever /\ Less(last_oid, vs[i].name)
        BY <3>1, <2>1, <2>3, <2>4
      <3>3. \A i, j \in 1 .. Len(vs) : ~ (i < j)
        BY <3>1
      <3>4. \A o \in always : Less(last_oid, o) =>
                    \/ \E i \in 1 .. Len(vs) : vs[i] = Value(o)
                    \/ \A i \in 1 .. Len(vs) : vs[i].type = "value" /\ Less(vs[i].name, o)
        BY <3>1, <2>3, <2>4, <2>6
      <3> QED
        BY <2>3, <2>5, <3>2, <3>3, <3>4, NewAnswer
    <2> QED
      BY <1>0, <2>3, <2>5, <2>7, ReceiveStep
  <1> QED
    BY <1>1, <1>2 DEF GetNext

(* GETBULK: the next ones, and endOfMibView only behind the last. *)
LEMMA GetBulkStep ==
    ASSUME IInv, GetBulk
    PROVE  IInv'
  <1>0. TypeOK /\ madeup' \in 0 .. MaxEvents
    BY DEF IInv, TypeOK, GetBulk
  <1> DEFINE Said(n, m, after) ==
              /\ Firsts(last_oid, after)
              /\ m < n => Successors(last_oid) \subseteq Range(after)
              /\ Receive(Answer([i \in 1 .. n |->
                    IF i <= m THEN Value(after[i])
                              ELSE EndOfMibView(IF m = 0 THEN last_oid ELSE after[m])]))
  <1>a. PICK n \in 1 .. MaxRepetitions : \E m \in 0 .. n :
          \E after \in [1 .. m -> Successors(last_oid)] : Said(n, m, after)
    BY DEF GetBulk
  <1>b. PICK m \in 0 .. n : \E after \in [1 .. m -> Successors(last_oid)] : Said(n, m, after)
    BY <1>a
  <1>1. PICK after \in [1 .. m -> Successors(last_oid)] : Said(n, m, after)
    BY <1>b
  <1> DEFINE end == IF m = 0 THEN last_oid ELSE after[m]
             vs == [i \in 1 .. n |-> IF i <= m THEN Value(after[i]) ELSE EndOfMibView(end)]
  <1>2. n \in Nat /\ m \in Nat /\ m <= n
    BY <1>1, WalkAssumption
  <1>3. \A i \in 1 .. m : after[i] \in OID /\ after[i] \in ever /\ Less(last_oid, after[i])
    BY <1>0, <1>1, NameFacts DEF Successors, TypeOK
  <1>4. end \in OID
    BY <1>0, <1>2, <1>3, NameFacts
  <1>5. \A o \in OID : Value(o) \in Variable /\ EndOfMibView(o) \in Variable
    BY DEF Value, EndOfMibView, Variable, OID
  <1>6. \A o : /\ Value(o).type = "value" /\ Value(o).name = o
               /\ EndOfMibView(o).type # "value"
    BY DEF Value, EndOfMibView
  <1>7. Receive([errstat |-> NOERROR, variables |-> vs])
    BY <1>1 DEF Answer
  <1> HIDE DEF end
  <1>8. \A i \in 1 .. n : vs[i] \in Variable
    BY <1>2, <1>3, <1>4, <1>5
  <1>9. vs \in Seq(Variable) /\ Len(vs) = n
    BY <1>2, <1>8
  <1>10. /\ \A i \in 1 .. m : vs[i] = Value(after[i])
         /\ \A i \in 1 .. n : vs[i].type = "value" => i \in 1 .. m
    BY <1>2, <1>6
  <1> HIDE DEF vs
  <1>11. \A i \in 1 .. Len(vs) : vs[i].type = "value" => vs[i].name \in ever /\ Less(last_oid, vs[i].name)
    BY <1>3, <1>6, <1>9, <1>10
  <1>12. \A i, j \in 1 .. m : i < j => Less(after[i], after[j])
    BY <1>1 DEF Firsts
  <1>13. \A i, j \in 1 .. Len(vs) : i < j /\ vs[j].type = "value" =>
                    vs[i].type = "value" /\ Less(vs[i].name, vs[j].name)
    <2> TAKE i, j \in 1 .. Len(vs)
    <2> HAVE i < j /\ vs[j].type = "value"
    <2>1. i \in 1 .. m /\ j \in 1 .. m
      BY <1>2, <1>9, <1>10
    <2> QED
      BY <2>1, <1>6, <1>10, <1>12
  <1>14. \A o \in always : Less(last_oid, o) =>
                    \/ \E i \in 1 .. Len(vs) : vs[i] = Value(o)
                    \/ \A i \in 1 .. Len(vs) : vs[i].type = "value" /\ Less(vs[i].name, o)
    <2> TAKE o \in always
    <2> HAVE Less(last_oid, o)
    <2>1. o \in Successors(last_oid)
      BY <1>0 DEF TypeOK, Successors
    <2>2. CASE o \in Range(after)
      <3>1. PICK i \in 1 .. m : after[i] = o
        BY <1>1, <2>2 DEF Range
      <3> QED
        BY <1>2, <1>9, <1>10, <3>1
    <2>3. CASE o \notin Range(after)
      <3>1. m = n /\ \A i \in 1 .. m : Less(after[i], o)
        BY <1>1, <1>2, <2>1, <2>3 DEF Firsts
      <3> QED
        BY <3>1, <1>6, <1>9, <1>10
    <2> QED
      BY <2>2, <2>3
  <1>15. AnswerIsNext'
    BY <1>7, <1>9, <1>11, <1>13, <1>14, NewAnswer
  <1> QED
    BY <1>0, <1>7, <1>9, <1>15, ReceiveStep

(* A broken agent answers anything; only one that is broken does. *)
LEMMA MadeUpStep ==
    ASSUME IInv, NEW o \in OIDs, MadeUp(o)
    PROVE  IInv'
  <1>0. TypeOK /\ madeup' \in 0 .. MaxEvents /\ agent # "conforming"
    BY WalkAssumption DEF IInv, TypeOK, MadeUp
  <1>1. Value(o) \in Variable
    BY <1>0, NameFacts DEF Value, Variable, OID
  <1>2. <<Value(o)>> \in Seq(Variable)
    BY <1>1
  <1>3. Receive([errstat |-> NOERROR, variables |-> <<Value(o)>>])
    BY DEF MadeUp, Answer
  <1> QED
    BY <1>0, <1>2, <1>3, ReceiveStep

(* A walk that leaves the table has fetched all of it: a steady object that is
   not fetched is ahead of the walk and so in front of the end of the view, or
   of the first object outside. *)
LEMMA LeaveStep ==
    ASSUME IInv, Leave
    PROVE  IInv'
  <1>0. TypeOK /\ Underway /\ Conforms
    BY DEF IInv
  <1>1. TypeOK'
    BY <1>0 DEF TypeOK, Leave, session, objects
  <1>2. AnswerIsNext'
    BY DEF AnswerIsNext, Leave
  <1>3. Underway'
    BY DEF Underway, Leave
  <1>4. ASSUME agent = "conforming", NEW o \in always \cap Table PROVE o \in Names
    <2> DEFINE vs == response.variables
    <2>1. AnswerIsNext /\ NothingSkipped /\ RowsAreObjects
      BY <1>0, <1>4 DEF Conforms
    <2> SUFFICES ASSUME Less(last_oid, o) PROVE FALSE
      BY <2>1 DEF NothingSkipped
    <2>2. /\ nextvar \in Ahead /\ nextvar \in 1 .. Len(vs)
          /\ Current = vs[nextvar] /\ ~ Backwards /\ Outside /\ pc = "response"
      BY <1>0, NameFacts DEF Leave, Ahead, TypeOK, Current
    <2>3. /\ o \in OID /\ IsPrefix(Subtree, o) /\ o \in always
          /\ last_oid \in OID /\ Subtree \in OID /\ IsPrefix(Subtree, last_oid)
          /\ vs[nextvar].name \in OID
      BY <1>0, <1>4, <2>1, <2>2, NameFacts DEF Table, IsStrictPrefix, RowsAreObjects
    <2>4. \/ \E i \in Ahead : vs[i] = Value(o)
          \/ \A i \in Ahead : vs[i].type = "value" /\ Less(vs[i].name, o)
      BY <2>1, <2>2, <2>3 DEF AnswerIsNext
    <2>5. Value(o).type = "value" /\ Value(o).name = o
      BY DEF Value
    <2>6. \A i \in Ahead : i = nextvar \/ nextvar < i
      BY <1>0, NameFacts DEF Ahead, TypeOK
    <2>7. ASSUME NEW i \in Ahead, vs[i] = Value(o)
          PROVE  /\ vs[nextvar].type = "value"
                 /\ vs[nextvar].name = o \/ Less(vs[nextvar].name, o)
      <3>1. CASE i = nextvar
        BY <3>1, <2>5, <2>7
      <3>2. CASE nextvar < i
        BY <3>2, <2>1, <2>2, <2>5, <2>7 DEF AnswerIsNext
      <3> QED
        BY <3>1, <3>2, <2>6
    <2>8. /\ vs[nextvar].type = "value"
          /\ vs[nextvar].name = o \/ Less(vs[nextvar].name, o)
      BY <2>2, <2>4, <2>7
    <2>9. snmp_oidtree_compare(Subtree, vs[nextvar].name) # 0 /\ Less(last_oid, vs[nextvar].name)
      BY <2>1, <2>2, <2>8 DEF Outside, AnswerIsNext
    <2>10. Less(o, vs[nextvar].name)
      BY <2>3, <2>9, OutsideFacts
    <2>11. Less(o, o)
      BY <2>3, <2>8, <2>10, LessTransitive
    <2>12. IsPrefix(o, o)
      BY <2>3, PrefixFacts
    <2> QED
      BY <2>3, <2>11, <2>12, LessIrreflexive
  <1> QED
    BY <1>1, <1>2, <1>3, <1>4, SameRows DEF Leave, session, objects

(* One more row. *)
LEMMA RowAdded ==
    ASSUME TypeOK, Collect
    PROVE  /\ Current \in Variable /\ Current.name \in OID
           /\ subtree' \in Seq(Variable) /\ Len(subtree') = Len(subtree) + 1
           /\ DOMAIN subtree' = 1 .. Len(subtree) + 1
           /\ \A i \in 1 .. Len(subtree) : subtree'[i] = subtree[i]
           /\ subtree'[Len(subtree) + 1] = Current
           /\ Names' = Names \cup {Current.name}
           /\ TypeOK'
           /\ Ahead' = Ahead \ {nextvar} /\ nextvar \in Ahead
  <1>1. /\ nextvar \in 1 .. Len(response.variables) /\ nextvar \in Nat
        /\ Len(response.variables) \in Nat
    BY NameFacts DEF TypeOK, Collect
  <1>2. Current \in Variable /\ Current.name \in OID
    BY <1>1, NameFacts DEF Current
  <1>3. subtree \in Seq(Variable) /\ subtree' = Append(subtree, Current)
    BY DEF TypeOK, Collect
  <1>4. /\ subtree' \in Seq(Variable) /\ Len(subtree') = Len(subtree) + 1
        /\ \A i \in 1 .. Len(subtree) : subtree'[i] = subtree[i]
        /\ subtree'[Len(subtree) + 1] = Current
    BY <1>2, <1>3, AppendProperties
  <1>5. Len(subtree) \in Nat /\ DOMAIN subtree = 1 .. Len(subtree)
    BY NameFacts
  <1>6. DOMAIN subtree' = 1 .. Len(subtree) + 1
    BY <1>4, TopFacts
  <1>7. Names' = Names \cup {Current.name}
    BY <1>4, <1>5, <1>6 DEF Names
  <1>8. TypeOK'
    BY <1>1, <1>2, <1>4 DEF TypeOK, Collect, session, objects, OID
  <1>9. Ahead' = Ahead \ {nextvar} /\ nextvar \in Ahead
    BY <1>1 DEF Ahead, Collect
  <1> QED
    BY <1>2, <1>4, <1>6, <1>7, <1>8, <1>9

(* A row that the comparison does not refuse. *)
LEMMA CollectKeepsOrder ==
    ASSUME IInv, Collect
    PROVE  LastIsLast' /\ NeverBackwards'
  <1> DEFINE n == Len(subtree)
             c == Current.name
             Fine(i, j) == \/ snmp_oidtree_compare(subtree'[i].name, subtree'[j].name) <= 0
                           \/ \E k \in i + 1 .. j - 1 : IsStrictPrefix(subtree'[k].name, subtree'[i].name)
  <1>0. TypeOK /\ LastIsLast /\ NeverBackwards
    BY DEF IInv
  <1>1. /\ c \in OID /\ n \in Nat /\ DOMAIN subtree = 1 .. n /\ DOMAIN subtree' = 1 .. n + 1
        /\ Len(subtree') = n + 1
        /\ \A i \in 1 .. n : subtree'[i] = subtree[i] /\ subtree[i].name \in OID
        /\ subtree'[n + 1].name = c
        /\ subtree = <<>> <=> n = 0
        /\ Subtree \in OID /\ last_oid \in OID
    BY <1>0, RowAdded, NameFacts
  <1>2. subtree' # <<>>
    BY <1>0, <1>1, RowAdded
  <1>3. LastIsLast'
    BY <1>1, <1>2 DEF LastIsLast, Collect
  <1>4. \A i \in DOMAIN subtree' : snmp_oidtree_compare(Subtree, subtree'[i].name) = 0
    <2>1. snmp_oidtree_compare(Subtree, c) = 0
      BY DEF Collect, Outside
    <2>2. \A i \in 1 .. n : snmp_oidtree_compare(Subtree, subtree[i].name) = 0
      BY <1>0, <1>1 DEF NeverBackwards
    <2> HIDE DEF n, c
    <2>3. \A i \in 1 .. n + 1 : i \in 1 .. n \/ i = n + 1
      BY <1>1
    <2> QED
      BY <1>1, <2>1, <2>2, <2>3
  <1>5. snmp_oidtree_compare(last_oid, c) <= 0
    <2>1. ~ (snmp_oidtree_compare(c, last_oid) < 0)
      BY DEF Collect, Backwards
    <2> QED
      BY <1>1, <2>1, CompareFacts
  <1>6. \A i, j \in 1 .. n : i < j =>
          \/ snmp_oidtree_compare(subtree[i].name, subtree[j].name) <= 0
          \/ \E k \in i + 1 .. j - 1 : IsStrictPrefix(subtree[k].name, subtree[i].name)
    BY <1>0, <1>1 DEF NeverBackwards
  <1>7. n > 0 => last_oid = subtree[n].name
    BY <1>0, <1>1 DEF LastIsLast
  <1> HIDE DEF n, c
  <1>8. ASSUME NEW i \in 1 .. n, NEW j \in 1 .. n, i < j PROVE Fine(i, j)
    <2>1. \A k \in i + 1 .. j - 1 : k \in 1 .. n
      BY <1>1, <1>8
    <2> QED
      BY <1>1, <1>6, <1>8, <2>1
  <1>9. ASSUME NEW i \in 1 .. n PROVE Fine(i, n + 1)
    <2>0. /\ n \in 1 .. n /\ subtree'[n].name = last_oid /\ subtree'[n + 1].name = c
          /\ subtree'[i].name \in OID
      BY <1>1, <1>7
    <2>1. CASE i = n
      BY <2>0, <2>1, <1>5
    <2>2. CASE i < n /\ \E k \in i + 1 .. n - 1 : IsStrictPrefix(subtree'[k].name, subtree'[i].name)
      <3>1. PICK k \in i + 1 .. n - 1 : IsStrictPrefix(subtree'[k].name, subtree'[i].name)
        BY <2>2
      <3>2. k \in i + 1 .. (n + 1) - 1
        BY <1>1, <3>1
      <3> QED
        BY <3>1, <3>2
    <2>3. CASE i < n /\ IsStrictPrefix(last_oid, subtree'[i].name)
      <3>1. n \in i + 1 .. (n + 1) - 1
        BY <1>1, <2>3
      <3> QED
        BY <2>0, <2>3, <3>1
    <2>4. CASE /\ i < n /\ snmp_oidtree_compare(subtree'[i].name, last_oid) <= 0
               /\ ~ IsStrictPrefix(last_oid, subtree'[i].name)
      BY <2>0, <2>4, <1>1, <1>5, CompareStep
    <2>5. i < n => Fine(i, n)
      BY <1>8, <2>0
    <2> QED
      BY <1>1, <2>0, <2>1, <2>2, <2>3, <2>4, <2>5
  <1>10. \A i, j \in 1 .. n + 1 : i < j => Fine(i, j)
    <2> HIDE DEF Fine
    <2>1. \A i, j \in 1 .. n + 1 : i < j => i \in 1 .. n /\ (j \in 1 .. n \/ j = n + 1)
      BY <1>1
    <2> QED
      BY <2>1, <1>8, <1>9
  <1> QED
    BY <1>1, <1>3, <1>4, <1>10 DEF NeverBackwards

(* A row of a conforming agent. *)
LEMMA CollectConforms ==
    ASSUME IInv, Collect
    PROVE  Conforms'
  <1> DEFINE n == Len(subtree)
             c == Current.name
             vs == response.variables
  <1>0. TypeOK /\ LastIsLast
    BY DEF IInv
  <1> SUFFICES ASSUME agent = "conforming"
               PROVE  AnswerIsNext' /\ NothingSkipped' /\ RowsAreObjects' /\ RowsAreSorted'
    BY DEF Conforms, Collect, session
  <1>1. AnswerIsNext /\ NothingSkipped /\ RowsAreObjects /\ RowsAreSorted
    BY DEF IInv, Conforms
  <1>2. /\ vs' = vs /\ last_oid' = c /\ pc = "response" /\ UNCHANGED <<always, ever>>
        /\ Current = vs[nextvar] /\ c = vs[nextvar].name
        /\ Current.type = "value" /\ snmp_oidtree_compare(Subtree, c) = 0
        /\ Ahead' = Ahead \ {nextvar} /\ nextvar \in Ahead
        /\ Ahead \subseteq 1 .. Len(vs)
        /\ \A i \in Ahead' : i \in Ahead /\ nextvar < i
    <2>1. Current \in Variable /\ Ahead' = Ahead \ {nextvar} /\ nextvar \in Ahead
      BY <1>0, RowAdded
    <2>2. Current.type = "value" /\ snmp_oidtree_compare(Subtree, c) = 0
      BY <2>1 DEF Collect, Outside, Variable
    <2>3. /\ vs' = vs /\ last_oid' = c /\ pc = "response" /\ UNCHANGED <<always, ever>>
          /\ Current = vs[nextvar]
      BY DEF Collect, objects, Current
    <2>4. Ahead \subseteq 1 .. Len(vs) /\ \A i \in Ahead \ {nextvar} : nextvar < i
      BY <1>0, NameFacts DEF Ahead, TypeOK
    <2> QED
      BY <2>1, <2>2, <2>3, <2>4
  <1>3. /\ Less(last_oid, c) /\ c \in ever /\ c \in OID /\ c \in OIDs
        /\ last_oid \in OID /\ Subtree \in OID
    BY <1>0, <1>1, <1>2, NameFacts DEF AnswerIsNext, TypeOK
  <1>4. \A i \in Ahead : vs[i].name \in OID
    BY <1>0, <1>2, NameFacts
  <1>5. \A o : Value(o).type = "value" /\ Value(o).name = o
    BY DEF Value
  <1> HIDE DEF c, vs
  <1>6. \A i \in Ahead' : vs[i].type = "value" => Less(c, vs[i].name) /\ vs[i].name \in ever
    BY <1>1, <1>2 DEF AnswerIsNext, vs
  <1>7. ASSUME NEW o \in always, Less(last_oid, o)
        PROVE  \/ \E i \in Ahead' : vs[i] = Value(o)
               \/ (\A i \in Ahead' : vs[i].type = "value" /\ Less(vs[i].name, o)) /\ Less(c, o)
               \/ o = c
    <2>1. \/ \E i \in Ahead : vs[i] = Value(o)
          \/ \A i \in Ahead : vs[i].type = "value" /\ Less(vs[i].name, o)
      BY <1>1, <1>2, <1>7 DEF AnswerIsNext, vs
    <2> QED
      BY <2>1, <1>2, <1>5
  <1>8. AnswerIsNext'
    <2>1. \A i, j \in Ahead' : i < j /\ vs[j].type = "value" =>
                    vs[i].type = "value" /\ Less(vs[i].name, vs[j].name)
      BY <1>1, <1>2 DEF AnswerIsNext, vs
    <2>2. ASSUME NEW o \in always, Less(c, o)
          PROVE  \/ \E i \in Ahead' : vs[i] = Value(o)
                 \/ \A i \in Ahead' : vs[i].type = "value" /\ Less(vs[i].name, o)
      <3>1. o \in OID
        BY <1>0, NameFacts
      <3>2. Less(last_oid, o)
        BY <1>3, <2>2, <3>1, LessTransitive
      <3>3. o # c
        BY <1>3, <2>2, LessIrreflexive, PrefixFacts
      <3> QED
        BY <1>7, <3>2, <3>3
    <2> QED
      BY <1>2, <1>6, <2>1, <2>2 DEF AnswerIsNext, vs
  <1>9. Names' = Names \cup {c}
    BY <1>0, RowAdded DEF c
  <1>10. NothingSkipped'
    <2> SUFFICES ASSUME NEW o \in always \cap Table, o \notin Names, o # c
                 PROVE  Less(c, o)
      BY <1>2, <1>9 DEF NothingSkipped
    <2>1. Less(last_oid, o)
      BY <1>1 DEF NothingSkipped
    <2> QED
      BY <2>1, <1>5, <1>6, <1>7
  <1>11. RowsAreObjects'
    <2>1. IsStrictPrefix(Subtree, c)
      BY <1>1, <1>2, <1>3, InsideFacts DEF RowsAreObjects
    <2> QED
      BY <1>1, <1>2, <1>3, <1>9, <2>1 DEF RowsAreObjects, Table, IsStrictPrefix
  <1>12. RowsAreSorted'
    <2>1. /\ n \in Nat /\ DOMAIN subtree = 1 .. n /\ DOMAIN subtree' = 1 .. n + 1
          /\ \A i \in 1 .. n : subtree'[i] = subtree[i] /\ subtree[i].name \in OID
          /\ subtree'[n + 1].name = c
          /\ n > 0 => last_oid = subtree[n].name
      BY <1>0, RowAdded, NameFacts DEF c, LastIsLast
    <2>2. \A i, j \in 1 .. n : i < j => Less(subtree[i].name, subtree[j].name)
      BY <1>1, <2>1 DEF RowsAreSorted
    <2> HIDE DEF n
    <2>3. ASSUME NEW i \in 1 .. n PROVE Less(subtree[i].name, c)
      <3>1. n \in 1 .. n /\ last_oid = subtree[n].name /\ (i = n \/ i < n)
        BY <2>1
      <3>2. CASE i = n
        BY <3>1, <3>2, <1>3
      <3>3. CASE i < n
        BY <3>1, <3>3, <2>1, <2>2, <1>3, LessTransitive
      <3> QED
        BY <3>1, <3>2, <3>3
    <2>4. \A i, j \in 1 .. n + 1 : i < j => i \in 1 .. n /\ (j \in 1 .. n \/ j = n + 1)
      BY <2>1
    <2>5. \A i, j \in 1 .. n + 1 : i < j => Less(subtree'[i].name, subtree'[j].name)
      BY <2>1, <2>2, <2>3, <2>4
    <2> QED
      BY <2>1, <2>5 DEF RowsAreSorted
  <1> QED
    BY <1>8, <1>10, <1>11, <1>12

LEMMA CollectStep ==
    ASSUME IInv, Collect
    PROVE  IInv'
  <1>0. TypeOK /\ Underway
    BY DEF IInv
  <1>1. TypeOK'
    BY <1>0, RowAdded
  <1>2. TableIsComplete'
    BY DEF TableIsComplete, Finished, Collect
  <1>3. Underway'
    BY <1>0 DEF Underway, Collect
  <1> QED
    BY <1>1, <1>2, <1>3, CollectKeepsOrder, CollectConforms DEF IInv

(* A walk begins with no row and nothing skipped. *)
LEMMA InitStep ==
    ASSUME Init
    PROVE  IInv
  <1>0. /\ <<>> \in Seq(Variable) /\ Len(<<>>) = 0 /\ DOMAIN subtree = {} /\ subtree = <<>>
    BY EmptySeq DEF Init
  <1>1. NoResponse \in [errstat : {-1, NOERROR, NOSUCHNAME, GENERR}, variables : Seq(Variable)]
    BY <1>0 DEF NoResponse
  <1>2. TypeOK
    BY <1>0, <1>1, WalkAssumption DEF TypeOK, Init
  <1>3. LastIsLast /\ NeverBackwards /\ RowsAreSorted
    BY <1>0 DEF Init, LastIsLast, NeverBackwards, RowsAreSorted
  <1>4. Names = {}
    BY <1>0 DEF Names
  <1>5. NothingSkipped
    BY <1>2, NameFacts, LessFacts, PrefixFacts DEF Init, NothingSkipped, Table, IsStrictPrefix
  <1>6. RowsAreObjects
    BY <1>2, <1>4, NameFacts, PrefixFacts DEF Init, RowsAreObjects
  <1>7. AnswerIsNext /\ TableIsComplete /\ Underway
    BY DEF Init, AnswerIsNext, TableIsComplete, Finished, Underway
  <1> QED
    BY <1>2, <1>3, <1>5, <1>6, <1>7 DEF IInv, Conforms

LEMMA NextStep ==
    ASSUME IInv, [Next]_vars
    PROVE  IInv'
  <1>1. CASE UNCHANGED vars
    BY <1>1 DEF vars, session, objects, IInv, TypeOK, LastIsLast, NeverBackwards, Conforms, AnswerIsNext,
                Ahead, NothingSkipped, RowsAreObjects, RowsAreSorted, TableIsComplete, Finished, Names,
                Underway
  <1>2. CASE \/ \E o \in OIDs : Change(o)
             \/ Request \/ Lost \/ NotIncreasing \/ NextRequest \/ EndOfTree \/ OtherError
    BY <1>2, SilentSteps
  <1>3. CASE AgentError
    BY <1>3, FailureStep DEF AgentError
  <1> QED
    BY <1>1, <1>2, <1>3, LeaveStep, CollectStep, GetNextStep, GetBulkStep, MadeUpStep
       DEF Next, Walk, Reply, Terminated

-----------------------------------------------------------------------------
(* The inductive invariant of mp_snmp_subtree_query, whatever objects there
   are, however they change during the walk and whatever is lost. *)
THEOREM WalkInvariant == Spec => []IInv
  BY InitStep, NextStep, PTL DEF Spec

(* mp_snmp_subtree_query reports success only with every object of the table
   that was there all the time, and with none that never was. *)
THEOREM TableComplete == Spec => []TableIsComplete
  <1>1. IInv => TableIsComplete
    BY DEF IInv
  <1> QED
    BY <1>1, WalkInvariant, PTL

(* A conforming agent's rows come in their order, none twice. *)
THEOREM RowsSorted == Spec => []RowsAreSorted
  <1>1. IInv => RowsAreSorted
    BY DEF IInv, Conforms, RowsAreSorted
  <1> QED
    BY <1>1, WalkInvariant, PTL

(* The check of snmp_oidtree_compare keeps every row in the table and turns
   back only below an object above an earlier row, whatever the agent says. *)
THEOREM WalkGoesForward == Spec => []NeverBackwards
  <1>1. IInv => NeverBackwards
    BY DEF IInv
  <1> QED
    BY <1>1, WalkInvariant, PTL
=============================================================================
