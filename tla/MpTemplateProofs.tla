-------------------------- MODULE MpTemplateProofs --------------------------
(* Proofs about the template engine, for every set of texts and values, every
   block size and every bound.  All of them rest on IInv: the flag and the
   depth counter make sense only relative to the parser's stack, so none of
   the properties is inductive without ListMatchesNest.                     *)
EXTENDS MpTemplate, SeqFacts

(* The facts about the two stacks that every step below starts from. *)
LEMMA StackFacts ==
    ASSUME TypeOK, ListMatchesNest
    PROVE  /\ Len(nest) \in Nat
           /\ Len(conditionals) \in Nat
           /\ nest # <<>> => /\ Len(nest) \in 1 .. Len(nest)
                             /\ Len(conditionals) \in 1 .. Len(conditionals)
                             /\ Len(conditionals) \in 1 .. Len(nest)
           /\ nest = <<>> => Len(nest) = 0 /\ Len(conditionals) = 0
           /\ \A i \in 1 .. Len(nest) : nest[i] \in Scopes!Scope
           /\ \A i \in 1 .. Len(conditionals) : conditionals[i] \in Conditional
           /\ ~disable => Len(conditionals) = Len(nest)
  <1>1. /\ nest \in Seq(Scopes!Scope)
        /\ conditionals \in Seq(Conditional)
        /\ disable \in BOOLEAN
    BY DEF TypeOK
  <1>2. /\ Len(nest) \in Nat
        /\ nest = <<>> <=> Len(nest) = 0
        /\ \A i \in 1 .. Len(nest) : nest[i] \in Scopes!Scope
    BY <1>1, TopFacts
  <1>3. /\ Len(conditionals) \in Nat
        /\ \A i \in 1 .. Len(conditionals) : conditionals[i] \in Conditional
    BY <1>1, TopFacts
  <1>4. /\ nest = <<>> => Len(conditionals) = 0
        /\ nest # <<>> => Len(conditionals) \in 1 .. Len(nest)
        /\ nest # <<>> /\ Len(nest) > Len(conditionals) => disable
    BY DEF ListMatchesNest
  <1> QED
    BY <1>1, <1>2, <1>3, <1>4

(* Opening a conditional preserves the invariant. *)
LEMMA PushStep ==
    ASSUME IInv, status = "parsing",
           NEW arm \in {"if", "switch"}, NEW v \in Values, NEW off \in BOOLEAN,
           off <=> ~Scopes!Taken([arm |-> arm, test |-> v, label |-> 0]),
           Push(arm, v, off)
    PROVE  IInv'
  <1> DEFINE e == [arm |-> arm, test |-> v, label |-> 0]
             n == Len(conditionals)
             m == Len(nest)
  <1>0. TypeOK /\ ListMatchesNest /\ BufferFits
    BY DEF IInv
  <1>1. e \in Scopes!Scope
    BY TemplateAssumption DEF Scopes!Scope, Scopes!Arms
  <1>2. /\ nest' = Append(nest, e)
        /\ UNCHANGED <<out, len, pos, status>>
    BY DEF Push
  <1> HIDE DEF e
  <1>3. /\ nest' \in Seq(Scopes!Scope)
        /\ Len(nest') = m + 1
        /\ \A i \in 1 .. m : nest'[i] = nest[i]
        /\ nest'[m + 1] = e
        /\ nest' # <<>>
    BY <1>0, <1>1, <1>2, AppendFacts DEF TypeOK
  <1>4. e.test = v
    BY DEF e
  <1>5. CASE disable
    <2>1. nest # <<>>
      BY <1>0, <1>5 DEF ListMatchesNest
    <2> DEFINE c == [ival |-> conditionals[n].ival, deep |-> conditionals[n].deep + 1]
    <2>2. conditionals[n] \in Conditional
      BY <1>0, <2>1, StackFacts
    <2>3. c \in Conditional
      BY <2>2 DEF Conditional
    <2>4. /\ conditionals' = [conditionals EXCEPT ![n] = c]
          /\ disable' = disable
      BY <1>5 DEF Push, Deepen
    <2>5. /\ conditionals' \in Seq(Conditional)
          /\ Len(conditionals') = n
          /\ \A j \in 1 .. n : conditionals'[j] = IF j = n THEN c ELSE conditionals[j]
      <3>1. n \in 1 .. n
        BY <1>0, <2>1, StackFacts
      <3> HIDE DEF c
      <3> QED
        BY <1>0, <2>3, <2>4, <3>1, ExceptFacts DEF TypeOK
    <2>6. c.ival = conditionals[n].ival /\ c.deep = conditionals[n].deep + 1
      OBVIOUS
    <2>7. TypeOK'
      BY <1>0, <1>2, <1>3, <2>4, <2>5 DEF TypeOK
    <2> HIDE DEF c
    <2>8. ListMatchesNest'
      <3>1. n \in 1 .. m /\ n \in 1 .. n /\ m \in Nat
        BY <1>0, <2>1, StackFacts
      <3>2. \A i \in 1 .. n : /\ nest'[i] = nest[i]
                              /\ conditionals'[i].ival = conditionals[i].ival
                              /\ i # n => conditionals'[i] = conditionals[i]
        BY <1>3, <2>5, <2>6, <3>1
      <3>3. /\ conditionals'[n].deep = (m + 1) - n
            /\ ~Scopes!Taken(nest'[n])
        BY <1>0, <1>5, <2>1, <2>5, <2>6, <3>1, <3>2 DEF ListMatchesNest, Top
      <3>4. \A i \in 1 .. n : conditionals'[i].ival = nest'[i].test
        BY <1>0, <3>2 DEF ListMatchesNest
      <3>5. ASSUME NEW i \in 1 .. (n - 1)
            PROVE  conditionals'[i].deep = 0 /\ Scopes!Taken(nest'[i])
        <4>1. i \in 1 .. n /\ i # n
          BY <3>1
        <4>2. nest'[i] = nest[i] /\ conditionals'[i] = conditionals[i]
          BY <3>2, <4>1
        <4> QED
          BY <1>0, <4>2 DEF ListMatchesNest
      <3>6. /\ nest' # <<>>
            /\ Len(nest') = m + 1
            /\ Len(conditionals') = n
            /\ n \in 1 .. (m + 1)
        BY <1>3, <2>5, <3>1
      <3>7. disable' <=> ~Scopes!Taken(nest'[n])
        BY <1>5, <2>4, <3>3
      <3>8. m + 1 > n => disable'
        BY <1>5, <2>4
      <3> HIDE DEF n, m
      <3> QED
        BY <3>3, <3>4, <3>5, <3>6, <3>7, <3>8 DEF ListMatchesNest, Top
    <2> QED
      BY <1>0, <1>2, <1>3, <2>7, <2>8 DEF IInv, BufferFits
  <1>6. CASE ~disable
    <2> DEFINE c == [ival |-> v, deep |-> 0]
    <2>1. c \in Conditional /\ c.ival = v /\ c.deep = 0
      BY DEF Conditional
    <2>2. /\ conditionals' = Append(conditionals, c)
          /\ disable' = off
      BY <1>6 DEF Push
    <2> HIDE DEF c
    <2>3. /\ conditionals' \in Seq(Conditional)
          /\ Len(conditionals') = n + 1
          /\ \A i \in 1 .. n : conditionals'[i] = conditionals[i]
          /\ conditionals'[n + 1] = c
      BY <1>0, <2>1, <2>2, AppendFacts DEF TypeOK
    <2>4. TypeOK'
      BY <1>0, <1>2, <1>3, <2>2, <2>3 DEF TypeOK
    <2>5. n = m
      BY <1>0, <1>6, StackFacts
    <2>6. disable' <=> ~Scopes!Taken(e)
      BY <2>2 DEF e
    <2>7. \A i \in 1 .. n : conditionals[i].deep = 0 /\ Scopes!Taken(nest[i])
      BY <1>0, <1>6, <2>5, StackFacts DEF ListMatchesNest, Top
    <2>8. \A i \in 1 .. n : conditionals[i].ival = nest[i].test
      BY <1>0 DEF ListMatchesNest
    <2>9. ListMatchesNest'
      BY <1>0, <1>3, <1>4, <2>1, <2>3, <2>5, <2>6, <2>7, <2>8, StackFacts
         DEF ListMatchesNest, Top
    <2> QED
      BY <1>0, <1>2, <1>3, <2>4, <2>9 DEF IInv, BufferFits
  <1> QED
    BY <1>5, <1>6

(* ELSE and CASE preserve the invariant: they replace the innermost construct
   by one with the same test, and set the flag only if it is in the list.   *)
LEMMA SetDisableStep ==
    ASSUME IInv, status = "parsing", nest # <<>>,
           NEW e \in Scopes!Scope, e.test = nest[Len(nest)].test,
           nest' = [nest EXCEPT ![Len(nest)] = e],
           NEW off \in BOOLEAN,
           Len(conditionals) = Len(nest) => (off <=> ~Scopes!Taken(e)),
           SetDisable(off)
    PROVE  IInv'
  <1> DEFINE n == Len(conditionals)
             m == Len(nest)
  <1>0. TypeOK /\ ListMatchesNest /\ BufferFits
    BY DEF IInv
  <1>1. /\ UNCHANGED <<conditionals, out, len, pos, status>>
        /\ disable' = IF conditionals[n].deep > 0 THEN disable ELSE off
    BY DEF SetDisable, Top
  <1>2. m \in 1 .. m /\ n \in 1 .. m /\ m \in Nat
    BY <1>0, StackFacts
  <1>3. /\ nest' \in Seq(Scopes!Scope)
        /\ Len(nest') = m
        /\ \A j \in 1 .. m : nest'[j] = IF j = m THEN e ELSE nest[j]
        /\ nest' # <<>>
    BY <1>0, <1>2, ExceptFacts DEF TypeOK
  <1>4. conditionals[n].deep = m - n /\ conditionals[n].deep \in Nat
    BY <1>0, <1>2 DEF ListMatchesNest, Top
  <1>5. TypeOK'
    BY <1>0, <1>1, <1>3 DEF TypeOK
  <1>6. ASSUME NEW i \in 1 .. n
        PROVE  conditionals[i].ival = nest'[i].test
    <2>1. i \in 1 .. m
      BY <1>2
    <2>2. conditionals[i].ival = nest[i].test
      BY <1>0 DEF ListMatchesNest
    <2> QED
      BY <1>3, <2>1, <2>2
  <1>7. ASSUME NEW i \in 1 .. (n - 1)
        PROVE  conditionals[i].deep = 0 /\ Scopes!Taken(nest'[i])
    <2>1. i \in 1 .. m /\ i # m
      BY <1>2
    <2>2. nest'[i] = nest[i]
      BY <1>3, <2>1
    <2>3. conditionals[i].deep = 0 /\ Scopes!Taken(nest[i])
      BY <1>0 DEF ListMatchesNest
    <2> QED
      BY <2>2, <2>3
  <1>8. (m > n => disable') /\ (disable' <=> ~Scopes!Taken(nest'[n]))
    <2>1. CASE n = m
      BY <1>1, <1>2, <1>3, <1>4, <2>1
    <2>2. CASE n # m
      <3>1. m > n /\ disable' = disable /\ nest'[n] = nest[n]
        BY <1>1, <1>2, <1>3, <1>4, <2>2
      <3> QED
        BY <1>0, <3>1 DEF ListMatchesNest
    <2> QED
      BY <2>1, <2>2
  <1>9. ListMatchesNest'
    BY <1>1, <1>2, <1>3, <1>4, <1>6, <1>7, <1>8 DEF ListMatchesNest, Top
  <1> QED
    BY <1>0, <1>1, <1>3, <1>5, <1>9 DEF IInv, BufferFits

(* END preserves the invariant: it takes back one level of depth, or the
   innermost entry, whose predecessors are all taken.                       *)
LEMMA EndStep ==
    ASSUME IInv, mp_template_end
    PROVE  IInv'
  <1> DEFINE n == Len(conditionals)
             m == Len(nest)
  <1>0. TypeOK /\ ListMatchesNest /\ BufferFits /\ nest # <<>> /\ status = "parsing"
    BY DEF IInv, mp_template_end, EndAllowed
  <1>1. /\ nest' = SubSeq(nest, 1, m - 1)
        /\ UNCHANGED <<out, len, pos, status>>
    BY DEF mp_template_end
  <1>2. m \in 1 .. m /\ n \in 1 .. n /\ n \in 1 .. m /\ m \in Nat
    BY <1>0, StackFacts
  <1>3. /\ nest' \in Seq(Scopes!Scope)
        /\ Len(nest') = m - 1
        /\ \A j \in 1 .. (m - 1) : nest'[j] = nest[j]
    BY <1>0, <1>1, FrontFacts DEF TypeOK
  <1>4. nest' = <<>> <=> m = 1
    BY <1>2, <1>3, TopFacts
  <1>5. conditionals[n] \in Conditional /\ conditionals[n].deep = m - n
    BY <1>0, <1>2, StackFacts DEF ListMatchesNest, Top
  <1>6. \A i \in 1 .. n : conditionals[i].ival = nest[i].test
    BY <1>0 DEF ListMatchesNest
  <1>7. \A i \in 1 .. (n - 1) : conditionals[i].deep = 0 /\ Scopes!Taken(nest[i])
    BY <1>0 DEF ListMatchesNest
  <1>8. CASE conditionals[n].deep > 0
    <2> DEFINE c == [ival |-> conditionals[n].ival, deep |-> conditionals[n].deep + (-1)]
    <2>1. c \in Conditional /\ c.ival = conditionals[n].ival /\ c.deep = m - n - 1
      BY <1>2, <1>5, <1>8 DEF Conditional
    <2>2. conditionals' = [conditionals EXCEPT ![n] = c] /\ disable' = disable
      BY <1>8 DEF mp_template_end, Deepen, Top
    <2> HIDE DEF c
    <2>3. /\ conditionals' \in Seq(Conditional)
          /\ Len(conditionals') = n
          /\ \A j \in 1 .. n : conditionals'[j] = IF j = n THEN c ELSE conditionals[j]
      BY <1>0, <1>2, <2>1, <2>2, ExceptFacts DEF TypeOK
    <2>4. n \in 1 .. (m - 1)
      BY <1>2, <1>5, <1>8
    <2>5. disable /\ ~Scopes!Taken(nest[n])
      BY <1>0, <2>4 DEF ListMatchesNest
    <2>6. TypeOK'
      BY <1>0, <1>1, <1>3, <2>2, <2>3 DEF TypeOK
    <2>7. ListMatchesNest'
      <3>1. nest' # <<>> /\ n \in 1 .. (m - 1)
        <4> HIDE DEF m, n
        <4>1. m # 1
          BY <1>2, <2>4
        <4> QED
          BY <1>4, <2>4, <4>1
      <3>2. conditionals'[n].deep = (m - 1) - n
        BY <1>2, <2>1, <2>3
      <3>3. disable' /\ ~Scopes!Taken(nest'[n])
        BY <1>3, <2>2, <2>4, <2>5
      <3>4. ASSUME NEW i \in 1 .. n
            PROVE  conditionals'[i].ival = nest'[i].test
        <4>1. i \in 1 .. (m - 1)
          BY <1>2, <2>4
        <4>2. nest'[i] = nest[i] /\ conditionals'[i].ival = conditionals[i].ival
          BY <1>3, <2>1, <2>3, <4>1
        <4> QED
          BY <1>6, <4>2
      <3>5. ASSUME NEW i \in 1 .. (n - 1)
            PROVE  conditionals'[i].deep = 0 /\ Scopes!Taken(nest'[i])
        <4>1. i \in 1 .. (m - 1) /\ i \in 1 .. n /\ i # n
          BY <1>2, <2>4
        <4>2. nest'[i] = nest[i] /\ conditionals'[i] = conditionals[i]
          BY <1>3, <2>3, <4>1
        <4> QED
          BY <1>7, <4>2
      <3>6. Len(conditionals') = n /\ Len(nest') = m - 1
        BY <1>3, <2>3
      <3> HIDE DEF n, m
      <3> QED
        BY <3>1, <3>2, <3>3, <3>4, <3>5, <3>6 DEF ListMatchesNest, Top
    <2> QED
      BY <1>0, <1>1, <2>6, <2>7 DEF IInv, BufferFits
  <1>9. CASE ~(conditionals[n].deep > 0)
    <2>1. /\ conditionals' = SubSeq(conditionals, 1, n - 1)
          /\ disable' = FALSE
      BY <1>9 DEF mp_template_end, Top
    <2>2. n = m
      BY <1>2, <1>5, <1>9
    <2>3. conditionals # <<>>
      BY <1>0, <1>2, TopFacts DEF TypeOK
    <2>4. /\ conditionals' \in Seq(Conditional)
          /\ Len(conditionals') = m - 1
          /\ \A i \in 1 .. (m - 1) : conditionals'[i] = conditionals[i]
      BY <1>0, <2>1, <2>2, <2>3, FrontFacts DEF TypeOK
    <2>5. TypeOK'
      BY <1>0, <1>1, <1>3, <2>1, <2>4 DEF TypeOK
    <2>6. \A i \in 1 .. (m - 1) : /\ conditionals'[i].deep = 0
                                  /\ conditionals'[i].ival = nest'[i].test
                                  /\ Scopes!Taken(nest'[i])
      BY <1>2, <1>3, <1>6, <1>7, <2>2, <2>4
    <2>7. nest' # <<>> => (m - 1) \in 1 .. (m - 1)
      <3> HIDE DEF m
      <3>1. m # 1 => (m - 1) \in 1 .. (m - 1)
        BY <1>2
      <3> QED
        BY <1>4, <3>1
    <2>8. \A i \in 1 .. ((m - 1) - 1) : i \in 1 .. (m - 1)
      BY <1>2
    <2>9. (m - 1) - (m - 1) = 0 /\ ~(m - 1 > m - 1) /\ (nest' = <<>> => m - 1 = 0)
      BY <1>2, <1>4
    <2> DEFINE k == m - 1
    <2>10. Len(conditionals') = k /\ Len(nest') = k /\ k - k = 0 /\ ~(k > k)
      BY <1>3, <2>4, <2>9
    <2>11. /\ \A i \in 1 .. k : /\ conditionals'[i].deep = 0
                                /\ conditionals'[i].ival = nest'[i].test
                                /\ Scopes!Taken(nest'[i])
           /\ nest' # <<>> => k \in 1 .. k
           /\ nest' = <<>> => k = 0
           /\ \A i \in 1 .. (k - 1) : i \in 1 .. k
      BY <2>6, <2>7, <2>8, <2>9
    <2> HIDE DEF k
    <2>12. ListMatchesNest'
      BY <2>1, <2>10, <2>11 DEF ListMatchesNest, Top
    <2> QED
      BY <1>0, <1>1, <2>5, <2>12 DEF IInv, BufferFits
  <1> QED
    BY <1>8, <1>9

(* Whatever the block size, a resized buffer holds what is needed. *)
LEMMA ResizedFits ==
    ASSUME NEW old \in Nat, NEW need \in Nat, NEW l \in Nat, Resized(old, need, l)
    PROVE  l >= need
  <1>1. CASE old < need
    <2>1. PICK k \in 1 .. (need - old) :
             /\ old + k * memblock >= need
             /\ l = old + k * memblock + memblock
      BY <1>1 DEF Resized
    <2>2. k * memblock \in Int /\ memblock \in Nat
      BY <2>1, TemplateAssumption
    <2> QED
      BY <2>1, <2>2
  <1>2. CASE ~(old < need)
    BY <1>2 DEF Resized
  <1> QED
    BY <1>1, <1>2

(* Appending a text preserves the invariant: the buffer is resized before the
   copy, by enough blocks.                                                  *)
LEMMA AppendStep ==
    ASSUME IInv, NEW t \in Texts, mp_template_append(t)
    PROVE  IInv'
  <1>0. TypeOK /\ ListMatchesNest /\ BufferFits /\ status = "parsing"
    BY DEF IInv, mp_template_append, BlockAllowed
  <1>1. UNCHANGED <<nest, conditionals, disable, status>>
    BY DEF mp_template_append
  <1>2. ListMatchesNest'
    BY <1>0, <1>1 DEF ListMatchesNest, Top
  <1>3. CASE disable
    BY <1>0, <1>1, <1>2, <1>3 DEF IInv, BufferFits, TypeOK, mp_template_append
  <1>4. CASE ~disable
    <2>1. /\ \E l \in len .. (len + t + 1 + 2 * memblock) :
                Resized(len, pos + t + 1, l) /\ len' = l
          /\ out' = Append(out, t)
          /\ pos' = pos + t
      BY <1>4 DEF mp_template_append
    <2>2. /\ t \in Nat /\ len \in Nat /\ pos \in Nat /\ memblock \in Nat /\ memblock > 0
          /\ out \in Seq(Texts)
      BY <1>0, TemplateAssumption DEF TypeOK
    <2>3. len' \in Nat /\ pos' \in Nat /\ out' \in Seq(Texts)
      BY <2>1, <2>2, AppendFacts
    <2>4. pos' < len'
      <3>1. pos + t + 1 \in Nat /\ Resized(len, pos + t + 1, len')
        BY <2>1, <2>2
      <3>2. len' >= pos + t + 1
        BY <2>2, <2>3, <3>1, ResizedFits
      <3> QED
        BY <2>1, <2>2, <2>3, <3>2
    <2> QED
      BY <1>0, <1>1, <1>2, <2>3, <2>4 DEF IInv, BufferFits, TypeOK
  <1> QED
    BY <1>3, <1>4

(* ELSE and CASE do what SetDisableStep asks for. *)
LEMMA ArmSteps ==
    ASSUME IInv
    PROVE  /\ mp_template_else => IInv'
           /\ \A v \in Values : mp_template_case_int(v) => IInv'
  <1> DEFINE n == Len(conditionals)
             m == Len(nest)
  <1>0. TypeOK /\ ListMatchesNest
    BY DEF IInv
  <1>1. ASSUME nest # <<>>
        PROVE  /\ m \in 1 .. m
               /\ nest[m] \in Scopes!Scope
               /\ n = m => conditionals[n].ival = nest[m].test
    BY <1>0, <1>1, StackFacts DEF ListMatchesNest
  <1>2. ASSUME mp_template_else PROVE IInv'
    <2> DEFINE e == [arm |-> "else", test |-> nest[m].test, label |-> 0]
               off == conditionals[n].ival # 0
    <2>1. nest # <<>> /\ status = "parsing"
      BY <1>2 DEF mp_template_else, ElseAllowed
    <2>2. e \in Scopes!Scope /\ e.test = nest[m].test
      BY <1>1, <2>1, TemplateAssumption DEF Scopes!Scope, Scopes!Arms
    <2>3. nest' = [nest EXCEPT ![m] = e] /\ SetDisable(off)
      BY <1>2 DEF mp_template_else, Top
    <2>4. n = m => (off <=> ~Scopes!Taken(e))
      BY <1>1, <2>1 DEF Scopes!Taken
    <2> HIDE DEF e, off
    <2>5. off \in BOOLEAN
      BY DEF off
    <2> QED
      BY <2>1, <2>2, <2>3, <2>4, <2>5, SetDisableStep
  <1>3. ASSUME NEW v \in Values, mp_template_case_int(v) PROVE IInv'
    <2> DEFINE e == [arm |-> "case", test |-> nest[m].test, label |-> v]
               off == conditionals[n].ival # v
    <2>1. nest # <<>> /\ status = "parsing"
      BY <1>3 DEF mp_template_case_int, CaseAllowed
    <2>2. e \in Scopes!Scope /\ e.test = nest[m].test
      BY <1>1, <2>1 DEF Scopes!Scope, Scopes!Arms
    <2>3. nest' = [nest EXCEPT ![m] = e] /\ SetDisable(off)
      BY <1>3 DEF mp_template_case_int, Top
    <2>4. n = m => (off <=> ~Scopes!Taken(e))
      BY <1>1, <2>1 DEF Scopes!Taken
    <2> HIDE DEF e, off
    <2>5. off \in BOOLEAN
      BY DEF off
    <2> QED
      BY <2>1, <2>2, <2>3, <2>4, <2>5, SetDisableStep
  <1> QED
    BY <1>2, <1>3

(* Every step of the engine and of the parser preserves IInv. *)
LEMMA NextStep ==
    ASSUME IInv, [Next]_vars
    PROVE  IInv'
  <1>0. TypeOK /\ ListMatchesNest /\ BufferFits /\ (status = "idle" => nest = <<>>)
    BY DEF IInv
  <1>1. ASSUME mp_template PROVE IInv'
    <2>1. /\ status' = "parsing" /\ out' = <<>> /\ len' = memblock /\ pos' = 0
          /\ UNCHANGED <<nest, conditionals, disable>>
      BY <1>1 DEF mp_template
    <2>2. ListMatchesNest'
      BY <1>0, <2>1 DEF ListMatchesNest, Top
    <2> QED
      BY <1>0, <2>1, <2>2, TemplateAssumption DEF IInv, TypeOK, BufferFits
  <1>2. ASSUME NEW v \in Values, mp_template_if(v) PROVE IInv'
    <2>1. /\ status = "parsing" /\ Push("if", v, v = 0)
          /\ (v = 0) \in BOOLEAN
          /\ (v = 0) <=> ~Scopes!Taken([arm |-> "if", test |-> v, label |-> 0])
      BY <1>2 DEF mp_template_if, BlockAllowed, Scopes!Taken
    <2> QED
      BY <2>1, PushStep
  <1>3. ASSUME NEW v \in Values, mp_template_switch_int(v) PROVE IInv'
    <2>1. /\ status = "parsing" /\ Push("switch", v, TRUE)
          /\ TRUE <=> ~Scopes!Taken([arm |-> "switch", test |-> v, label |-> 0])
      BY <1>3 DEF mp_template_switch_int, BlockAllowed, Scopes!Taken
    <2> QED
      BY <2>1, PushStep
  <1>4. ASSUME EndOfInput \/ mp_template_error \/ bexpr_fault PROVE IInv'
    <2>1. /\ status' \in {"idle", "exited"}
          /\ status' = "idle" => nest = <<>>
          /\ UNCHANGED <<nest, conditionals, disable, out, len, pos>>
      BY <1>4 DEF EndOfInput, mp_template_error, bexpr_fault
    <2>2. ListMatchesNest'
      BY <1>0, <2>1 DEF ListMatchesNest, Top
    <2> QED
      BY <1>0, <2>1, <2>2 DEF IInv, TypeOK, BufferFits
  <1>5. ASSUME mp_template_append_null \/ UNCHANGED vars PROVE IInv'
    <2>1. UNCHANGED vars
      BY <1>5 DEF mp_template_append_null
    <2> QED
      BY <1>0, <2>1 DEF vars, IInv, TypeOK, BufferFits, ListMatchesNest, Top
  <1> QED
    BY <1>1, <1>2, <1>3, <1>4, <1>5, AppendStep, EndStep, ArmSteps DEF Next

(* The inductive invariant implies what the runs check. *)
LEMMA IInvImplies ==
    ASSUME IInv
    PROVE  TypeOK /\ FlagMeansVisible /\ IdleIsClean /\ BufferFits
  <1> DEFINE n == Len(conditionals)
             m == Len(nest)
  <1>0. TypeOK /\ ListMatchesNest /\ BufferFits /\ (status = "idle" => nest = <<>>)
    BY DEF IInv
  <1>1. IdleIsClean
    <2>1. nest = <<>> => conditionals = <<>> /\ ~disable
      BY <1>0, TopFacts DEF ListMatchesNest, TypeOK
    <2> QED
      BY <1>0, <2>1 DEF IdleIsClean
  <1>2. disable <=> ~Scopes!AllTaken(nest)
    <2>0. DOMAIN nest = 1 .. m
      BY <1>0, TopFacts DEF TypeOK
    <2>1. CASE nest = <<>>
      BY <1>0, <2>0, <2>1, StackFacts DEF ListMatchesNest, Scopes!AllTaken
    <2>2. CASE nest # <<>>
      <3>1. n \in 1 .. m /\ m \in Nat /\ (~disable => n = m)
        BY <1>0, <2>2, StackFacts
      <3>2. disable <=> ~Scopes!Taken(nest[n])
        BY <1>0, <2>2 DEF ListMatchesNest
      <3>3. \A i \in 1 .. (n - 1) : Scopes!Taken(nest[i])
        BY <1>0 DEF ListMatchesNest
      <3>4. ~disable => \A i \in 1 .. m : Scopes!Taken(nest[i])
        BY <3>1, <3>2, <3>3
      <3> QED
        BY <2>0, <3>1, <3>2, <3>4 DEF Scopes!AllTaken
    <2> QED
      BY <2>1, <2>2
  <1> QED
    BY <1>0, <1>1, <1>2 DEF FlagMeansVisible

(* The inductive invariant holds throughout every parse, after any number of
   templates.                                                               *)
THEOREM InductiveInvariant == Spec => []IInv
  <1>1. Init => IInv
    <2> SUFFICES ASSUME Init PROVE IInv
      OBVIOUS
    <2>0. /\ nest \in Seq(Scopes!Scope)
          /\ conditionals \in Seq(Conditional)
          /\ out \in Seq(Texts)
      BY DEF Init
    <2>1. TypeOK
      BY <2>0 DEF Init, TypeOK
    <2>2. Len(conditionals) = 0 /\ nest = <<>> /\ ~disable
      BY DEF Init
    <2>3. \A i \in 1 .. 0 : FALSE
      OBVIOUS
    <2>4. \A i \in 1 .. (0 - 1) : FALSE
      OBVIOUS
    <2>5. ListMatchesNest
      BY <2>2, <2>3, <2>4 DEF ListMatchesNest
    <2> QED
      BY <2>1, <2>2, <2>5 DEF Init, IInv, BufferFits
  <1>2. IInv /\ [Next]_vars => IInv'
    BY NextStep
  <1> QED
    BY <1>1, <1>2, PTL DEF Spec

(* The state of mp_template.c keeps its types; the depth of an entry of the
   list of conditionals never becomes negative.                             *)
THEOREM TypeCorrect == Spec => []TypeOK
  <1>1. IInv => TypeOK
    BY IInvImplies
  <1> QED
    BY <1>1, InductiveInvariant, PTL

(* Output is disabled exactly when some open construct is in an arm that its
   test does not select, for any nesting of IF, UNLESS, SWITCH, ELSE, CASE. *)
THEOREM FlagCorrect == Spec => []FlagMeansVisible
  <1>1. IInv => FlagMeansVisible
    BY IInvImplies
  <1> QED
    BY <1>1, InductiveInvariant, PTL

(* A template parsed to its end leaves no conditional behind for the next. *)
THEOREM CleanBetweenTemplates == Spec => []IdleIsClean
  <1>1. IInv => IdleIsClean
    BY IInvImplies
  <1> QED
    BY <1>1, InductiveInvariant, PTL

(* mp_template_append never writes past the buffer, for any block size. *)
THEOREM BufferCorrect == Spec => []BufferFits
  <1>1. IInv => BufferFits
    BY IInvImplies
  <1> QED
    BY <1>1, InductiveInvariant, PTL

(* Every step of the engine is a step of TemplateScopes or leaves its
   variables alone: a text is kept or dropped as the author expects.        *)
LEMMA StepImplements ==
    ASSUME IInv, [Next]_vars
    PROVE  [Scopes!ScopesNext]_(Scopes!scopeVars)
  <1> DEFINE m == Len(nest)
  <1> USE DEF Scopes!ScopesNext
  <1>0. /\ TypeOK /\ (status = "idle" => nest = <<>>)
        /\ (status = "parsing" => (disable <=> ~Scopes!AllTaken(nest)))
    BY IInvImplies DEF IInv, FlagMeansVisible
  <1>1. ASSUME mp_template PROVE Scopes!Begin
    BY <1>1 DEF mp_template, Scopes!Begin
  <1>2. ASSUME NEW t \in Texts, mp_template_append(t) PROVE Scopes!Emit(t)
    BY <1>0, <1>2 DEF mp_template_append, BlockAllowed, Scopes!Emit
  <1>3. ASSUME NEW arm \in {"if", "switch"}, NEW v \in Values, NEW off,
               status = "parsing", Push(arm, v, off)
        PROVE  \E s \in Scopes!Scope : Scopes!Open(s)
    <2> DEFINE e == [arm |-> arm, test |-> v, label |-> 0]
    <2>1. e \in Scopes!Scope /\ e.arm \in {"if", "switch"}
      BY TemplateAssumption DEF Scopes!Scope, Scopes!Arms
    <2>2. nest' = Append(nest, e) /\ UNCHANGED <<out, status>>
      BY <1>3 DEF Push
    <2> HIDE DEF e
    <2>3. Scopes!Open(e)
      BY <1>3, <2>1, <2>2 DEF Scopes!Open
    <2> QED
      BY <2>1, <2>3
  <1>4. ASSUME NEW arm \in {"else", "case"}, NEW v \in Values, NEW off,
               status = "parsing", nest # <<>>,
               nest' = [nest EXCEPT ![m] = [arm |-> arm, test |-> @.test, label |-> v]],
               SetDisable(off)
        PROVE  \E s \in Scopes!Scope : Scopes!NextArm(s)
    <2> DEFINE e == [arm |-> arm, test |-> nest[m].test, label |-> v]
    <2>1. nest[m] \in Scopes!Scope
      BY <1>0, <1>4, TopFacts DEF TypeOK
    <2>2. e \in Scopes!Scope /\ e.arm \in {"else", "case"} /\ e.test = nest[m].test
      BY <2>1 DEF Scopes!Scope, Scopes!Arms
    <2>3. nest' = [nest EXCEPT ![m] = e] /\ UNCHANGED <<out, status>>
      BY <1>4 DEF SetDisable
    <2> HIDE DEF e
    <2>4. Scopes!NextArm(e)
      BY <1>4, <2>2, <2>3 DEF Scopes!NextArm
    <2> QED
      BY <2>2, <2>4
  <1>5. ASSUME mp_template_end PROVE Scopes!Close
    BY <1>5 DEF mp_template_end, EndAllowed, Scopes!Close
  <1>6. ASSUME EndOfInput PROVE Scopes!Return
    BY <1>6 DEF EndOfInput, Scopes!Return
  <1>7. ASSUME mp_template_error \/ bexpr_fault PROVE Scopes!Reject
    BY <1>7 DEF mp_template_error, bexpr_fault, BlockAllowed, Scopes!Reject
  <1>8. ASSUME mp_template_append_null \/ UNCHANGED vars PROVE UNCHANGED Scopes!scopeVars
    BY <1>8 DEF mp_template_append_null, vars, Scopes!scopeVars
  <1>9. ASSUME NEW v \in Values, mp_template_if(v) \/ mp_template_switch_int(v)
        PROVE  \E s \in Scopes!Scope : Scopes!Open(s)
    BY <1>3, <1>9 DEF mp_template_if, mp_template_switch_int, BlockAllowed
  <1>10. ASSUME mp_template_else PROVE \E s \in Scopes!Scope : Scopes!NextArm(s)
    BY <1>4, <1>10, TemplateAssumption DEF mp_template_else, ElseAllowed
  <1>11. ASSUME NEW v \in Values, mp_template_case_int(v)
         PROVE  \E s \in Scopes!Scope : Scopes!NextArm(s)
    BY <1>4, <1>11 DEF mp_template_case_int, CaseAllowed
  <1> QED
    BY <1>1, <1>2, <1>5, <1>6, <1>7, <1>8, <1>9, <1>10, <1>11 DEF Next

(* The engine of lib/mp_template.c implements the scopes its templates are
   written against.                                                         *)
THEOREM Refinement == Spec => ImplementsScopes
  <1>1. Init => Scopes!ScopesInit
    BY DEF Init, Scopes!ScopesInit
  <1>2. IInv /\ [Next]_vars => [Scopes!ScopesNext]_(Scopes!scopeVars)
    BY StepImplements
  <1> QED
    BY <1>1, <1>2, InductiveInvariant, PTL DEF Spec, ImplementsScopes, Scopes!ScopesSpec
=============================================================================
