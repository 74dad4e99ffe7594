-------------------------- MODULE MldVersionProofs --------------------------
(***************************************************************************)
(* Proofs about module MldVersion, for every value of the timeout.         *)
(***************************************************************************)
EXTENDS MldVersion, TLAPS

\* An interface of a daemon that speaks MLDv1 only never comes to version 2, and
\* one of a daemon that speaks both has a version as soon as a query was handled.
Versions ==
  /\ mode = "mld1only" => version # 2
  /\ asked # 0 /\ mode = "both" => version # 0

Inv == TypeOK /\ TimedV1 /\ Versions /\ AnsweredBelowV2

\* Ages are Never or a number up to Old, and growing older keeps them so.
LEMMA Ages ==
  /\ Never = -1
  /\ Old \in Nat
  /\ Never \in Age /\ 0 \in Age
  /\ \A a \in Age : a = Never \/ (a \in Nat /\ a <= Old)
  /\ \A a \in Age : Older(a) \in Age
  /\ \A a \in Age : (Older(a) = Never) <=> (a = Never)
BY TimeoutAssumption DEF Age, Never, Old, Older

\* What int_set_mld_version does to the version and the time.
LEMMA SetVersion ==
  ASSUME TypeOK, TimedV1, mode = "mld1only" => version # 2,
         NEW new \in {1, 2}, int_set_mld_version(new)
  PROVE  /\ version' \in 0..2
         /\ lastV1' \in Age
         /\ heardV1' \in Age
         /\ version' = 1 <=> lastV1' # Never
         /\ mode = "mld1only" => version' # 2
         /\ mode = "both" => version' # 0
<1>1. lastV1 \in Age /\ heardV1 \in Age /\ version \in 0..2
  BY DEF TypeOK
<1>2. mode \in {"both", "mld1only", "mld2only"}
  BY DEF TypeOK
<1>3. version = 1 <=> lastV1 # Never
  BY DEF TimedV1
<1>4. heardV1' \in Age
  BY <1>1, Ages DEF int_set_mld_version
<1>5. CASE new = 1
  <2>1. /\ version' = IF mode # "mld2only" /\ version = 0 THEN 1 ELSE version
        /\ lastV1' = IF mode # "mld2only" /\ version = 0 THEN 0 ELSE lastV1
    BY <1>5 DEF int_set_mld_version, Heard, AfterV1
  <2> QED
    BY <1>1, <1>2, <1>3, <1>4, <2>1, Ages DEF Never
<1>6. CASE new = 2
  <2>1. /\ version' = LET ver == IF lastV1 > Timeout THEN 0 ELSE version
                      IN  IF mode # "mld1only" /\ ver = 0 THEN 2 ELSE ver
        /\ lastV1' = IF lastV1 > Timeout THEN Never ELSE lastV1
    BY <1>6 DEF int_set_mld_version, Heard, AfterV2
  <2> QED
    BY <1>1, <1>2, <1>3, <1>4, <2>1, Ages, TimeoutAssumption DEF Never
<1> QED
  BY <1>5, <1>6

\* The invariant holds when the daemon starts.
LEMMA VersionInit == Init => Inv
<1>1. Init => groups \in BOOLEAN
  BY Zenon DEF Init
<1> QED
  BY <1>1, Ages DEF Init, Inv, TypeOK, TimedV1, Versions, AnsweredBelowV2

\* Every message, second and return of the device keeps the invariant.
LEMMA VersionStep == Inv /\ [Next]_vars => Inv'
<1> SUFFICES ASSUME Inv, [Next]_vars
             PROVE  Inv'
  OBVIOUS
<1>0. /\ mode \in {"both", "mld1only", "mld2only"}
      /\ TypeOK /\ TimedV1
      /\ mode = "mld1only" => version # 2
  BY DEF Inv, TypeOK, Versions
<1>1. ASSUME NEW new \in {1, 2}, Query(new)
      PROVE  Inv'
  <2>1. /\ version' \in 0..2
        /\ lastV1' \in Age
        /\ heardV1' \in Age
        /\ version' = 1 <=> lastV1' # Never
        /\ mode = "mld1only" => version' # 2
        /\ mode = "both" => version' # 0
    BY <1>0, <1>1, SetVersion DEF Query
  <2>2. /\ asked' = new /\ sent' = Answer(version')
        /\ UNCHANGED <<mode, upstream, groups>>
    BY <1>1 DEF Query
  <2>3. /\ mode = "mld2only" => Answer(version') = {}
        /\ mode = "both" /\ version' = 2 => Answer(version') = {}
        /\ mode # "mld2only" /\ version' # 2 =>
             Answer(version') = IF groups THEN {1} ELSE {}
    <3>1. CASE mode = "mld2only"
      BY <3>1 DEF Answer, mld2_send_report
    <3>2. CASE mode = "both" /\ version' = 2
      BY <3>2 DEF Answer, mld2_send_report
    <3>3. CASE mode # "mld2only" /\ version' # 2
      <4>1. version' \in {0, 1} /\ (mode = "mld1only" \/ version' = 1)
        BY <1>0, <2>1, <3>3
      <4>2. Answer(version') = IF groups THEN mld_send_report(version') ELSE {}
        BY <3>3, <4>1 DEF Answer
      <4>3. mld_send_report(version') = {1}
        <5>1. mld_send_report(version') =
                UNION {{1}, IF /\ mode # "mld1only"
                               /\ mode = "mld2only" \/ version' \in {0, 2}
                            THEN {} ELSE {}}
          BY <3>3, <4>1 DEF mld_send_report, mld1_send_report, mld2_send_report
        <5> QED
          BY <5>1
      <4> QED
        BY <3>3, <4>2, <4>3
    <3>4. /\ mode = "both" => mode # "mld2only"
          /\ \/ mode = "mld2only"
             \/ mode # "mld2only" /\ version' # 2
             \/ mode # "mld2only" /\ version' = 2
      OBVIOUS
    <3> QED
      BY <3>1, <3>2, <3>3, <3>4, Zenon
  <2>4. sent' \in SUBSET {1, 2}
    <3>1. Answer(version') = {} \/ Answer(version') = {1}
      BY <1>0, <2>1, <2>3
    <3> QED
      BY <2>2, <3>1
  <2> QED
    BY <1>0, <2>1, <2>2, <2>3, <2>4 DEF Inv, TypeOK, TimedV1, Versions, AnsweredBelowV2
<1>2. ASSUME NEW new \in {1, 2}, Report(new)
      PROVE  Inv'
  <2>1. /\ version' \in 0..2
        /\ lastV1' \in Age
        /\ heardV1' \in Age
        /\ version' = 1 <=> lastV1' # Never
        /\ mode = "mld1only" => version' # 2
    BY <1>0, <1>2, SetVersion DEF Report
  <2>2. groups' \in BOOLEAN
    BY <1>0, <1>2, Zenon DEF Report, TypeOK
  <2> QED
    BY <1>0, <1>2, <2>1, <2>2 DEF Report, Inv, TypeOK, TimedV1, Versions, AnsweredBelowV2
<1>3. CASE Second
  BY <1>0, <1>3, Ages DEF Second, Inv, TypeOK, TimedV1, Versions, AnsweredBelowV2
<1>4. CASE remove_grpintn
  <2>1. groups' \in BOOLEAN
    BY <1>0, <1>4, Zenon DEF remove_grpintn, TypeOK
  <2> QED
    BY <1>0, <1>4, <2>1 DEF remove_grpintn, Inv, TypeOK, TimedV1, Versions, AnsweredBelowV2
<1>5. CASE IntCreate
  <2>1. groups' \in BOOLEAN
    BY <1>0, <1>5, Zenon DEF IntCreate, TypeOK
  <2> QED
    BY <1>0, <1>5, <2>1, Ages DEF IntCreate, Inv, TypeOK, TimedV1, Versions, AnsweredBelowV2
<1>6. CASE UNCHANGED vars
  BY <1>6 DEF vars, Inv, TypeOK, TimedV1, Versions, AnsweredBelowV2
<1> QED
  BY <1>1, <1>2, <1>3, <1>4, <1>5, <1>6 DEF Next, Message

\* The version, the ages and what is sent keep their types, and the reports that
\* answer a query are of a version that exists.
THEOREM VersionTypeCorrect == Spec => []TypeOK
<1>1. Spec => []Inv
  BY VersionInit, VersionStep, PTL DEF Spec
<1> QED
  BY <1>1, PTL DEF Inv

\* An interface is at version 1 exactly while int_set_mld_version has a time for
\* it, whatever the timeout and the order of the messages: none is stuck there.
THEOREM Version1IsTimed == Spec => []TimedV1
<1>1. Spec => []Inv
  BY VersionInit, VersionStep, PTL DEF Spec
<1> QED
  BY <1>1, PTL DEF Inv

\* Unless the daemon is to speak MLDv2 only, l4_ipv6_icmpv6_mld_query answers every
\* query below version 2 on an interface that has groups, and sends nothing on one that
\* has none.
THEOREM QueriesAreAnswered == Spec => []AnsweredBelowV2
<1>1. Spec => []Inv
  BY VersionInit, VersionStep, PTL DEF Spec
<1> QED
  BY <1>1, PTL DEF Inv
=============================================================================
