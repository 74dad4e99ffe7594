------------------------ MODULE GroupInterfaceProofs ------------------------
(***************************************************************************)
(* Proofs about one interface node: its type, and its agreement with RFC   *)
(* 3810 where the runs find agreement, for every set of sources and every  *)
(* choice of the intervals.                                                *)
(***************************************************************************)
EXTENDS GroupInterface, FilterProofs

\* A node always has its type, and in INCLUDE mode no filter timer: every
\* branch of handle_downstream_subscription and expire_sources keeps both.
THEOREM NodeTypeCorrect == Spec => []TypeOK
<1>1. Init => TypeOK
  BY NewNodeType DEF Init, TypeOK, NewNode
<1>2. TypeOK /\ [Next]_node => TypeOK'
  <2> SUFFICES ASSUME TypeOK, [Next]_node
               PROVE  TypeOK'
    OBVIOUS
  <2>0. node \in Node /\ (node.mode = INCLUDE => node.ft = 0)
    BY DEF TypeOK
  <2>1. ASSUME NEW type \in GrecType, NEW B \in SUBSET Source, Record(type, B)
        PROVE  TypeOK'
    <3>1. node' \in Node
      BY <2>0, <2>1, HandleType DEF Record
    <3>2. node'.mode = INCLUDE => node'.ft = 0
      BY <2>0, <2>1
      DEF Record, handle_downstream_subscription, IncludeAllow, IncludeToExclude,
          IncludeBlock, ExcludeAllow, ExcludeExclude, ExcludeBlock, Node,
          GrecType, Including, Excluding, INCLUDE, EXCLUDE
    <3> QED
      BY <3>1, <3>2 DEF TypeOK
  <2>2. CASE Second
    <3>1. node' \in Node
      BY <2>0, <2>2, ExpiryType DEF Second
    <3>2. node'.mode = node.mode /\ node'.ft = Elapse(node.ft)
      BY <2>0, <2>2 DEF Second, Age, Node
    <3> QED
      BY <2>0, <3>1, <3>2 DEF TypeOK, Elapse
  <2>3. CASE Expire
    <3>1. ExpireIncludes(node) \in Node /\ [node EXCEPT !.mode = INCLUDE] \in Node
      BY <2>0, ExpiryType
    <3>2. ExpireIncludes(node).ft = node.ft /\ [node EXCEPT !.mode = INCLUDE].ft = node.ft
      BY <2>0 DEF ExpireIncludes, Node
    <3> QED
      BY <2>0, <2>3, <3>1, <3>2, NewNodeType
      DEF Expire, TypeOK, NewNode, Node, INCLUDE, EXCLUDE
  <2>4. CASE UNCHANGED node
    BY <2>4 DEF TypeOK
  <2> QED
    BY <2>1, <2>2, <2>3, <2>4 DEF Next
<1> QED
  BY <1>1, <1>2, PTL DEF Spec

\* Row by row, an INCLUDE node with no filter timer follows RFC 3810.
LEMMA IncludeRows ==
  ASSUME NEW n \in Node, n.mode = INCLUDE, n.ft = 0,
         NEW type \in GrecType, NEW B \in SUBSET Source
  PROVE  FollowsRfc(n, type, B)
<1> DEFINE m == handle_downstream_subscription(n, type, B)
           X == DOMAIN n.inc
<1>0. /\ X \in SUBSET Source
      /\ n.inc \in [X -> Timer]
      /\ n.exc \in SUBSET Source
  BY SrcListElim DEF Node
<1>t. /\ MALI \in Nat /\ LLQI \in Nat /\ 0 < LLQI /\ LLQI < MALI
      /\ \A t \in Timer : t \in Nat /\ t <= MALI
  BY TimerAssumption DEF Timer
<1>1. CASE type \in Including
  <2>1. m = IncludeAllow(n, type, B)
    BY <1>1 DEF handle_downstream_subscription, Including, Excluding, INCLUDE, EXCLUDE
  <2>2. /\ DOMAIN m.inc = X \cup B
        /\ m.exc = n.exc
        /\ \A s \in X \cup B :
             m.inc[s] = IF s \in B THEN MALI
                        ELSE IF type = "TO_IN" THEN LLQI ELSE n.inc[s]
    BY <2>1 DEF IncludeAllow, set_source_timers, list_union, Node
  <2>3. RfcRequested(n, type, B) = X \cup B /\ RfcExcluded(n, type, B) = n.exc
    BY <1>1 DEF RfcRequested, RfcExcluded, Including, Excluding, INCLUDE, EXCLUDE
  <2>4. ASSUME NEW s \in X \cup B
        PROVE  RfcTimers(n, type, B)[s] <= m.inc[s]
    <3>1. RfcTimers(n, type, B)[s] =
            LET t == IF s \in B THEN MALI ELSE IF s \in X THEN n.inc[s] ELSE 0
            IN  IF s \in RfcQueried(n, type, B) THEN Lower(t) ELSE t
      <4> HIDE DEF m
      <4>1. type \notin {"TO_EX", "BLOCK"}
        BY <1>1 DEF Including
      <4>2. RfcTimers(n, type, B) = Timers(n, X \cup B, B, MALI, RfcQueried(n, type, B))
        BY <1>1, <2>3, <4>1 DEF RfcTimers, INCLUDE, EXCLUDE
      <4> QED
        BY <4>2 DEF Timers
    <3>2. RfcQueried(n, type, B) = IF type = "TO_IN" THEN X \ B ELSE {}
      BY <1>1 DEF RfcQueried, Including
    <3>3. CASE s \in B
      <4>1. s \notin RfcQueried(n, type, B)
        BY <3>2, <3>3
      <4>2. RfcTimers(n, type, B)[s] = MALI /\ m.inc[s] = MALI
        BY <2>2, <3>1, <3>3, <4>1
      <4> QED
        BY <1>t, <4>2
    <3>4. CASE s \notin B
      <4>1. s \in X /\ n.inc[s] \in Nat
        BY <1>0, <1>t, <3>4
      <4> QED
        BY <1>t, <2>2, <3>1, <3>2, <3>4, <4>1 DEF Lower
    <3> QED
      BY <3>3, <3>4
  <2> QED
    BY <2>2, <2>3, <2>4 DEF FollowsRfc
<1>2. CASE type \in Excluding
  <2>1. m = IncludeToExclude(n, type, B)
    BY <1>2 DEF handle_downstream_subscription, Including, Excluding, INCLUDE, EXCLUDE
  <2>2. /\ DOMAIN m.inc = X \cap B
        /\ m.exc = B \ X
        /\ \A s \in X \cap B : m.inc[s] = IF type = "TO_EX" THEN LLQI ELSE n.inc[s]
    BY <2>1 DEF IncludeToExclude, set_source_timers, list_intersect, Node
  <2>3. RfcRequested(n, type, B) = X \cap B /\ RfcExcluded(n, type, B) = B \ X
    BY <1>2 DEF RfcRequested, RfcExcluded, Including, Excluding, INCLUDE, EXCLUDE
  <2>4. ASSUME NEW s \in X \cap B
        PROVE  RfcTimers(n, type, B)[s] <= m.inc[s]
    <3>1. RfcTimers(n, type, B)[s] =
            IF s \in RfcQueried(n, type, B) THEN Lower(n.inc[s]) ELSE n.inc[s]
      BY <1>2, <2>3 DEF RfcTimers, Timers, Including, Excluding, INCLUDE, EXCLUDE
    <3>2. RfcQueried(n, type, B) = IF type = "TO_EX" THEN X \cap B ELSE {}
      BY <1>2 DEF RfcQueried, Excluding
    <3> QED
      BY <1>0, <1>t, <2>2, <3>1, <3>2 DEF Lower
  <2> QED
    BY <2>2, <2>3, <2>4 DEF FollowsRfc
<1>3. CASE type = "BLOCK"
  <2>1. m = IncludeBlock(n, B)
    BY <1>3 DEF handle_downstream_subscription, Including, Excluding, INCLUDE, EXCLUDE
  <2>2. /\ DOMAIN m.inc = X
        /\ m.exc = n.exc
        /\ \A s \in X : m.inc[s] = IF s \in B THEN LLQI ELSE n.inc[s]
    BY <2>1 DEF IncludeBlock, set_source_timers, Node
  <2>3. RfcRequested(n, type, B) = X /\ RfcExcluded(n, type, B) = n.exc
    BY <1>3 DEF RfcRequested, RfcExcluded, Including, Excluding, INCLUDE, EXCLUDE
  <2>4. ASSUME NEW s \in X
        PROVE  RfcTimers(n, type, B)[s] <= m.inc[s]
    <3>1. RfcTimers(n, type, B)[s] =
            IF s \in RfcQueried(n, type, B) THEN Lower(n.inc[s]) ELSE n.inc[s]
      BY <1>3, <2>3 DEF RfcTimers, Timers, Including, Excluding, INCLUDE, EXCLUDE
    <3>2. RfcQueried(n, type, B) = X \cap B
      BY <1>3 DEF RfcQueried
    <3> QED
      BY <1>0, <1>t, <2>2, <3>1, <3>2 DEF Lower
  <2> QED
    BY <2>2, <2>3, <2>4 DEF FollowsRfc
<1> QED
  BY <1>1, <1>2, <1>3 DEF GrecType, Including, Excluding

\* The branches for INCLUDE mode of handle_downstream_subscription implement
\* RFC 3810, for any sources and intervals.
THEOREM IncludeFollows == Spec => []IncludeFollowsRfc
<1>1. TypeOK => IncludeFollowsRfc
  BY IncludeRows DEF TypeOK, IncludeFollowsRfc
<1> QED
  BY <1>1, NodeTypeCorrect, PTL

\* In both modes the queries sent for sources and for the group and the mode
\* switched to are those of RFC 3810, and the filter timer is no shorter.
THEOREM ConversationFollows == Spec => []ConversesLikeRfc
<1>1. ASSUME NEW n \in Node, n.mode = INCLUDE => n.ft = 0,
             NEW type \in GrecType, NEW B \in SUBSET Source
      PROVE  Converses(n, type, B)
  <2> DEFINE m == handle_downstream_subscription(n, type, B)
  <2>1. QueriedSources(n, type, B) = RfcQueried(n, type, B)
    BY DEF QueriedSources, RfcQueried, Node, GrecType, INCLUDE, EXCLUDE
  <2>2. /\ m.mode = RfcMode(n, type)
        /\ m.ft = IF type \in Excluding THEN MALI
                  ELSE IF QueriesGroup(n, type) THEN LLQI ELSE n.ft
    BY DEF handle_downstream_subscription, IncludeAllow, IncludeToExclude,
           IncludeBlock, ExcludeAllow, ExcludeExclude, ExcludeBlock, Node,
           RfcMode, QueriesGroup, GrecType, Including, Excluding, INCLUDE, EXCLUDE
  <2>3. n.ft \in Nat /\ MALI \in Nat /\ LLQI \in Nat
    BY TimerAssumption DEF Node, Timer
  <2>4. m.ft >= RfcFilterTimer(n, type)
    BY <2>2, <2>3 DEF RfcFilterTimer, Lower, QueriesGroup, Excluding, INCLUDE, EXCLUDE
  <2>5. QueriesGroup(n, type) = RfcQueriesGroup(n, type)
    BY DEF QueriesGroup, RfcQueriesGroup
  <2> QED
    BY <2>1, <2>2, <2>4, <2>5 DEF Converses
<1>2. TypeOK => ConversesLikeRfc
  BY <1>1 DEF TypeOK, ConversesLikeRfc
<1> QED
  BY <1>2, NodeTypeCorrect, PTL
=============================================================================
