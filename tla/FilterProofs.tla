---------------------------- MODULE FilterProofs ----------------------------
(***************************************************************************)
(* Lemmas about source lists and interface nodes that the proofs of the    *)
(* modules built from them cite.                                           *)
(***************************************************************************)
EXTENDS FilterState, TLAPS

-----------------------------------------------------------------------------
(* Source lists and nodes.                                                  *)

\* A source list is a function from some of the sources to timers.
LEMMA SrcListIntro ==
  ASSUME NEW D \in SUBSET Source, NEW a \in [D -> Timer]
  PROVE  a \in SrcList
BY DEF SrcList

\* The addresses of a source list are sources, and their timers are timers.
LEMMA SrcListElim ==
  ASSUME NEW a \in SrcList
  PROVE  /\ DOMAIN a \in SUBSET Source
         /\ a \in [DOMAIN a -> Timer]
BY DEF SrcList

\* The intervals are timers, and a timer stays one as time passes.
LEMMA TimerValues ==
  /\ 0 \in Timer
  /\ MALI \in Timer
  /\ LLQI \in Timer
  /\ \A t \in Timer : Elapse(t) \in Timer
BY TimerAssumption DEF Timer, Elapse

\* Each list operation of linklist.c and set_source_timers returns a list.
LEMMA ListOpsType ==
  ASSUME NEW a \in SrcList, NEW B \in SUBSET Source
  PROVE  /\ list_intersect(a, B) \in SrcList
         /\ list_union(a, B) \in SrcList
         /\ list_difference(a, B) \in SrcList
         /\ list_remove_all(a, B) \in SrcList
         /\ list_add_all(a, B).list \in SrcList
         /\ list_add_all(a, B).nulls \in BOOLEAN
         /\ \A t \in Timer : set_source_timers(a, B, t) \in SrcList
         /\ AgeList(a) \in SrcList
<1> USE SrcListElim, TimerValues
<1>1. list_intersect(a, B) \in SrcList
  BY SrcListIntro, list_intersect(a, B) \in [DOMAIN a \cap B -> Timer]
  DEF list_intersect
<1>2. list_union(a, B) \in SrcList
  BY SrcListIntro, list_union(a, B) \in [DOMAIN a \cup B -> Timer]
  DEF list_union
<1>3. list_difference(a, B) \in SrcList
  BY SrcListIntro, list_difference(a, B) \in [DOMAIN a \ B -> Timer]
  DEF list_difference
<1>4. list_remove_all(a, B) \in SrcList
  BY SrcListIntro, list_remove_all(a, B) \in [DOMAIN a \ B -> Timer]
  DEF list_remove_all
<1>5. list_add_all(a, B).list \in SrcList /\ list_add_all(a, B).nulls \in BOOLEAN
  BY DEF list_add_all
<1>6. ASSUME NEW t \in Timer
      PROVE  set_source_timers(a, B, t) \in SrcList
  BY SrcListIntro, set_source_timers(a, B, t) \in [DOMAIN a -> Timer]
  DEF set_source_timers
<1>7. AgeList(a) \in SrcList
  BY SrcListIntro, AgeList(a) \in [DOMAIN a -> Timer] DEF AgeList
<1> QED
  BY <1>1, <1>2, <1>3, <1>4, <1>5, <1>6, <1>7

\* grpint_create makes a node.
LEMMA NewNodeType == NewNode \in Node
<1>1. EmptyList \in SrcList
  BY SrcListIntro, EmptyList \in [{} -> Timer] DEF EmptyList
<1> QED
  BY <1>1, TimerValues DEF NewNode, Node

\* handle_downstream_subscription returns a node, whatever the record.
LEMMA HandleType ==
  ASSUME NEW n \in Node, NEW type \in GrecType, NEW B \in SUBSET Source
  PROVE  handle_downstream_subscription(n, type, B) \in Node
<1> USE TimerValues
<1>1. /\ n.mode \in {INCLUDE, EXCLUDE}
      /\ n.inc \in SrcList
      /\ n.nulls \in BOOLEAN
      /\ n.exc \in SUBSET Source
      /\ n.ft \in Timer
      /\ DOMAIN n.inc \in SUBSET Source
  BY SrcListElim DEF Node
<1>2. IncludeAllow(n, type, B) \in Node
  <2>1. list_union(n.inc, B) \in SrcList
    BY <1>1, ListOpsType
  <2>2. set_source_timers(list_union(n.inc, B), B, MALI) \in SrcList
    BY <2>1, ListOpsType
  <2>3. set_source_timers(set_source_timers(list_union(n.inc, B), B, MALI),
                          DOMAIN n.inc \ B, LLQI) \in SrcList
    BY <1>1, <2>2, ListOpsType, DOMAIN n.inc \ B \in SUBSET Source
  <2> QED
    BY <1>1, <2>2, <2>3 DEF IncludeAllow, Node
<1>3. IncludeToExclude(n, type, B) \in Node
  <2>1. list_intersect(n.inc, B) \in SrcList
    BY <1>1, ListOpsType
  <2>2. set_source_timers(list_intersect(n.inc, B), B, LLQI) \in SrcList
    BY <2>1, ListOpsType
  <2> QED
    BY <1>1, <2>1, <2>2 DEF IncludeToExclude, Node
<1>4. IncludeBlock(n, B) \in Node
  BY <1>1, ListOpsType DEF IncludeBlock, Node
<1>5. ExcludeAllow(n, type, B) \in Node
  <2> DEFINE u == set_source_timers(list_union(n.inc, B), DOMAIN n.inc \cup B, MALI)
  <2>1. u \in SrcList
    BY <1>1, ListOpsType, DOMAIN n.inc \cup B \in SUBSET Source
  <2>2. set_source_timers(u, DOMAIN n.inc \ B, LLQI) \in SrcList
    <3> HIDE DEF u
    <3> QED  BY <1>1, <2>1, ListOpsType, DOMAIN n.inc \ B \in SUBSET Source
  <2> QED
    BY <1>1, <2>1, <2>2 DEF ExcludeAllow, Node
<1>6. ExcludeExclude(n, type, B) \in Node
  <2> DEFINE r == list_remove_all(n.inc, DOMAIN n.inc \ B)
  <2>1. r \in SrcList
    BY <1>1, ListOpsType, DOMAIN n.inc \ B \in SUBSET Source
  <2>2. set_source_timers(r, B \ n.exc, LLQI) \in SrcList
    <3> HIDE DEF r
    <3> QED  BY <1>1, <2>1, ListOpsType, B \ n.exc \in SUBSET Source
  <2> QED
    BY <1>1, <2>1, <2>2 DEF ExcludeExclude, Node
<1>7. ExcludeBlock(n, B) \in Node
  <2> DEFINE d == list_add_all(n.inc, B \ n.exc)
  <2>1. d.list \in SrcList /\ d.nulls \in BOOLEAN
    BY <1>1, ListOpsType, B \ n.exc \in SUBSET Source
  <2>2. set_source_timers(d.list, B \ n.exc, LLQI) \in SrcList
    <3> HIDE DEF d
    <3> QED  BY <1>1, <2>1, ListOpsType, B \ n.exc \in SUBSET Source
  <2> QED
    BY <1>1, <2>1, <2>2 DEF ExcludeBlock, Node
<1> QED
  BY <1>1, <1>2, <1>3, <1>4, <1>5, <1>6, <1>7
  DEF handle_downstream_subscription, GrecType, Including, Excluding, INCLUDE, EXCLUDE

\* Time and expiry keep a node a node, and expiry removes only expired sources.
LEMMA ExpiryType ==
  ASSUME NEW n \in Node
  PROVE  /\ Age(n) \in Node
         /\ ExpireIncludes(n) \in Node
         /\ [n EXCEPT !.mode = INCLUDE] \in Node
<1>1. /\ n.inc \in SrcList
      /\ n.ft \in Timer
      /\ DOMAIN n.inc \in SUBSET Source
      /\ n.inc \in [DOMAIN n.inc -> Timer]
  BY SrcListElim DEF Node
<1>2. Age(n) \in Node
  BY <1>1, ListOpsType, TimerValues DEF Age, Node
<1>3. ExpireIncludes(n) \in Node
  <2> DEFINE L == {t \in DOMAIN n.inc : n.inc[t] > 0}
             a == [s \in L |-> n.inc[s]]
  <2>1. a \in [L -> Timer] /\ L \in SUBSET Source
    BY <1>1
  <2>2. a \in SrcList
    BY <2>1, SrcListIntro
  <2> QED
    BY <1>1, <2>2 DEF ExpireIncludes, Node
<1>4. [n EXCEPT !.mode = INCLUDE] \in Node
  BY DEF Node
<1> QED
  BY <1>2, <1>3, <1>4
=============================================================================
