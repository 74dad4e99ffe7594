-------------------------- MODULE MembershipProofs --------------------------
(***************************************************************************)
(* Proofs about the membership core, for every set of groups, sources and  *)
(* descriptors, every choice of the intervals and every length of report,  *)
(* and about the daemon with kernel forwarding (module Proxy), which is    *)
(* shown to implement the core and so to inherit what is proved of it.     *)
(***************************************************************************)
EXTENDS Proxy, FilterProofs, FiniteSetTheorems

-----------------------------------------------------------------------------
(* The group table and the sockets.                                         *)

IsTable(t) == DOMAIN t \subseteq Key /\ t \in [DOMAIN t -> Node]

\* Putting a node into a table, or dropping one, leaves a table.
LEMMA TableType ==
  ASSUME NEW t, IsTable(t), NEW k \in Key
  PROVE  /\ IsTable(Drop(t, k))
         /\ \A n \in Node : IsTable(Put(t, k, n))
BY DEF IsTable, Put, Drop

\* handle_upstream_subscription asks for sets of sources of routed groups only.
LEMMA FiltersType ==
  ASSUME NEW t, IsTable(t), NEW i \in Iface
  PROVE  Filters(t, i) \in SocketState
<1>1. Joins(t, i) \in SUBSET Group
  BY DEF Joins
<1>2. ASSUME NEW g \in Joins(t, i)
      PROVE  Admit(t[<<g, i>>]) \in SUBSET Source
  <2>1. t[<<g, i>>] \in Node
    BY DEF IsTable, Joins
  <2> QED
    BY <2>1, SrcListElim DEF Admit, Node
<1>3. Filters(t, i) \in [Joins(t, i) -> SUBSET Source]
  BY <1>2 DEF Filters
<1> QED
  BY <1>1, <1>3 DEF SocketState

\* handle_upstream_subscription keeps the types of what it changes.
LEMMA ResubscribeType ==
  ASSUME TypeOK, NEW t, IsTable(t), NEW i \in Iface, NEW b \in {"idle", "expire"},
         Resubscribe(i, t, b)
  PROVE  /\ sock' \in [Iface -> Fd \cup {0, -1}]
         /\ DOMAIN open' \subseteq Fd
         /\ open' \in [DOMAIN open' -> SocketState]
         /\ pc' = "close"
         /\ ret' = b
         /\ old' \in Fd \cup {0, -1}
<1>1. /\ sock \in [Iface -> Fd \cup {0, -1}]
      /\ DOMAIN open \subseteq Fd
      /\ open \in [DOMAIN open -> SocketState]
  BY DEF TypeOK
<1>2. ASSUME NEW fd \in Fd
      PROVE  /\ DOMAIN Put(open, fd, Filters(t, i)) \subseteq Fd
             /\ Put(open, fd, Filters(t, i))
                  \in [DOMAIN Put(open, fd, Filters(t, i)) -> SocketState]
  BY <1>1, FiltersType DEF Put
<1> QED
  BY <1>1, <1>2 DEF Resubscribe

\* The types, and the values of the handlers' local variables.
IType == TypeOK /\ Control

\* The daemon starts well typed.
LEMMA TypeInit == Init => IType
<1> SUFFICES ASSUME Init
             PROVE  IType
  OBVIOUS
<1>1. DOMAIN nodes \subseteq Key /\ nodes \in [DOMAIN nodes -> Node]
  BY DEF Init
<1>2. DOMAIN open \subseteq Fd /\ open \in [DOMAIN open -> SocketState]
  BY DEF Init
<1>3. left \in 0..MaxRecords
  BY ConstantAssumption DEF Init
<1> QED
  BY <1>1, <1>2, <1>3 DEF Init, IType, TypeOK, Control, Handler

\* The removal of a node from expiry or a packet keeps the types.
LEMMA RemoveType ==
  ASSUME IType, NEW k \in DOMAIN nodes, NEW b \in {"idle", "expire"},
         RemoveNode(k, b) \/ SwitchToInclude(k, b)
  PROVE  /\ IsTable(nodes')
         /\ DOMAIN nodes \ {k} \subseteq DOMAIN nodes'
         /\ sock' \in [Iface -> Fd \cup {0, -1}]
         /\ DOMAIN open' \subseteq Fd
         /\ open' \in [DOMAIN open' -> SocketState]
         /\ pc' = "close"
         /\ ret' = b
         /\ old' \in Fd \cup {0, -1}
<1> DEFINE n == [nodes[k] EXCEPT !.mode = INCLUDE]
<1>1. IsTable(nodes) /\ k \in Key /\ k[2] \in Iface /\ n \in Node
  BY ExpiryType DEF IType, TypeOK, IsTable, Key
<1>2. IsTable(Drop(nodes, k)) /\ IsTable(Put(nodes, k, n))
  BY <1>1, TableType
<1>3. /\ DOMAIN nodes \ {k} \subseteq DOMAIN Drop(nodes, k)
      /\ DOMAIN nodes \subseteq DOMAIN Put(nodes, k, n)
  BY DEF Drop, Put
<1>4. CASE RemoveNode(k, b)
  BY <1>1, <1>2, <1>3, <1>4, ResubscribeType DEF RemoveNode, IType
<1>5. CASE SwitchToInclude(k, b)
  <2>1. Resubscribe(k[2], Put(nodes, k, n), b) /\ nodes' \in {Drop(nodes, k), Put(nodes, k, n)}
    BY <1>5 DEF SwitchToInclude
  <2> HIDE DEF n
  <2> QED
    BY <1>1, <1>2, <1>3, <2>1, ResubscribeType DEF IType
<1> QED
  BY <1>4, <1>5

\* Every step of every handler keeps the types and the control state.
LEMMA TypeStep == IType /\ [Next]_vars => IType'
<1> SUFFICES ASSUME IType, [Next]_vars
             PROVE  IType'
  OBVIOUS
<1> USE DEF IType, Handler
<1>t. IsTable(nodes)
  BY DEF TypeOK, IsTable
<1>1. ASSUME NEW i \in Listeners, NEW n \in 1..MaxRecords, Report(i, n)
      PROVE  IType'
  <2>1. i \in Iface /\ n \in 0..MaxRecords
    BY ConstantAssumption
  <2> QED
    BY <1>1, <2>1 DEF Report, TypeOK, Control
<1>2. ASSUME NEW i \in Listeners, NEW g \in Group, Mld1Report(i, g)
      PROVE  IType'
  <2>1. groupint_get(<<g, i>>) \in Node
    BY NewNodeType DEF groupint_get, TypeOK
  <2>2. IsTable(nodes')
    BY <1>2, <1>t, <2>1, TableType, ConstantAssumption, <<g, i>> \in Key
    DEF Mld1Report, Key
  <2>3. DOMAIN nodes \subseteq DOMAIN nodes'
    BY <1>2 DEF Mld1Report, Put
  <2> QED
    BY <1>2, <2>2, <2>3 DEF Mld1Report, TypeOK, Control, IsTable
<1>3. ASSUME NEW g \in Group, NEW type \in GrecType, NEW B \in SUBSET Source,
             ApplyRecord(g, type, B)
      PROVE  IType'
  <2> DEFINE k == <<g, intn>>
  <2>1. k \in Key
    BY <1>3 DEF ApplyRecord, Control, Key
  <2>2. groupint_get(k) \in Node
    BY NewNodeType DEF groupint_get, TypeOK
  <2>3. IsTable(nodes')
    BY <1>3, <1>t, <2>1, <2>2, TableType, HandleType DEF ApplyRecord
  <2>4. DOMAIN nodes \subseteq DOMAIN nodes'
    BY <1>3 DEF ApplyRecord, Put
  <2>5. alive' \subseteq Iface
    BY <1>3 DEF ApplyRecord, mld_send_query, Send, TypeOK
  <2>6. left' \in 0..MaxRecords
    BY <1>3, ConstantAssumption DEF ApplyRecord, TypeOK
  <2> QED
    BY <1>3, <2>3, <2>4, <2>5, <2>6 DEF ApplyRecord, TypeOK, Control, IsTable
<1>4. CASE StopReport
  BY <1>4, ConstantAssumption DEF StopReport, TypeOK, Control
<1>5. CASE EndReport
  <2>1. CASE touched
    BY <1>5, <1>t, <2>1, ResubscribeType DEF EndReport, TypeOK, Control
  <2>2. CASE ~ touched
    BY <1>5, <2>2 DEF EndReport, TypeOK, Control
  <2> QED
    BY <2>1, <2>2
<1>6. CASE CloseOld
  BY <1>6 DEF CloseOld, Drop, TypeOK, Control
<1>7. CASE Timeout
  BY <1>7 DEF Timeout, mld_send_query, Send, TypeOK, Control
<1>8. ASSUME NEW k \in visit, ExpireSome(k)
      PROVE  IType'
  <2>1. k \in Key /\ nodes[k] \in Node
    BY DEF TypeOK
  <2>2. IsTable(nodes') /\ DOMAIN nodes' = DOMAIN nodes
    <3>1. IsTable(Put(nodes, k, ExpireIncludes(nodes[k])))
      BY <1>t, <2>1, TableType, ExpiryType
    <3>2. DOMAIN Put(nodes, k, ExpireIncludes(nodes[k])) = DOMAIN nodes
      BY DEF Put, TypeOK
    <3> QED
      BY <1>8, <1>t, <3>1, <3>2 DEF ExpireSome
  <2> QED
    BY <1>8, <2>2 DEF ExpireSome, TypeOK, Control, IsTable
<1>9. ASSUME NEW k \in visit, ExpireLast(k) \/ ExpireFilter(k)
      PROVE  IType'
  <2>1. k \in DOMAIN nodes /\ (RemoveNode(k, "expire") \/ SwitchToInclude(k, "expire"))
    BY <1>9 DEF ExpireLast, ExpireFilter, TypeOK
  <2>2. /\ visit' = visit \ {k}
        /\ UNCHANGED <<alive, intn, left, touched, due>>
        /\ pc = "expire"
    BY <1>9 DEF ExpireLast, ExpireFilter
  <2> QED
    BY <2>1, <2>2, RemoveType DEF TypeOK, Control, IsTable
<1>10. CASE Crash /\ pc # "report" /\ pc # "close"
  BY <1>10 DEF Crash, TypeOK, Control
<1>11. CASE EndTimeout
  BY <1>11 DEF EndTimeout, TypeOK, Control
<1>12. CASE Second
  <2>1. IsTable(nodes') /\ DOMAIN nodes' = DOMAIN nodes
    BY <1>12, <1>t, ExpiryType DEF Second, IsTable
  <2> QED
    BY <1>12, <2>1 DEF Second, TypeOK, Control, IsTable
<1>13. ASSUME NEW k \in DOMAIN nodes, NEW s \in Source, ForwardExpired(k, s)
       PROVE  IType'
  <2>1. k \in Key /\ nodes[k] \in Node
    BY DEF TypeOK
  <2>2. WithoutSource(nodes[k], s) \in Node
    <3>1. list_difference(nodes[k].inc, {s}) \in SrcList
      BY <2>1, ListOpsType, {s} \in SUBSET Source DEF Node
    <3> QED
      BY <2>1, <3>1 DEF WithoutSource, Node
  <2>3. IsTable(nodes') /\ DOMAIN nodes' = DOMAIN nodes
    <3>1. IsTable(Put(nodes, k, WithoutSource(nodes[k], s)))
      BY <1>t, <2>1, <2>2, TableType
    <3> QED
      BY <1>13, <3>1 DEF ForwardExpired, Put
  <2> QED
    BY <1>13, <2>3 DEF ForwardExpired, Send, TypeOK, Control, IsTable
<1>14. ASSUME NEW k \in DOMAIN nodes, pc = "idle",
              RemoveNode(k, "idle") \/ SwitchToInclude(k, "idle"),
              UNCHANGED <<alive, intn, left, touched, visit, due>>
       PROVE  IType'
  BY <1>14, RemoveType DEF TypeOK, Control, IsTable
<1>15. ASSUME NEW k \in DOMAIN nodes, NEW s \in Source, ForwardLost(k, s)
       PROVE  IType'
  BY <1>15 DEF ForwardLost, TypeOK, Control
<1>16. ASSUME NEW i \in Iface, AnswerLost(i) \/ IntCreate(i)
       PROVE  IType'
  BY <1>16 DEF AnswerLost, IntCreate, TypeOK, Control
<1>17. CASE UNCHANGED vars
  BY <1>17 DEF vars, TypeOK, Control
<1> QED
  <2>1. CASE HandleReport
    BY <2>1, <1>3, <1>4, <1>5 DEF HandleReport
  <2>2. CASE ExpireSources
    BY <2>2, <1>8, <1>9, <1>10, <1>11 DEF ExpireSources, ExpireCrash
  <2>3. CASE Forward
    BY <2>3, <1>10, <1>13, <1>14, <1>15
    DEF Forward, ForwardCrash, ForwardLast, ForwardSwitch
  <2> QED
    BY <2>1, <2>2, <2>3, <1>1, <1>2, <1>6, <1>7, <1>12, <1>16, <1>17 DEF Next

\* Every variable of the membership core keeps its type: in particular
\* expire_sources never visits a node that is no longer in the table, since no
\* handler that can remove nodes runs while it has nodes left to visit.
THEOREM TypeCorrect == Spec => []TypeOK
<1>1. Spec => []IType
  BY TypeInit, TypeStep, PTL DEF Spec
<1> QED
  BY <1>1, PTL DEF IType

-----------------------------------------------------------------------------
(* Sources stay on their lists while their timers run.                      *)

\* The sources of a node whose timers run.
Live(n) == {s \in DOMAIN n.inc : n.inc[s] > 0}

\* Table u has the nodes of table t that have live sources, with these sources.
KeepsLive(t, u) ==
  \A k \in DOMAIN t : \A s \in Live(t[k]) : k \in DOMAIN u /\ s \in DOMAIN u[k].inc

\* A node may be replaced by one that has its live sources, and dropped if it has
\* none.
LEMMA LiveTable ==
  ASSUME NEW t, NEW k \in DOMAIN t, NEW n
  PROVE  /\ Live(t[k]) \subseteq DOMAIN n.inc => KeepsLive(t, Put(t, k, n))
         /\ Live(t[k]) = {} => KeepsLive(t, Drop(t, k))
<1>1. /\ DOMAIN Put(t, k, n) = DOMAIN t /\ Put(t, k, n)[k] = n
      /\ \A j \in DOMAIN t \ {k} : Put(t, k, n)[j] = t[j]
  BY DEF Put
<1>2. /\ DOMAIN Drop(t, k) = DOMAIN t \ {k}
      /\ \A j \in DOMAIN t \ {k} : Drop(t, k)[j] = t[j]
  BY DEF Drop
<1>3. \A j : Live(t[j]) \subseteq DOMAIN t[j].inc
  BY DEF Live
<1> QED
  BY <1>1, <1>2, <1>3 DEF KeepsLive

\* mld2_switch_to_include keeps the includes list, or drops a node that has none.
LEMMA SwitchKeeps ==
  ASSUME IType, NEW k \in DOMAIN nodes, NEW b, SwitchToInclude(k, b)
  PROVE  KeepsLive(nodes, nodes')
<1> DEFINE n == [nodes[k] EXCEPT !.mode = INCLUDE]
<1>1. n.inc = nodes[k].inc
  BY DEF IType, TypeOK, Node
<1>2. nodes' = IF IsEmpty(n) THEN Drop(nodes, k) ELSE Put(nodes, k, n)
  BY DEF SwitchToInclude
<1>3. IsEmpty(n) => Live(nodes[k]) = {}
  BY <1>1 DEF IsEmpty, Live
<1>4. Live(nodes[k]) \subseteq DOMAIN n.inc
  BY <1>1 DEF Live
<1> HIDE DEF n
<1> QED
  BY <1>2, <1>3, <1>4, LiveTable

\* No step but a record of a report loses a live source.
LEMMA LiveStep ==
  ASSUME IType, [Next]_vars, pc # "report"
  PROVE  KeepsLive(nodes, nodes')
<1> USE DEF IType
<1>1. nodes' = nodes => KeepsLive(nodes, nodes')
  BY DEF KeepsLive, Live
<1>2. \A k \in DOMAIN nodes : nodes[k] \in Node
  BY DEF TypeOK
<1>3. ASSUME NEW i, NEW g, Mld1Report(i, g)
      PROVE  KeepsLive(nodes, nodes')
  BY <1>3 DEF Mld1Report, groupint_get, Put, KeepsLive, Live
<1>4. ASSUME NEW k \in DOMAIN nodes, ExpireSome(k) \/ ExpireLast(k)
      PROVE  KeepsLive(nodes, nodes')
  <2> DEFINE n == ExpireIncludes(nodes[k])
  <2>1. DOMAIN n.inc = Live(nodes[k])
    BY <1>2 DEF ExpireIncludes, Live, Node
  <2>2. RunsEmpty(nodes[k]) => Live(nodes[k]) = {}
    BY <2>1 DEF RunsEmpty, IsEmpty
  <2>3. CASE ExpireSome(k)
    <3>1. nodes' = Put(nodes, k, n) \/ nodes' = nodes
      BY <2>3 DEF ExpireSome
    <3> HIDE DEF n
    <3> QED
      BY <1>1, <2>1, <3>1, LiveTable
  <2>4. CASE ExpireLast(k)
    BY <2>2, <2>4, LiveTable DEF ExpireLast, RemoveNode
  <2> QED
    BY <1>4, <2>3, <2>4
<1>5. ASSUME NEW k \in DOMAIN nodes, NEW s, ForwardExpired(k, s) \/ ForwardLast(k, s)
      PROVE  KeepsLive(nodes, nodes')
  <2> DEFINE n == WithoutSource(nodes[k], s)
  <2>1. s \notin Live(nodes[k])
    BY <1>5 DEF ForwardExpired, ForwardLast, SourceExpired, Live
  <2>2. DOMAIN n.inc = DOMAIN nodes[k].inc \ {s}
    BY <1>2 DEF WithoutSource, list_difference, Node
  <2>3. Live(nodes[k]) \subseteq DOMAIN n.inc
    BY <2>1, <2>2 DEF Live
  <2>4. IsEmpty(n) => Live(nodes[k]) = {}
    BY <2>2, <2>3 DEF IsEmpty
  <2>5. ForwardExpired(k, s) => nodes' = Put(nodes, k, n)
    BY DEF ForwardExpired
  <2>6. ForwardLast(k, s) => IsEmpty(n) /\ nodes' = Drop(nodes, k)
    BY DEF ForwardLast, RemoveNode
  <2> HIDE DEF n
  <2> QED
    BY <1>5, <2>3, <2>4, <2>5, <2>6, LiveTable
<1>6. CASE Second
  <2>1. \A k \in DOMAIN nodes : DOMAIN Age(nodes[k]).inc = DOMAIN nodes[k].inc
    BY <1>2 DEF Age, AgeList, Node
  <2>2. nodes' = [k \in DOMAIN nodes |-> Age(nodes[k])]
    BY <1>6 DEF Second
  <2> QED
    BY <2>1, <2>2 DEF KeepsLive, Live
<1>7. CASE ExpireSources
  <2>1. visit \subseteq DOMAIN nodes
    BY DEF TypeOK
  <2> QED
    BY <1>1, <1>4, <1>7, <2>1, SwitchKeeps
    DEF ExpireSources, ExpireFilter, ExpireCrash, EndTimeout, Crash
<1>8. CASE Forward
  BY <1>1, <1>5, <1>8, SwitchKeeps DEF Forward, ForwardSwitch, ForwardCrash, ForwardLost, Crash
<1>9. ~ HandleReport
  BY DEF HandleReport, ApplyRecord, StopReport, EndReport
<1> QED
  BY <1>1, <1>3, <1>6, <1>7, <1>8, <1>9
  DEF Next, vars, Report, CloseOld, Timeout, AnswerLost, IntCreate

\* Neither time, nor expiry, nor a packet, nor a device that comes or goes takes a
\* source off a list before its timer has run out.
THEOREM LiveSourcesStay == Spec => LiveSourceKept
<1>1. ASSUME IType, [Next]_vars
      PROVE  [pc # "report" =>
                \A k \in DOMAIN nodes : \A s \in DOMAIN nodes[k].inc :
                  nodes[k].inc[s] > 0 => k \in DOMAIN nodes' /\ s \in DOMAIN nodes'[k].inc]_vars
  BY <1>1, LiveStep DEF KeepsLive, Live
<1>2. Spec => []IType
  BY TypeInit, TypeStep, PTL DEF Spec
<1> QED
  BY <1>1, <1>2, PTL DEF Spec, LiveSourceKept

-----------------------------------------------------------------------------
(* What a step does to the group table and to the sockets.                  *)

\* On interface i table u joins the groups table t joins, and no source more:
\* what serves t serves u.
NoMore(t, u, i) ==
  /\ Joins(u, i) = Joins(t, i)
  /\ \A g \in Joins(t, i) : Admit(u[<<g, i>>]) \subseteq Admit(t[<<g, i>>])

\* Changing the node of one interface is invisible to the other.
LEMMA OtherInterface ==
  ASSUME NEW t, NEW k \in Key, NEW n, NEW i \in Iface, k[2] # i
  PROVE  NoMore(t, Put(t, k, n), i) /\ NoMore(t, Drop(t, k), i)
<1>1. \A g \in Group : <<g, i>> # k
  BY DEF Key
<1>2. /\ Joins(Put(t, k, n), i) = Joins(t, i)
      /\ \A g \in Joins(t, i) : Put(t, k, n)[<<g, i>>] = t[<<g, i>>]
  BY <1>1 DEF Joins, Put
<1>3. /\ Joins(Drop(t, k), i) = Joins(t, i)
      /\ \A g \in Joins(t, i) : Drop(t, k)[<<g, i>>] = t[<<g, i>>]
  BY <1>1 DEF Joins, Drop
<1> QED
  BY <1>2, <1>3 DEF NoMore

\* A node of the same mode that is empty only if the one it replaces is, and has no
\* new sources, asks for no more.
LEMMA SmallerNode ==
  ASSUME NEW t, NEW k \in DOMAIN t, k \in Key, NEW n, NEW i \in Iface,
         n.mode = t[k].mode,
         n.mode = INCLUDE => (IsEmpty(n) <=> IsEmpty(t[k])),
         DOMAIN n.inc \subseteq DOMAIN t[k].inc
  PROVE  NoMore(t, Put(t, k, n), i)
<1>1. Joins(Put(t, k, n), i) = Joins(t, i)
  BY DEF Joins, Put
<1>2. \A g \in Joins(t, i) : Admit(Put(t, k, n)[<<g, i>>]) \subseteq Admit(t[<<g, i>>])
  BY DEF Joins, Put, Admit
<1> QED
  BY <1>1, <1>2 DEF NoMore

\* An empty INCLUDE node might as well not be there.
LEMMA EmptyNode ==
  ASSUME NEW t, NEW k \in Key, NEW n, n.mode = INCLUDE, IsEmpty(n), NEW i \in Iface
  PROVE  /\ NoMore(Put(t, k, n), Drop(t, k), i)
         /\ k \notin DOMAIN t => NoMore(t, Put(t, k, n), i)
<1>1. /\ Joins(Put(t, k, n), i) = Joins(Drop(t, k), i)
      /\ \A g \in Joins(Drop(t, k), i) : Put(t, k, n)[<<g, i>>] = Drop(t, k)[<<g, i>>]
  BY DEF Joins, Put, Drop
<1>2. k \notin DOMAIN t =>
        /\ Joins(Put(t, k, n), i) = Joins(t, i)
        /\ \A g \in Joins(t, i) : Put(t, k, n)[<<g, i>>] = t[<<g, i>>]
  BY DEF Joins, Put
<1> QED
  BY <1>1, <1>2 DEF NoMore

\* A table asks for no more than itself.
LEMMA SameTable == \A t, i : NoMore(t, t, i)
BY DEF NoMore

\* A step that leaves the sockets alone asks for no more on an interface, unless
\* it is a record of a report, whose end will see to it.
Lessens ==
  /\ UNCHANGED <<sock, open, old>>
  /\ \A i \in Iface : Settled(i)' => Settled(i) /\ NoMore(nodes, nodes', i)

\* handle_upstream_subscription runs for interface i, and what it asks for is what
\* the table will hold.
Renews(i) ==
  /\ pc # "close"
  /\ ~ touched'
  /\ \/ i = intn /\ pc = "report"
     \/ \E k \in DOMAIN nodes : i = k[2]
  /\ \E t, b : Resubscribe(i, t, b) /\ NoMore(t, nodes', i)
  /\ \A j \in Iface \ {i} : Settled(j) /\ NoMore(nodes, nodes', j)

\* The removal of a node, or of its filter, is told upstream.
LEMMA RemoveRenews ==
  ASSUME IType, NEW k \in DOMAIN nodes, NEW b, pc # "close", ~ touched, ~ touched',
         RemoveNode(k, b) \/ SwitchToInclude(k, b)
  PROVE  Renews(k[2]) /\ k[2] \in Iface
<1>1. k \in Key /\ k[2] \in Iface
  BY DEF IType, TypeOK, Key
<1>2. \A j \in Iface : Settled(j)
  BY DEF Settled
<1>3. CASE RemoveNode(k, b)
  <2>1. nodes' = Drop(nodes, k) /\ Resubscribe(k[2], Drop(nodes, k), b)
    BY <1>3 DEF RemoveNode
  <2>2. \A j \in Iface \ {k[2]} : NoMore(nodes, nodes', j)
    BY <1>1, <2>1, OtherInterface
  <2>3. NoMore(Drop(nodes, k), nodes', k[2])
    BY <2>1, SameTable
  <2> QED
    BY <1>1, <1>2, <2>1, <2>2, <2>3 DEF Renews
<1>4. CASE SwitchToInclude(k, b)
  <2> DEFINE n == [nodes[k] EXCEPT !.mode = INCLUDE]
  <2>1. /\ nodes' = IF IsEmpty(n) THEN Drop(nodes, k) ELSE Put(nodes, k, n)
        /\ Resubscribe(k[2], Put(nodes, k, n), b)
    BY <1>4 DEF SwitchToInclude
  <2>2. n.mode = INCLUDE
    BY DEF IType, TypeOK, Node
  <2> HIDE DEF n
  <2>3. \A j \in Iface \ {k[2]} : NoMore(nodes, nodes', j)
    BY <1>1, <2>1, OtherInterface
  <2>4. NoMore(Put(nodes, k, n), nodes', k[2])
    BY <1>1, <2>1, <2>2, EmptyNode, SameTable
  <2> QED
    BY <1>1, <1>2, <2>1, <2>3, <2>4 DEF Renews
<1> QED
  BY <1>3, <1>4

\* Every step lessens what is asked for, renews the subscription of an interface,
\* closes the socket that was renewed, or forgets one.
LEMMA TableSteps ==
  ASSUME IType, [Next]_vars
  PROVE  \/ Lessens
         \/ \E i \in Iface : Renews(i)
         \/ CloseOld
         \/ \E i \in Iface : IntCreate(i)
<1> USE DEF IType
<1>1. \A k \in DOMAIN nodes : k \in Key /\ k[2] \in Iface /\ nodes[k] \in Node
  BY DEF TypeOK, Key
<1>2. ASSUME UNCHANGED <<nodes, sock, open, old>>, ~ touched \/ UNCHANGED <<touched, intn>>
      PROVE  Lessens
  BY <1>2, SameTable DEF Lessens, Settled
<1>3. ASSUME UNCHANGED <<sock, open, old, touched, intn>>,
             \A i \in Iface : NoMore(nodes, nodes', i)
      PROVE  Lessens
  BY <1>3 DEF Lessens, Settled
<1>4. ASSUME NEW g \in Group, NEW type, NEW B, ApplyRecord(g, type, B)
      PROVE  Lessens
  <2> DEFINE k == <<g, intn>>
  <2>1. /\ nodes' = Put(nodes, k, handle_downstream_subscription(groupint_get(k), type, B))
        /\ pc = "report" /\ touched' /\ intn' = intn
        /\ UNCHANGED <<sock, open, old>>
    BY <1>4 DEF ApplyRecord
  <2>2. k \in Key /\ k[2] = intn
    BY <2>1 DEF Control, Key
  <2> HIDE DEF k
  <2>3. ASSUME NEW i \in Iface, Settled(i)'
        PROVE  Settled(i) /\ NoMore(nodes, nodes', i)
    <3>1. intn # i
      BY <2>1, <2>3 DEF Settled
    <3> QED
      BY <2>1, <2>2, <3>1, OtherInterface DEF Settled
  <2> QED
    BY <2>1, <2>3 DEF Lessens
<1>5. CASE EndReport
  <2>1. pc = "report" /\ nodes' = nodes /\ ~ touched' /\ intn \in Iface
    BY <1>5 DEF EndReport, Control
  <2>2. CASE touched
    <3>1. Resubscribe(intn, nodes, "idle")
      BY <1>5, <2>2 DEF EndReport
    <3>2. Renews(intn)
      BY <2>1, <3>1, SameTable DEF Renews, Settled
    <3> QED
      BY <2>1, <3>2
  <2>3. CASE ~ touched
    BY <1>2, <1>5, <2>3 DEF EndReport
  <2> QED
    BY <2>2, <2>3
<1>6. ASSUME NEW i \in Iface, NEW g \in Group, Mld1Report(i, g)
      PROVE  Lessens
  <2> DEFINE k == <<g, i>>
  <2>1. /\ nodes' = Put(nodes, k, groupint_get(k))
        /\ UNCHANGED <<sock, open, old, touched, intn>>
    BY <1>6 DEF Mld1Report
  <2>2. k \in Key
    BY DEF Key
  <2> HIDE DEF k
  <2>3. CASE k \in DOMAIN nodes
    BY <1>3, <2>1, <2>2, <2>3, SmallerNode DEF groupint_get
  <2>4. CASE k \notin DOMAIN nodes
    <3>1. NewNode.mode = INCLUDE /\ IsEmpty(NewNode)
      BY DEF NewNode, IsEmpty, EmptyList
    <3> QED
      BY <1>3, <2>1, <2>2, <2>4, <3>1, EmptyNode DEF groupint_get
  <2> QED
    BY <2>3, <2>4
<1>7. ASSUME NEW k \in DOMAIN nodes, ExpireSome(k)
      PROVE  Lessens
  <2> DEFINE n == ExpireIncludes(nodes[k])
  <2>1. /\ nodes' = (IF nodes[k].mode = INCLUDE THEN Put(nodes, k, n) ELSE nodes)
        /\ UNCHANGED <<sock, open, old, touched, intn>>
        /\ ~ RunsEmpty(nodes[k])
    BY <1>7 DEF ExpireSome
  <2>2. /\ n.mode = nodes[k].mode
        /\ DOMAIN n.inc \subseteq DOMAIN nodes[k].inc
        /\ n.nulls = nodes[k].nulls
    BY DEF ExpireIncludes, TypeOK, Node
  <2>3. n.mode = INCLUDE => (IsEmpty(n) <=> IsEmpty(nodes[k]))
    BY <2>1, <2>2 DEF RunsEmpty, IsEmpty
  <2> HIDE DEF n
  <2>4. \A j \in Iface : NoMore(nodes, nodes', j)
    BY <1>1, <2>1, <2>2, <2>3, SmallerNode, SameTable
  <2> QED
    BY <1>3, <2>1, <2>4
<1>8. ASSUME NEW k \in DOMAIN nodes, NEW s \in Source, ForwardExpired(k, s)
      PROVE  Lessens
  <2> DEFINE n == WithoutSource(nodes[k], s)
  <2>1. /\ nodes' = Put(nodes, k, n)
        /\ UNCHANGED <<sock, open, old, touched, intn>>
        /\ ~ IsEmpty(n) /\ SourceExpired(k, s)
    BY <1>8 DEF ForwardExpired
  <2>2. /\ n.mode = nodes[k].mode
        /\ DOMAIN n.inc \subseteq DOMAIN nodes[k].inc
    BY DEF WithoutSource, list_difference, TypeOK, Node
  <2>3. ~ IsEmpty(nodes[k])
    BY <2>1 DEF SourceExpired, IsEmpty
  <2> HIDE DEF n
  <2>4. \A j \in Iface : NoMore(nodes, nodes', j)
    BY <1>1, <2>1, <2>2, <2>3, SmallerNode
  <2> QED
    BY <1>3, <2>1, <2>4
<1>9. CASE Second
  <2>1. /\ nodes' = [k \in DOMAIN nodes |-> Age(nodes[k])]
        /\ UNCHANGED <<sock, open, old, touched, intn>>
    BY <1>9 DEF Second
  <2>2. \A k \in DOMAIN nodes : /\ Age(nodes[k]).mode = nodes[k].mode
                                /\ Age(nodes[k]).nulls = nodes[k].nulls
                                /\ DOMAIN Age(nodes[k]).inc = DOMAIN nodes[k].inc
    BY DEF Age, AgeList, TypeOK, Node
  <2>3. ASSUME NEW j \in Iface
        PROVE  /\ Joins(nodes', j) = Joins(nodes, j)
               /\ \A g \in Joins(nodes, j) : Admit(nodes'[<<g, j>>]) = Admit(nodes[<<g, j>>])
    BY <2>1, <2>2 DEF Joins, Admit, IsEmpty
  <2> QED
    BY <1>3, <2>1, <2>3 DEF NoMore
<1>10. CASE HandleReport
  BY <1>2, <1>4, <1>5, <1>10 DEF HandleReport, StopReport
<1>11. CASE ExpireSources
  <2>1. visit \subseteq DOMAIN nodes
    BY DEF TypeOK
  <2>2. CASE EndTimeout
    BY <1>2, <2>2 DEF EndTimeout
  <2>3. ASSUME NEW k \in visit, ExpireLast(k) \/ ExpireFilter(k)
        PROVE  \E i \in Iface : Renews(i)
    BY <2>1, <2>3, RemoveRenews DEF ExpireLast, ExpireFilter, Control
  <2>4. ASSUME NEW k \in visit, ExpireCrash(k)
        PROVE  Lessens
    BY <1>2, <2>4 DEF ExpireCrash, Crash
  <2> QED
    BY <1>7, <1>11, <2>1, <2>2, <2>3, <2>4 DEF ExpireSources
<1>12. CASE Forward
  <2>1. PICK k \in DOMAIN nodes :
          \/ \E s \in Source : \/ ForwardExpired(k, s) \/ ForwardLast(k, s)
                               \/ ForwardCrash(k, s) \/ ForwardLost(k, s)
          \/ ForwardSwitch(k)
    BY <1>12 DEF Forward
  <2>2. ASSUME NEW s \in Source, ForwardCrash(k, s) \/ ForwardLost(k, s)
        PROVE  Lessens
    BY <1>2, <2>2 DEF ForwardCrash, ForwardLost, Crash
  <2>3. ASSUME NEW s \in Source, ForwardLast(k, s) \/ ForwardSwitch(k)
        PROVE  \E i \in Iface : Renews(i)
    BY <2>3, RemoveRenews DEF ForwardLast, ForwardSwitch, Control
  <2>4. CASE ForwardSwitch(k)
    BY <2>4, RemoveRenews DEF ForwardSwitch, Control
  <2> QED
    BY <1>8, <2>1, <2>2, <2>3, <2>4
<1>13. ASSUME NEW i \in Iface, NEW n, Report(i, n)
       PROVE  Lessens
  BY <1>2, <1>13 DEF Report, Control
<1>14. CASE Timeout
  BY <1>2, <1>14 DEF Timeout
<1>15. ASSUME NEW i \in Iface, AnswerLost(i)
       PROVE  Lessens
  BY <1>2, <1>15 DEF AnswerLost
<1>16. CASE UNCHANGED vars
  BY <1>2, <1>16 DEF vars
<1> QED
  BY <1>6, <1>9, <1>10, <1>11, <1>12, <1>13, <1>14, <1>15, <1>16, ConstantAssumption DEF Next

-----------------------------------------------------------------------------
(* Sockets are never shared or taken away.                                  *)

\* Neither "no socket" nor "failed" is a descriptor.
LEMMA FdFacts == 0 \notin Fd /\ -1 \notin Fd
BY ConstantAssumption

\* handle_upstream_subscription makes a new descriptor and marks the
\* interface's own old one, so the other interface keeps its own.
LEMMA ResubscribeOwn ==
  ASSUME IType, OwnSockets, pc # "close", NEW t, NEW i \in Iface, NEW b,
         Resubscribe(i, t, b)
  PROVE  OwnSockets'
<1>1. sock \in [Iface -> Fd \cup {0, -1}] /\ DOMAIN open \subseteq Fd
  BY DEF IType, TypeOK
<1>2. old' = sock[i]
  BY DEF Resubscribe
<1>3. ASSUME sock' = [sock EXCEPT ![i] = 0] \/ sock' = [sock EXCEPT ![i] = -1],
             open' = open
      PROVE  OwnSockets'
  BY <1>1, <1>2, <1>3, FdFacts DEF OwnSockets
<1>4. ASSUME NEW fd \in Fd \ DOMAIN open,
             sock' = [sock EXCEPT ![i] = fd],
             open' = Put(open, fd, Filters(t, i))
      PROVE  OwnSockets'
  <2>1. DOMAIN open' = DOMAIN open \cup {fd}
    BY <1>4 DEF Put
  <2>2. ASSUME NEW j \in Iface, sock'[j] \in Fd
        PROVE  /\ sock'[j] \in DOMAIN open'
               /\ sock'[j] # old'
               /\ \A l \in Iface : sock'[l] = sock'[j] => l = j
    <3>1. CASE j = i
      BY <1>1, <1>2, <1>4, <2>1, <3>1, FdFacts DEF OwnSockets
    <3>2. CASE j # i
      BY <1>1, <1>2, <1>4, <2>1, <2>2, <3>2, FdFacts DEF OwnSockets
    <3> QED
      BY <3>1, <3>2
  <2> QED
    BY <2>2 DEF OwnSockets
<1> QED
  BY <1>3, <1>4 DEF Resubscribe, Free

\* Whether the downstream device comes and goes or not, the descriptor an interface
\* remembers is its own open socket: handle_upstream_subscription never closes the socket of
\* the other interface.
THEOREM SocketsAreOwn == Spec => []OwnSockets
<1>1. Init => OwnSockets
  BY FdFacts DEF Init, OwnSockets
<1>2. IType /\ OwnSockets /\ [Next]_vars => OwnSockets'
  <2> SUFFICES ASSUME IType, OwnSockets, [Next]_vars
               PROVE  OwnSockets'
    OBVIOUS
  <2>1. ASSUME NEW i \in Iface, Renews(i)
        PROVE  OwnSockets'
    BY <2>1, ResubscribeOwn DEF Renews
  <2>2. CASE CloseOld
    <3>1. DOMAIN open' = DOMAIN open \ {old} /\ sock' = sock /\ old' = 0
      BY <2>2 DEF CloseOld, Drop
    <3> QED
      BY <3>1, FdFacts DEF OwnSockets
  <2>3. ASSUME NEW i \in Iface, IntCreate(i)
        PROVE  OwnSockets'
    BY <2>3, FdFacts DEF IntCreate, OwnSockets, IType, TypeOK
  <2>4. CASE Lessens
    BY <2>4 DEF Lessens, OwnSockets
  <2> QED
    BY <2>1, <2>2, <2>3, <2>4, TableSteps
<1>3. Spec => []IType
  BY TypeInit, TypeStep, PTL DEF Spec
<1> QED
  BY <1>1, <1>2, <1>3, PTL DEF Spec

-----------------------------------------------------------------------------
(* While the devices stay, what is wanted downstream is joined upstream.    *)

\* The socket sk[i] stands for the nodes table t has on interface i.
Subscribed(t, sk, op, i) ==
  IF Joins(t, i) = {}
  THEN sk[i] = 0
  ELSE /\ sk[i] \in DOMAIN op
       /\ DOMAIN op[sk[i]] = Joins(t, i)
       /\ \A g \in Joins(t, i) : Admit(t[<<g, i>>]) \subseteq op[sk[i]][g]

\* The inductive strengthening of NoSocketLeak, JoinedExactly and Covered: the
\* filter of a socket admits at least the sources of the node's list, wanted or
\* not, because expiry takes sources off a list without telling the kernel.
Stable ==
  /\ alive = Iface
  /\ \A i \in Iface : sock[i] # -1
  /\ NoSocketLeak
  /\ \A i \in Iface : Settled(i) => Subscribed(nodes, sock, open, i)

\* A table that joins the same groups and wants no more sources is served by
\* the same socket.
LEMMA SubscribedMono ==
  ASSUME NEW t, NEW u, NEW sk, NEW op, NEW i,
         Subscribed(t, sk, op, i),
         NoMore(t, u, i)
  PROVE  Subscribed(u, sk, op, i)
BY DEF Subscribed, NoMore

\* handle_upstream_subscription finds a descriptor, serves its interface from
\* the table it is given, and leaves the other interface served.
LEMMA ResubscribeStable ==
  ASSUME IType, OwnSockets, pc # "close", NoSocketLeak,
         \A j \in Iface : sock[j] # -1,
         NEW t, NEW i \in Iface, NEW b, Resubscribe(i, t, b)
  PROVE  /\ \A j \in Iface : sock'[j] # -1
         /\ NoSocketLeak'
         /\ Subscribed(t, sock', open', i)
         /\ \A u : \A j \in Iface \ {i} :
              Subscribed(u, sock, open, j) => Subscribed(u, sock', open', j)
<1>1. /\ sock \in [Iface -> Fd \cup {0}]
      /\ DOMAIN open \subseteq Fd
      /\ old = 0
      /\ old' = sock[i]
  BY DEF IType, TypeOK, Control, Resubscribe
<1>2. PICK c \in Fd : c # sock["upstream"] /\ c # sock["downstream"]
  BY <1>1, DescriptorAssumption DEF Iface
<1>3. c \notin DOMAIN open
  BY <1>1, <1>2, FdFacts DEF NoSocketLeak, Iface
<1>4. CASE Joins(t, i) = {} /\ sock' = [sock EXCEPT ![i] = 0] /\ open' = open
  <2>1. NoSocketLeak'
    BY <1>1, <1>4, FdFacts DEF NoSocketLeak
  <2>2. \A j \in Iface \ {i} : sock'[j] = sock[j]
    BY <1>1, <1>4
  <2>3. sock'[i] = 0
    BY <1>1, <1>4
  <2> QED
    BY <1>1, <1>4, <2>1, <2>2, <2>3 DEF Subscribed
<1>5. ASSUME NEW fd \in Fd \ DOMAIN open, Joins(t, i) # {},
             sock' = [sock EXCEPT ![i] = fd], open' = Put(open, fd, Filters(t, i))
      PROVE  /\ \A j \in Iface : sock'[j] # -1
             /\ NoSocketLeak'
             /\ Subscribed(t, sock', open', i)
             /\ \A u : \A j \in Iface \ {i} :
                  Subscribed(u, sock, open, j) => Subscribed(u, sock', open', j)
  <2>1. /\ DOMAIN open' = DOMAIN open \cup {fd}
        /\ open'[fd] = Filters(t, i)
        /\ \A f \in DOMAIN open : open'[f] = open[f]
    BY <1>5 DEF Put
  <2>2. sock'[i] = fd /\ \A j \in Iface \ {i} : sock'[j] = sock[j]
    BY <1>1, <1>5
  <2>3. \A j \in Iface : sock'[j] # -1
    BY <1>1, <2>2, FdFacts
  <2>4. NoSocketLeak'
    BY <1>1, <2>1, <2>2, FdFacts DEF NoSocketLeak
  <2>5. Subscribed(t, sock', open', i)
    <3>1. /\ DOMAIN Filters(t, i) = Joins(t, i)
          /\ \A g \in Joins(t, i) : Filters(t, i)[g] = Admit(t[<<g, i>>])
      BY DEF Filters
    <3>2. sock'[i] \in DOMAIN open' /\ open'[sock'[i]] = Filters(t, i)
      BY <2>1, <2>2
    <3> QED
      BY <1>5, <3>1, <3>2 DEF Subscribed
  <2>6. \A u : \A j \in Iface \ {i} :
          Subscribed(u, sock, open, j) => Subscribed(u, sock', open', j)
    BY <2>1, <2>2 DEF Subscribed
  <2> QED
    BY <2>3, <2>4, <2>5, <2>6
<1> QED
  BY <1>2, <1>3, <1>4, <1>5 DEF Resubscribe, Free

\* Devices that stay are never destroyed, and never made again.
LEMMA DevicesStay ==
  ASSUME Volatile = {}, alive = Iface, [Next]_vars
  PROVE  alive' = Iface /\ \A i \in Iface : ~ IntCreate(i)
<1>1. \A i : Send(i) => alive' = alive
  BY DEF Send
<1>2. \A i : mld_send_query(i) => alive' = alive
  BY <1>1 DEF mld_send_query
<1>3. ASSUME HandleReport
      PROVE  alive' = alive
  BY <1>2, <1>3 DEF HandleReport, ApplyRecord, StopReport, EndReport
<1>4. ASSUME ExpireSources
      PROVE  alive' = alive
  BY <1>4 DEF ExpireSources, ExpireSome, ExpireLast, ExpireFilter, ExpireCrash, EndTimeout, Crash
<1>5. ASSUME Forward
      PROVE  alive' = alive
  BY <1>1, <1>5
  DEF Forward, ForwardExpired, ForwardLast, ForwardCrash, ForwardLost, ForwardSwitch, Crash
<1>6. \A i \in Iface : ~ AnswerLost(i) /\ ~ IntCreate(i)
  BY DEF AnswerLost, IntCreate
<1>7. alive' = alive
  BY <1>2, <1>3, <1>4, <1>5, <1>6 DEF Next, vars, Report, Mld1Report, CloseOld, Timeout, Second
<1> QED
  BY <1>6, <1>7

\* The step of the invariant, where the devices stay.
LEMMA StableStep ==
  ASSUME Volatile = {}, IType, OwnSockets, Stable, [Next]_vars
  PROVE  Stable'
<1>1. \A i \in Iface : Settled(i) => Subscribed(nodes, sock, open, i)
  BY DEF Stable
<1>2. alive' = Iface /\ \A i \in Iface : ~ IntCreate(i)
  BY DevicesStay DEF Stable
<1>3. CASE Lessens
  <2>1. NoSocketLeak' /\ \A i \in Iface : sock'[i] # -1
    BY <1>3 DEF Lessens, Stable, NoSocketLeak
  <2>2. ASSUME NEW i \in Iface, Settled(i)'
        PROVE  Subscribed(nodes', sock', open', i)
    <3>1. Subscribed(nodes, sock', open', i)
      BY <1>1, <1>3, <2>2 DEF Lessens
    <3> QED
      BY <1>3, <2>2, <3>1, SubscribedMono DEF Lessens
  <2>3. \A i \in Iface : (Settled(i) => Subscribed(nodes, sock, open, i))'
    BY <2>2
  <2> QED
    BY <1>2, <2>1, <2>3 DEF Stable
<1>4. ASSUME NEW i \in Iface, Renews(i)
      PROVE  Stable'
  <2>1. PICK t, b : Resubscribe(i, t, b) /\ NoMore(t, nodes', i)
    BY <1>4 DEF Renews
  <2>2. /\ \A j \in Iface : sock'[j] # -1
        /\ NoSocketLeak'
        /\ Subscribed(t, sock', open', i)
        /\ \A u : \A j \in Iface \ {i} :
             Subscribed(u, sock, open, j) => Subscribed(u, sock', open', j)
    BY <1>4, <2>1, ResubscribeStable DEF Stable, Renews
  <2>3. Subscribed(nodes', sock', open', i)
    BY <2>1, <2>2, SubscribedMono
  <2>4. ASSUME NEW j \in Iface \ {i}
        PROVE  Subscribed(nodes', sock', open', j)
    <3>1. Subscribed(nodes, sock', open', j) /\ NoMore(nodes, nodes', j)
      BY <1>1, <1>4, <2>2 DEF Renews
    <3> QED
      BY <3>1, SubscribedMono
  <2>5. \A j \in Iface : (Settled(j) => Subscribed(nodes, sock, open, j))'
    BY <2>3, <2>4
  <2> QED
    BY <1>2, <2>2, <2>5 DEF Stable
<1>5. CASE CloseOld
  <2>1. /\ open' = Drop(open, old) /\ old' = 0
        /\ UNCHANGED <<nodes, alive, sock, touched, intn>>
    BY <1>5 DEF CloseOld
  <2>2. /\ DOMAIN open' = DOMAIN open \ {old}
        /\ \A f \in DOMAIN open' : open'[f] = open[f]
    BY <2>1 DEF Drop
  <2>3. NoSocketLeak'
    BY <2>1, <2>2 DEF NoSocketLeak, Stable
  <2>4. ASSUME NEW i \in Iface, Subscribed(nodes, sock, open, i)
        PROVE  Subscribed(nodes, sock, open', i)
    <3>1. sock[i] \in DOMAIN open => sock[i] \in DOMAIN open'
      BY <2>2 DEF OwnSockets, IType, TypeOK
    <3> QED
      BY <2>2, <2>4, <3>1 DEF Subscribed
  <2>5. ASSUME NEW i \in Iface, Settled(i)'
        PROVE  Subscribed(nodes', sock', open', i)
    BY <1>1, <2>1, <2>4, <2>5 DEF Settled
  <2>6. \A i \in Iface : (Settled(i) => Subscribed(nodes, sock, open, i))'
    BY <2>5
  <2> QED
    BY <1>2, <2>1, <2>3, <2>6 DEF Stable
<1> QED
  BY <1>2, <1>3, <1>4, <1>5, TableSteps

\* A wanted source is on the list of a node that is joined.
LEMMA WantedIsJoined ==
  ASSUME NEW i \in Iface, NEW g \in Group, NEW s \in Source, <<g, i>> \in DOMAIN nodes,
         Wants(nodes[<<g, i>>], s)
  PROVE  g \in Joins(nodes, i) /\ s \in Admit(nodes[<<g, i>>])
BY DEF Wants, Joins, Admit, IsEmpty, INCLUDE, EXCLUDE

\* The invariant is as strong as what it is for.
LEMMA StableCovers == Stable => NoSocketLeak /\ JoinedExactly /\ Covered
<1> SUFFICES ASSUME Stable
             PROVE  NoSocketLeak /\ JoinedExactly /\ Covered
  OBVIOUS
<1>1. JoinedExactly
  BY DEF Stable, Subscribed, JoinedExactly
<1>2. ASSUME NEW i \in Iface, NEW g \in Group, NEW s \in Source, Settled(i),
             <<g, i>> \in DOMAIN nodes, Wants(nodes[<<g, i>>], s)
      PROVE  /\ sock[i] \in DOMAIN open
             /\ g \in DOMAIN open[sock[i]]
             /\ s \in open[sock[i]][g]
  BY <1>2, WantedIsJoined DEF Stable, Subscribed
<1> QED
  BY <1>1, <1>2 DEF Stable, Covered

\* While the devices stay, every reachable state is stable.
LEMMA AlwaysStable ==
  ASSUME Volatile = {}
  PROVE  Spec => [](IType /\ OwnSockets /\ Stable)
<1>1. Init => Stable
  BY DEF Init, Stable, NoSocketLeak, Subscribed, Joins
<1>2. IType /\ OwnSockets /\ Stable /\ [Next]_vars => Stable'
  BY StableStep
<1>3. Spec => []IType
  BY TypeInit, TypeStep, PTL DEF Spec
<1> QED
  BY <1>1, <1>2, <1>3, SocketsAreOwn, PTL DEF Spec

\* While the devices stay, the upstream side mirrors the downstream side: no
\* upstream socket leaks, each interface has joined exactly the groups it has
\* listeners for, and everything check_route would forward is let in.
THEOREM UpstreamExact ==
  ASSUME Volatile = {}
  PROVE  Spec => [](NoSocketLeak /\ JoinedExactly /\ Covered)
BY AlwaysStable, StableCovers, PTL

\* No socket that handle_upstream_subscription replaces is left open, while the
\* devices stay.
THEOREM SocketsAreClosed ==
  ASSUME Volatile = {}
  PROVE  Spec => []NoSocketLeak
BY UpstreamExact, PTL

\* The groups joined upstream are exactly those with listeners, outside the
\* handling of reports and while the devices stay.
THEOREM GroupsJoinedExactly ==
  ASSUME Volatile = {}
  PROVE  Spec => []JoinedExactly
BY UpstreamExact, PTL

\* What check_route would forward is let in upstream, outside the handling of
\* reports and while the devices stay.
THEOREM WantedIsCovered ==
  ASSUME Volatile = {}
  PROVE  Spec => []Covered
BY UpstreamExact, PTL

\* handle_upstream_subscription takes no stream away before it closes the old
\* socket: it joins on a descriptor that was not open.
LEMMA ResubscribeAdmits ==
  ASSUME NEW i, NEW t, NEW b, Resubscribe(i, t, b), NEW g, NEW s, Admitted(g, s)
  PROVE  Admitted(g, s)'
<1>1. open' = open \/ \E fd \in Fd \ DOMAIN open : open' = Put(open, fd, Filters(t, i))
  BY DEF Resubscribe, Free
<1>2. DOMAIN open \subseteq DOMAIN open' /\ \A f \in DOMAIN open : open'[f] = open[f]
  BY <1>1 DEF Put
<1> QED
  BY <1>2 DEF Admitted

\* A stream that is wanted is let in by a socket that is not the one to be closed.
LEMMA UninterruptedStep ==
  ASSUME IType, OwnSockets, Covered, [Next]_vars,
         NEW g \in Group, NEW s \in Source, Admitted(g, s),
         NEW i \in Iface, <<g, i>> \in DOMAIN nodes, Wants(nodes[<<g, i>>], s)
  PROVE  Admitted(g, s)'
<1>1. CASE Lessens \/ \E j \in Iface : IntCreate(j)
  BY <1>1 DEF Lessens, IntCreate, Admitted
<1>2. ASSUME NEW j \in Iface, Renews(j)
      PROVE  Admitted(g, s)'
  BY <1>2, ResubscribeAdmits DEF Renews
<1>3. CASE CloseOld
  <2>1. Settled(i) /\ DOMAIN open \subseteq Fd
    BY <1>3 DEF CloseOld, Settled, IType, TypeOK, Control
  <2>2. sock[i] \in DOMAIN open /\ g \in DOMAIN open[sock[i]] /\ s \in open[sock[i]][g]
    BY <2>1 DEF Covered
  <2>3. sock[i] # old
    BY <2>1, <2>2 DEF OwnSockets
  <2>4. sock[i] \in DOMAIN open' /\ open'[sock[i]] = open[sock[i]]
    BY <1>3, <2>2, <2>3 DEF CloseOld, Drop
  <2> QED
    BY <2>2, <2>4 DEF Admitted
<1> QED
  BY <1>1, <1>2, <1>3, TableSteps

\* While the devices stay, no step stops a stream from coming in that a listener
\* wants before and after it: every socket that is closed has been replaced.
THEOREM StreamsUninterrupted ==
  ASSUME Volatile = {}
  PROVE  Spec => StreamUninterrupted
<1>1. ASSUME IType, OwnSockets, Stable, [Next]_vars
      PROVE  [\A g \in Group, s \in Source :
                /\ Admitted(g, s)
                /\ \E i \in Iface :
                     /\ <<g, i>> \in DOMAIN nodes \cap DOMAIN nodes'
                     /\ Wants(nodes[<<g, i>>], s)
                     /\ Wants(nodes'[<<g, i>>], s)
                => Admitted(g, s)']_vars
  BY <1>1, StableCovers, UninterruptedStep
<1> QED
  BY <1>1, AlwaysStable, PTL DEF Spec, StreamUninterrupted

-----------------------------------------------------------------------------
(* Devices that vanish and come back.                                       *)

\* Only the interfaces that hear reports have nodes ...
NodesHeard ==
  /\ \A k \in DOMAIN nodes : k[2] \in Listeners
  /\ pc = "report" => intn \in Listeners

\* ... and sockets.
Heard ==
  /\ NodesHeard
  /\ \A i \in Iface \ Listeners : sock[i] = 0

\* Nothing but a report makes a node.
LEMMA NodesHeardStep ==
  ASSUME IType, NodesHeard, [Next]_vars
  PROVE  NodesHeard'
<1>1. ASSUME DOMAIN nodes' \subseteq DOMAIN nodes, pc' # "report" \/ UNCHANGED <<pc, intn>>
      PROVE  NodesHeard'
  BY <1>1 DEF NodesHeard
<1>2. visit \subseteq DOMAIN nodes /\ ret # "report"
  BY DEF IType, TypeOK
<1>3. ASSUME NEW i \in Listeners, NEW n \in 1..MaxRecords, Report(i, n)
      PROVE  NodesHeard'
  BY <1>3 DEF Report, NodesHeard
<1>4. ASSUME NEW i \in Listeners, NEW g \in Group, Mld1Report(i, g)
      PROVE  NodesHeard'
  BY <1>4 DEF Mld1Report, NodesHeard, Put
<1>5. CASE HandleReport
  <2>1. ASSUME NEW g \in Group, NEW type \in GrecType, NEW B \in SUBSET Source,
               ApplyRecord(g, type, B)
        PROVE  NodesHeard'
    BY <2>1 DEF ApplyRecord, NodesHeard, Put
  <2>2. CASE StopReport \/ EndReport
    BY <1>1, <2>2 DEF StopReport, EndReport, Resubscribe
  <2> QED
    BY <1>5, <2>1, <2>2 DEF HandleReport
<1>6. ASSUME NEW k \in DOMAIN nodes, NEW b \in {"idle", "expire"},
             RemoveNode(k, b) \/ SwitchToInclude(k, b)
      PROVE  NodesHeard'
  <2>1. DOMAIN nodes' \subseteq DOMAIN nodes
    BY <1>6 DEF RemoveNode, SwitchToInclude, Put, Drop
  <2>2. pc' = "close"
    BY <1>6 DEF RemoveNode, SwitchToInclude, Resubscribe
  <2> QED
    BY <1>1, <2>1, <2>2
<1>7. CASE ExpireSources
  <2>1. ASSUME NEW k \in visit, ExpireSome(k)
        PROVE  NodesHeard'
    <3>1. DOMAIN nodes' \subseteq DOMAIN nodes
      BY <1>2, <2>1 DEF ExpireSome, Put
    <3> QED
      BY <1>1, <2>1, <3>1 DEF ExpireSome
  <2>2. ASSUME NEW k \in visit, ExpireCrash(k)
        PROVE  NodesHeard'
    BY <1>1, <2>2 DEF ExpireCrash, Crash
  <2>3. CASE EndTimeout
    BY <1>1, <2>3 DEF EndTimeout
  <2> QED
    BY <1>2, <1>6, <1>7, <2>1, <2>2, <2>3 DEF ExpireSources, ExpireLast, ExpireFilter
<1>8. CASE Forward
  <2>1. ASSUME NEW k \in DOMAIN nodes, NEW s \in Source, ForwardExpired(k, s)
        PROVE  NodesHeard'
    <3>1. DOMAIN nodes' \subseteq DOMAIN nodes
      BY <2>1 DEF ForwardExpired, Put
    <3> QED
      BY <1>1, <2>1, <3>1 DEF ForwardExpired
  <2>2. ASSUME NEW k \in DOMAIN nodes, NEW s \in Source, ForwardCrash(k, s) \/ ForwardLost(k, s)
        PROVE  NodesHeard'
    BY <1>1, <2>2 DEF ForwardCrash, ForwardLost, Crash
  <2> QED
    BY <1>6, <1>8, <2>1, <2>2 DEF Forward, ForwardLast, ForwardSwitch
<1>9. CASE CloseOld \/ Timeout \/ Second
  BY <1>1, <1>2, <1>9 DEF CloseOld, Timeout, Second
<1>10. ASSUME NEW i \in Iface, AnswerLost(i) \/ IntCreate(i)
       PROVE  NodesHeard'
  BY <1>1, <1>10 DEF AnswerLost, IntCreate
<1>11. CASE UNCHANGED vars
  BY <1>1, <1>11 DEF vars
<1> QED
  BY <1>3, <1>4, <1>5, <1>7, <1>8, <1>9, <1>10, <1>11 DEF Next

\* Nothing is joined for an interface that has no nodes.
LEMMA HeardStep ==
  ASSUME IType, Heard, [Next]_vars
  PROVE  Heard'
<1>1. sock \in [Iface -> Fd \cup {0, -1}]
  BY DEF IType, TypeOK
<1>2. CASE Lessens \/ CloseOld
  BY <1>2, NodesHeardStep DEF Lessens, CloseOld, Heard
<1>3. ASSUME NEW i \in Iface, Renews(i)
      PROVE  Heard'
  <2>1. i \in Listeners
    BY <1>3 DEF Renews, Heard, NodesHeard
  <2>2. \A j \in Iface \ {i} : sock'[j] = sock[j]
    BY <1>1, <1>3 DEF Renews, Resubscribe
  <2> QED
    BY <2>1, <2>2, NodesHeardStep DEF Heard
<1>4. ASSUME NEW i \in Iface, IntCreate(i)
      PROVE  Heard'
  BY <1>1, <1>4, NodesHeardStep DEF IntCreate, Heard
<1> QED
  BY <1>2, <1>3, <1>4, TableSteps

\* A socket that is lost stays lost: nobody closes it.
LEMMA LostStaysLost ==
  ASSUME IType, [Next]_vars
  PROVE  Lost \subseteq Lost'
<1>1. /\ sock \in [Iface -> Fd \cup {0, -1}] /\ DOMAIN open \subseteq Fd
      /\ pc # "close" => old = 0
  BY DEF IType, TypeOK, Control
<1>2. CASE Lessens
  BY <1>2 DEF Lessens, Lost
<1>3. ASSUME NEW i \in Iface, Renews(i)
      PROVE  Lost \subseteq Lost'
  <2>1. PICK t, b : Resubscribe(i, t, b)
    BY <1>3 DEF Renews
  <2>2. /\ old' = sock[i]
        /\ \A j \in Iface \ {i} : sock'[j] = sock[j]
        /\ sock'[i] \notin DOMAIN open
        /\ DOMAIN open \subseteq DOMAIN open'
    BY <1>1, <2>1, FdFacts DEF Resubscribe, Free, Put
  <2> QED
    BY <2>2 DEF Lost
<1>4. CASE CloseOld
  BY <1>1, <1>4, FdFacts DEF CloseOld, Drop, Lost
<1>5. ASSUME NEW i \in Iface, IntCreate(i)
      PROVE  Lost \subseteq Lost'
  BY <1>1, <1>5, FdFacts DEF IntCreate, Lost
<1> QED
  BY <1>2, <1>3, <1>4, <1>5, TableSteps

\* The descriptors that are not lost suffice for the interfaces with listeners, and
\* one more.
Spare == Cardinality(Lost) + Cardinality(Listeners) < Cardinality(Fd)

\* There are finitely many interfaces.
LEMMA FiniteListeners == IsFiniteSet(Listeners) /\ Cardinality(Listeners) \in Nat
<1>1. IsFiniteSet({"upstream"})
  BY FS_Singleton
<1>2. IsFiniteSet({"upstream"} \cup {"downstream"})
  BY <1>1, FS_AddElement
<1>3. Listeners \subseteq {"upstream"} \cup {"downstream"}
  BY ConstantAssumption DEF Iface
<1> QED
  BY <1>2, <1>3, FS_Subset, FS_CardinalityType

\* The process has no fewer descriptors to spare than it will have.
LEMMA SpareStep ==
  ASSUME IType, IType', [Next]_vars, Spare'
  PROVE  Spare
<1>1. Lost \subseteq Lost' /\ Lost' \subseteq Fd
  BY LostStaysLost DEF Lost, IType, TypeOK
<1>2. IsFiniteSet(Fd)
  BY ConstantAssumption
<1>3. IsFiniteSet(Lost')
  BY <1>1, <1>2, FS_Subset
<1>4. IsFiniteSet(Lost) /\ Cardinality(Lost) <= Cardinality(Lost')
  BY <1>1, <1>3, FS_Subset
<1>5. Cardinality(Lost) \in Nat /\ Cardinality(Lost') \in Nat /\ Cardinality(Fd) \in Nat
  BY <1>2, <1>3, <1>4, FS_CardinalityType
<1> QED
  BY <1>4, <1>5, FiniteListeners DEF Spare

\* With descriptors to spare, and none about to be closed, socket() finds one.
LEMMA SpareIsFree ==
  ASSUME IType, Heard, Spare, old = 0
  PROVE  ~ (Fd \subseteq DOMAIN open)
<1> SUFFICES ASSUME Fd \subseteq DOMAIN open
             PROVE  FALSE
  OBVIOUS
<1> DEFINE Used == {f \in Fd : \E i \in Listeners : sock[i] = f}
           user == [f \in Used |-> CHOOSE i \in Listeners : sock[i] = f]
<1>1. IsFiniteSet(Fd)
  BY ConstantAssumption
<1>2. IsFiniteSet(Listeners)
  BY FiniteListeners
<1>3. \A f \in Used : user[f] \in Listeners /\ sock[user[f]] = f
  OBVIOUS
<1>4. user \in Injection(Used, Listeners)
  BY <1>3 DEF Injection, IsInjective
<1>5. IsFiniteSet(Used) /\ Cardinality(Used) <= Cardinality(Listeners)
  BY <1>2, <1>4, FS_Injection
<1>6. Fd \ Lost = Used /\ Lost \subseteq Fd /\ Fd \cap Lost = Lost
  BY FdFacts, ConstantAssumption DEF Lost, Heard, IType, TypeOK
<1>7. Cardinality(Used) = Cardinality(Fd) - Cardinality(Lost)
  BY <1>1, <1>6, FS_Difference
<1>8. IsFiniteSet(Lost)
  BY <1>1, <1>6, FS_Subset
<1>9. /\ Cardinality(Lost) \in Nat /\ Cardinality(Fd) \in Nat
       /\ Cardinality(Listeners) \in Nat /\ Cardinality(Used) \in Nat
  BY <1>1, <1>2, <1>5, <1>8, FS_CardinalityType
<1> HIDE DEF Used
<1> QED
  BY <1>5, <1>7, <1>9 DEF Spare

\* Source s of group g comes in through the socket of interface i or through one
\* that int_create has forgotten.
LetIn(i, g, s) ==
  \E f \in DOMAIN open \cap (Lost \cup {sock[i]}) : g \in DOMAIN open[f] /\ s \in open[f][g]

\* Everything table t asks for on interface i comes in.
AllIn(t, i) == \A g \in Joins(t, i) : \A s \in Admit(t[<<g, i>>]) : LetIn(i, g, s)

\* The inductive strengthening of AdmittedUntilExhausted.
Resilient == Spare => \A i \in Iface : Settled(i) => AllIn(nodes, i)

\* What comes in for an interface goes on coming in when its socket is forgotten, and
\* when a socket is opened or closed for the other one.
LEMMA LetInStays ==
  ASSUME IType, OwnSockets, [Next]_vars, NEW i \in Iface, ~ Renews(i), NEW g, NEW s, LetIn(i, g, s)
  PROVE  LetIn(i, g, s)'
<1>1. /\ sock \in [Iface -> Fd \cup {0, -1}] /\ DOMAIN open \subseteq Fd
      /\ pc # "close" => old = 0
  BY DEF IType, TypeOK, Control
<1>2. PICK f \in DOMAIN open : /\ f \in Lost \/ f = sock[i]
                               /\ g \in DOMAIN open[f] /\ s \in open[f][g]
  BY DEF LetIn
<1>3. f \in Fd /\ f # old
  BY <1>1, <1>2 DEF Lost, OwnSockets
<1>4. f \in DOMAIN open' /\ open'[f] = open[f] /\ f \in Lost' \cup {sock'[i]}
  <2>1. f \in Lost => f \in Lost'
    BY LostStaysLost
  <2>2. CASE Lessens
    BY <1>2, <2>1, <2>2 DEF Lessens
  <2>3. ASSUME NEW j \in Iface, Renews(j)
        PROVE  f \in DOMAIN open' /\ open'[f] = open[f] /\ f \in Lost' \cup {sock'[i]}
    <3>1. PICK t, b : Resubscribe(j, t, b)
      BY <2>3 DEF Renews
    <3>2. sock'[i] = sock[i]
      BY <1>1, <2>3, <3>1 DEF Resubscribe
    <3>3. f \in DOMAIN open' /\ open'[f] = open[f]
      BY <1>2, <3>1 DEF Resubscribe, Free, Put
    <3> QED
      BY <1>2, <2>1, <3>2, <3>3
  <2>4. CASE CloseOld
    BY <1>2, <1>3, <2>1, <2>4 DEF CloseOld, Drop
  <2>5. ASSUME NEW j \in Iface, IntCreate(j)
        PROVE  f \in DOMAIN open' /\ open'[f] = open[f] /\ f \in Lost' \cup {sock'[i]}
    <3>1. /\ open' = open /\ old' = old /\ sock'[j] = 0
          /\ \A l \in Iface \ {j} : sock'[l] = sock[l]
      BY <1>1, <2>5 DEF IntCreate
    <3>2. f = sock[i] => f \in Lost' \cup {sock'[i]}
      BY <1>2, <1>3, <3>1, FdFacts DEF OwnSockets, Lost
    <3> QED
      BY <1>2, <2>1, <3>1, <3>2
  <2> QED
    BY <2>2, <2>3, <2>4, <2>5, TableSteps
<1> QED
  BY <1>2, <1>4 DEF LetIn

\* handle_upstream_subscription lets in what the table it is given asks for, as long
\* as there are descriptors to spare.
LEMMA ResubscribeAll ==
  ASSUME IType, Heard, Spare, pc # "close", NEW i \in Iface, NEW t, NEW b, Resubscribe(i, t, b)
  PROVE  AllIn(t, i)'
<1>1. sock \in [Iface -> Fd \cup {0, -1}] /\ ~ (Fd \subseteq DOMAIN open)
  BY SpareIsFree DEF IType, TypeOK, Control
<1>2. CASE Joins(t, i) = {}
  BY <1>2 DEF AllIn
<1>3. ASSUME NEW fd \in Fd, sock' = [sock EXCEPT ![i] = fd], open' = Put(open, fd, Filters(t, i))
      PROVE  AllIn(t, i)'
  <2>1. fd \in DOMAIN open' /\ open'[fd] = Filters(t, i) /\ sock'[i] = fd
    BY <1>1, <1>3 DEF Put
  <2>2. /\ DOMAIN Filters(t, i) = Joins(t, i)
        /\ \A g \in Joins(t, i) : Filters(t, i)[g] = Admit(t[<<g, i>>])
    BY DEF Filters
  <2>3. \A g \in Joins(t, i) : \A s \in Admit(t[<<g, i>>]) : LetIn(i, g, s)'
    BY <2>1, <2>2 DEF LetIn
  <2> QED
    BY <2>3 DEF AllIn
<1> QED
  BY <1>1, <1>2, <1>3 DEF Resubscribe

\* The step of the invariant, where devices come and go.
LEMMA ResilientStep ==
  ASSUME IType, IType', OwnSockets, Heard, Resilient, [Next]_vars
  PROVE  Resilient'
<1> SUFFICES ASSUME Spare', NEW i \in Iface, Settled(i)'
             PROVE  AllIn(nodes, i)'
  BY DEF Resilient
<1>1. Spare
  BY SpareStep
<1>2. CASE Renews(i)
  <2>1. PICK t, b : Resubscribe(i, t, b) /\ NoMore(t, nodes', i)
    BY <1>2 DEF Renews
  <2>2. AllIn(t, i)'
    BY <1>1, <1>2, <2>1, ResubscribeAll DEF Renews
  <2> QED
    BY <2>1, <2>2 DEF AllIn, NoMore
<1>3. CASE ~ Renews(i)
  <2>1. Settled(i) /\ NoMore(nodes, nodes', i)
    BY <1>3, TableSteps, SameTable DEF Lessens, Renews, CloseOld, IntCreate, Settled
  <2>2. AllIn(nodes, i)
    BY <1>1, <2>1 DEF Resilient
  <2>3. \A g, s : LetIn(i, g, s) => LetIn(i, g, s)'
    BY <1>3, LetInStays
  <2> QED
    BY <2>1, <2>2, <2>3 DEF AllIn, NoMore
<1> QED
  BY <1>2, <1>3

\* The listeners' device vanishes and comes back, and what is wanted goes on coming in on
\* the upstream device, which stays, through the socket int_create has forgotten,
\* outside the handling of reports, until so many sockets are forgotten that the
\* process can no longer have one for each interface with listeners and one more.
THEOREM ResilientUntilExhausted == Spec => []AdmittedUntilExhausted
<1>1. Init => Heard /\ Resilient
  BY DEF Init, Heard, NodesHeard, Resilient, AllIn, Joins
<1>2. IType /\ Heard /\ [Next]_vars => Heard'
  BY HeardStep
<1>3. IType /\ IType' /\ OwnSockets /\ Heard /\ Resilient /\ [Next]_vars => Resilient'
  BY ResilientStep
<1>4. Resilient => AdmittedUntilExhausted
  BY WantedIsJoined DEF Resilient, Spare, AllIn, LetIn, Admitted, AdmittedUntilExhausted
<1>5. Spec => []IType
  BY TypeInit, TypeStep, PTL DEF Spec
<1> QED
  BY <1>1, <1>2, <1>3, <1>4, <1>5, SocketsAreOwn, PTL DEF Spec

-----------------------------------------------------------------------------
(* Kernel forwarding.                                                       *)

\* The passes of expire_routes add no step to the memberships: kernel forwarding
\* implements module Membership.
THEOREM ProxyIsMembership == PSpec => Spec
<1>1. PInit => Init
  BY DEF PInit
<1>2. [PNext]_pvars => [Next]_vars
  <2> SUFFICES ASSUME [PNext]_pvars
               PROVE  [Next]_vars
    OBVIOUS
  <2>1. CASE Arrival
    BY <2>1 DEF Arrival, Next
  <2>2. CASE InReport
    BY <2>2 DEF InReport, ReportEnds, HandleReport, Next
  <2>3. CASE StartTimeout \/ CloseAndExpire \/ Tick
    BY <2>3 DEF StartTimeout, CloseAndExpire, Tick, Next
  <2>4. CASE InTimeout
    BY <2>4 DEF InTimeout, ExpireSources, Next
  <2>5. CASE Packet
    BY <2>5 DEF Packet, Forward, Next
  <2>6. CASE ExpireRoutes
    BY <2>6 DEF ExpireRoutes
  <2>7. ASSUME NEW r \in Stream, HandleUpcall(r)
        PROVE  UNCHANGED vars
    BY <2>7 DEF HandleUpcall
  <2>8. CASE UNCHANGED pvars
    BY <2>8 DEF pvars
  <2> QED
    BY <2>1, <2>2, <2>3, <2>4, <2>5, <2>6, <2>7, <2>8 DEF PNext
<1> QED
  BY <1>1, <1>2, PTL DEF PSpec, Spec

\* With kernel forwarding too, and while the devices stay, no upstream socket
\* leaks, the groups joined upstream are those with listeners, and everything
\* check_route would forward is let in.
THEOREM ProxyUpstreamExact ==
  ASSUME Volatile = {}
  PROVE  PSpec => [](NoSocketLeak /\ JoinedExactly /\ Covered)
BY ProxyIsMembership, UpstreamExact, PTL

\* With kernel forwarding too, no stream is interrupted while the devices stay.
THEOREM ProxyUninterrupted ==
  ASSUME Volatile = {}
  PROVE  PSpec => StreamUninterrupted
BY ProxyIsMembership, StreamsUninterrupted, PTL

\* The steps of the memberships leave the kernel's routes alone.
LEMMA MembershipSteps ==
  ASSUME Arrival \/ InReport \/ StartTimeout \/ InTimeout \/ Packet \/ CloseAndExpire \/ Tick
  PROVE  mfc' = mfc
BY DEF Arrival, InReport, ReportEnds, StartTimeout, InTimeout, Packet, CloseAndExpire, Tick,
       Undisturbed, Owing, routing

\* Only streams are wanted.
LEMMA WantedStreams == Wanted \subseteq Stream /\ Wanted' \subseteq Stream
BY DEF Wanted, Stream

\* check_route reads the group table and nothing else.
LEMMA WantedUnchanged == ASSUME UNCHANGED vars PROVE Wanted' = Wanted
BY DEF vars, Wanted, check_route, Stream

\* However reports, expiries, packets, upcalls and the passes of expire_routes
\* interleave, no route is added that the group table does not want at that moment
\* and none is taken away that it wants, for any sources and groups.
THEOREM ProxyRefinesCache == PSpec => ImplementsCache
<1> DEFINE Inv == mfc \subseteq Stream
<1>1. PInit => Inv /\ Cache!Init
  BY DEF PInit, Init, Cache!Init, Wanted, check_route
<1>2. Inv /\ [PNext]_pvars => Inv' /\ [Cache!Next]_(Cache!vars)
  <2> SUFFICES ASSUME Inv, [PNext]_pvars
               PROVE  Inv' /\ [Cache!Next]_(Cache!vars)
    OBVIOUS
  <2>1. CASE Arrival \/ InReport \/ StartTimeout \/ InTimeout \/ Packet \/ CloseAndExpire \/ Tick
    <3>1. mfc' = mfc
      BY <2>1, MembershipSteps
    <3> QED
      BY <3>1, WantedStreams DEF Cache!Next, Cache!Change
  <2>2. CASE ExpireRoutes
    <3>1. Wanted' = Wanted
      BY <2>2, WantedUnchanged DEF ExpireRoutes
    <3>2. \/ mfc' = mfc
          \/ mfc' = mfc \ {routes[at]} /\ routes[at] \notin Wanted
      BY <2>2 DEF ExpireRoutes, Routing!expire_routes, Routing!KeepRoute,
                  Routing!DeleteRoute, Routing!EndPass
    <3>3. CASE mfc' = mfc
      BY <3>1, <3>3 DEF Cache!vars
    <3>4. CASE /\ mfc' = mfc \ {routes[at]}
               /\ routes[at] \notin Wanted
               /\ routes[at] \in mfc
      BY <3>1, <3>4 DEF Cache!Next, Cache!Remove
    <3>5. CASE mfc' = mfc \ {routes[at]} /\ routes[at] \notin mfc
      <4>1. mfc' = mfc
        BY <3>5
      <4> QED
        BY <3>1, <4>1 DEF Cache!vars
    <3> QED
      BY <3>2, <3>3, <3>4, <3>5
  <2>3. ASSUME NEW r \in Stream, HandleUpcall(r)
        PROVE  Inv' /\ [Cache!Next]_(Cache!vars)
    <3>1. Wanted' = Wanted
      BY <2>3, WantedUnchanged DEF HandleUpcall
    <3>2. r \in Wanted /\ mfc' = mfc \cup {r}
      BY <2>3 DEF HandleUpcall, Routing!AddRoute
    <3> QED
      BY <3>1, <3>2 DEF Cache!Next, Cache!Add
  <2>4. CASE UNCHANGED pvars
    BY <2>4, WantedUnchanged DEF pvars, routing, Cache!vars
  <2> QED
    BY <2>1, <2>2, <2>3, <2>4 DEF PNext
<1> QED
  BY <1>1, <1>2, PTL DEF PSpec, ImplementsCache, Cache!Spec

-----------------------------------------------------------------------------
(* The list of routes.                                                      *)

\* What is proved of lists in the proofs of kernel forwarding.
List == INSTANCE KernelRoutingProofs WITH
  Route <- Stream, MaxUpcalls <- 0, wanted <- Wanted, upcalls <- <<>>

\* The mirror, in terms of the elements of the list.
LEMMA MirrorElements ==
  RoutesMirror <=> mfc = List!Elements(routes) /\ List!Distinct(routes)
BY DEF RoutesMirror, Routing!Mirrors, List!Elements, List!Distinct

\* A handler owes passes from the change of the memberships to the last pass: one
\* that owes them has come to the close of the old socket.
LEMMA OwingCloses ==
  ASSUME \/ EndReport /\ touched
         \/ \E k \in visit : ExpireLast(k) \/ ExpireFilter(k)
         \/ \E k \in DOMAIN nodes : ForwardSwitch(k) \/ \E s \in Source : ForwardLast(k, s)
  PROVE  pc' = "close"
BY DEF EndReport, ExpireLast, ExpireFilter, ForwardSwitch, ForwardLast, RemoveNode,
       SwitchToInclude, Resubscribe

\* A step of the memberships leaves the list alone; it begins passes, or owes some
\* and comes to the close of the old socket, or comes to neither.
LEMMA PassesOwed ==
  ASSUME Arrival \/ InReport \/ StartTimeout \/ InTimeout \/ Packet \/ CloseAndExpire \/ Tick
  PROVE  /\ UNCHANGED <<routes, mfc>>
         /\ \/ UNCHANGED routing /\ (pc' = pc \/ (at = 0 /\ pc # "close" /\ pc' # "close"))
            \/ at = 0 /\ at' = 0 /\ passes' \in {1, 2} /\ pc' = "close"
            \/ CloseOld /\ at' = 1 /\ passes' = passes
<1>1. CASE Arrival
  BY <1>1 DEF Arrival, Undisturbed, routing, Report, Mld1Report, AnswerLost, IntCreate
<1>2. CASE InReport
  <2>1. CASE Undisturbed /\ ~ (ReportEnds /\ touched)
    BY <1>2, <2>1 DEF InReport, ReportEnds, Undisturbed, routing, ApplyRecord, StopReport, EndReport
  <2>2. CASE EndReport /\ touched /\ Owing(2)
    BY <2>2, OwingCloses DEF Owing
  <2> QED
    BY <1>2, <2>1, <2>2 DEF InReport, ReportEnds
<1>3. CASE StartTimeout
  BY <1>3 DEF StartTimeout, Undisturbed, routing, Timeout
<1>4. CASE InTimeout
  <2>1. CASE Undisturbed /\ \E k \in visit : ExpireSome(k) \/ ExpireCrash(k)
    BY <2>1 DEF Undisturbed, routing, ExpireSome, ExpireCrash, Crash
  <2>2. CASE Owing(1) /\ \E k \in visit : ExpireLast(k) \/ ExpireFilter(k)
    BY <2>2, OwingCloses DEF Owing
  <2>3. CASE Undisturbed /\ EndTimeout
    BY <2>3 DEF Undisturbed, routing, EndTimeout
  <2> QED
    BY <1>4, <2>1, <2>2, <2>3 DEF InTimeout
<1>5. CASE Packet
  <2>1. PICK k \in DOMAIN nodes :
          \/ /\ Undisturbed
             /\ \E s \in Source : ForwardExpired(k, s) \/ ForwardCrash(k, s) \/ ForwardLost(k, s)
          \/ /\ Owing(1)
             /\ ForwardSwitch(k) \/ \E s \in Source : ForwardLast(k, s)
    BY <1>5 DEF Packet
  <2>2. CASE /\ Undisturbed
             /\ \E s \in Source : ForwardExpired(k, s) \/ ForwardCrash(k, s) \/ ForwardLost(k, s)
    BY <2>2 DEF Undisturbed, routing, ForwardExpired, ForwardCrash, ForwardLost, Crash
  <2>3. CASE /\ Owing(1)
             /\ ForwardSwitch(k) \/ \E s \in Source : ForwardLast(k, s)
    BY <2>3, OwingCloses DEF Owing
  <2> QED
    BY <2>1, <2>2, <2>3
<1>6. CASE CloseAndExpire
  BY <1>6 DEF CloseAndExpire
<1>7. CASE Tick
  BY <1>7 DEF Tick, Second, routing
<1> QED
  BY <1>1, <1>2, <1>3, <1>4, <1>5, <1>6, <1>7

\* Every step of the daemon keeps the list, its place and the passes owed.
LEMMA RoutesStep ==
  TypeOK /\ PTypeOK /\ RoutesMirror /\ [PNext]_pvars => PTypeOK' /\ RoutesMirror'
<1> SUFFICES ASSUME TypeOK, PTypeOK, RoutesMirror, [PNext]_pvars
             PROVE  PTypeOK' /\ RoutesMirror'
  OBVIOUS
<1>1. /\ routes \in Seq(Stream) /\ Len(routes) \in Nat /\ mfc \subseteq Stream
      /\ mfc = List!Elements(routes) /\ List!Distinct(routes)
      /\ at \in 0..(Len(routes) + 1) /\ passes \in 0..2
  BY MirrorElements DEF PTypeOK
<1>2. UNCHANGED <<routes, mfc>> => RoutesMirror'
  BY DEF RoutesMirror, Routing!Mirrors
<1>3. CASE Arrival \/ InReport \/ StartTimeout \/ InTimeout \/ Packet \/ CloseAndExpire \/ Tick
  <2>1. UNCHANGED <<routes, mfc>>
    BY <1>3, PassesOwed
  <2> SUFFICES PTypeOK'
    BY <1>2, <2>1
  <2>2. CASE UNCHANGED routing /\ (pc' = pc \/ (at = 0 /\ pc # "close" /\ pc' # "close"))
    BY <2>2 DEF PTypeOK, routing
  <2>3. CASE at = 0 /\ at' = 0 /\ passes' \in {1, 2} /\ pc' = "close"
    BY <1>1, <2>1, <2>3 DEF PTypeOK
  <2>4. CASE CloseOld /\ at' = 1 /\ passes' = passes
    <3>1. pc = "close" /\ pc' # "close"
      BY <2>4 DEF CloseOld, TypeOK
    <3> QED
      BY <1>1, <2>1, <2>4, <3>1 DEF PTypeOK
  <2> QED
    BY <1>3, <2>2, <2>3, <2>4, PassesOwed
<1>4. CASE ExpireRoutes
  <2>1. pc' = pc
    BY <1>4 DEF ExpireRoutes, vars
  <2>2. CASE Routing!KeepRoute
    BY <1>1, <1>2, <2>1, <2>2 DEF PTypeOK, Routing!KeepRoute
  <2>3. CASE Routing!DeleteRoute
    <3>1. /\ at \in 1..Len(routes) /\ mfc' = mfc \ {routes[at]}
          /\ routes' = List!RemoveAt(routes, at)
          /\ at' = IF at = Len(routes) THEN at ELSE at + 1
          /\ passes' = passes
      BY <2>3 DEF Routing!DeleteRoute, Routing!RemoveAt, List!RemoveAt
    <3>2. routes' \in Seq(Stream) /\ Len(routes') = Len(routes) - 1
      BY <1>1, <3>1, List!RemoveAtFacts
    <3>3. mfc' = List!Elements(routes') /\ List!Distinct(routes')
      BY <1>1, <3>1, List!RemoveDistinct
    <3>4. RoutesMirror'
      BY <3>3 DEF RoutesMirror, Routing!Mirrors, List!Elements, List!Distinct
    <3>5. PTypeOK'
      BY <1>1, <2>1, <3>1, <3>2 DEF PTypeOK
    <3> QED
      BY <3>4, <3>5
  <2>4. CASE Routing!EndPass
    BY <1>1, <1>2, <2>1, <2>4 DEF PTypeOK, Routing!EndPass
  <2> QED
    BY <1>4, <2>2, <2>3, <2>4 DEF ExpireRoutes, Routing!expire_routes
<1>5. ASSUME NEW r \in Stream, HandleUpcall(r)
      PROVE  PTypeOK' /\ RoutesMirror'
  <2>1. /\ at = 0 /\ UNCHANGED <<pc, at, passes>> /\ mfc' = mfc \cup {r}
        /\ routes' = IF Routing!have_route(r) THEN routes ELSE Routing!save_route(r)
    BY <1>5 DEF HandleUpcall, Routing!AddRoute, vars
  <2>2. CASE Routing!have_route(r)
    <3>1. r \in mfc
      BY <1>1, <2>2 DEF Routing!have_route, List!Elements
    <3> QED
      BY <1>2, <2>1, <2>2, <3>1 DEF PTypeOK
  <2>3. CASE ~ Routing!have_route(r)
    <3>1. r \notin List!Elements(routes) /\ routes' = Append(routes, r)
      BY <2>1, <2>3 DEF Routing!have_route, Routing!save_route, List!Elements
    <3> DEFINE t == Append(routes, r)
    <3>2. /\ t \in Seq(Stream) /\ Len(t) = Len(routes) + 1
          /\ List!Distinct(t) /\ List!Elements(t) = List!Elements(routes) \cup {r}
      BY <1>1, <3>1, List!AppendDistinct, ZenonT(40)
    <3> HIDE DEF t
    <3>3. /\ routes' \in Seq(Stream) /\ Len(routes') = Len(routes) + 1
          /\ mfc' = List!Elements(routes') /\ List!Distinct(routes')
      BY <1>1, <2>1, <3>1, <3>2 DEF t
    <3>4. RoutesMirror'
      BY <3>3 DEF RoutesMirror, Routing!Mirrors, List!Elements, List!Distinct
    <3>5. PTypeOK'
      BY <1>1, <2>1, <3>3 DEF PTypeOK
    <3> QED
      BY <3>4, <3>5
  <2> QED
    BY <2>2, <2>3
<1>6. CASE UNCHANGED pvars
  BY <1>2, <1>6 DEF pvars, vars, routing, PTypeOK
<1> QED
  BY <1>3, <1>4, <1>5, <1>6 DEF PNext

\* Both hold in the composed daemon.
LEMMA RoutesInvariant == PSpec => [](PTypeOK /\ RoutesMirror)
<1>1. PInit => PTypeOK /\ RoutesMirror
  BY DEF PInit, Init, PTypeOK, RoutesMirror, Routing!Mirrors
<1>2. PSpec => []TypeOK
  BY ProxyIsMembership, TypeCorrect, PTL
<1> QED
  BY <1>1, <1>2, RoutesStep, PTL DEF PSpec

\* In the composed daemon the place of expire_routes is a node of the list or its
\* end, and a handler makes the passes it owes before the next one starts.
THEOREM ProxyTypeCorrect == PSpec => []PTypeOK
BY RoutesInvariant, PTL

\* The list of routes and the kernel's cache never come apart, however the kernel's
\* questions, the passes of expire_routes and the memberships interleave.
THEOREM ProxyRoutesMirror == PSpec => []RoutesMirror
BY RoutesInvariant, PTL
=============================================================================
