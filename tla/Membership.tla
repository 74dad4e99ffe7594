----------------------------- MODULE Membership -----------------------------
(***************************************************************************)
(* The membership core of ecmh: the group table (g_conf->groups), the      *)
(* reports that fill it, the once-a-second expiry that empties it, the     *)
(* packets that pass through it, and the upstream sockets through which    *)
(* the daemon joins on behalf of its listeners.                            *)
(*                                                                         *)
(* ecmh is one thread.  A handler runs to its end before the next one      *)
(* starts, but it is several steps long here: the kernel sees each system  *)
(* call of it, the clock may move on between two records of a report, and  *)
(* a device may vanish under any packet that is sent.                      *)
(***************************************************************************)
EXTENDS FilterState, FiniteSets

CONSTANTS
  Group,      \* the multicast groups that are routed
  Fd,         \* the socket descriptors the process may have open
  Listeners,  \* the interfaces reports arrive on
  Volatile,   \* the interfaces whose device may vanish (dynamic tunnels)
  MaxRecords  \* bound: the records of one report

VARIABLES
  nodes,    \* <<group, interface>> :> grpintnode, for the nodes that exist
  alive,    \* the interfaces int_find finds (mtu # 0)
  sock,     \* upstream_socket of every interface; 0 none, -1 failed
  open,     \* kernel: open descriptor :> (joined group :> admitted sources)
  pc,       \* the handler that is running
  ret,      \* the handler that called handle_upstream_subscription
  old,      \* its old_upstream_socket
  intn,     \* the interface of the report being handled
  left,     \* the records of the report still to be handled
  touched,  \* handle_upstream of l4_ipv6_icmpv6_mld2_report
  visit,    \* the nodes expire_sources has still to visit
  due       \* g_needs_timeout

vars == <<nodes, alive, sock, open, pc, ret, old, intn, left, touched, visit, due>>

\* int_create accepts no other interface than these two.
Iface == {"upstream", "downstream"}

NoIface == "none"

Other(i) == IF i = "upstream" THEN "downstream" ELSE "upstream"

Key == Group \X Iface

\* The upstream device stays.  The groups are joined on it whichever interface's
\* listeners want them, and the kernel drops these joins with the device, which this
\* module does not model.
ASSUME ConstantAssumption ==
  /\ Fd \subseteq Nat \ {0}
  /\ IsFiniteSet(Fd)
  /\ Listeners \subseteq Iface
  /\ Volatile \subseteq {"downstream"}
  /\ MaxRecords \in Nat \ {0}

\* The process may have a socket open for each interface and one more.
ASSUME DescriptorAssumption ==
  \A a, b \in Fd \cup {0} : \E c \in Fd : c # a /\ c # b

-----------------------------------------------------------------------------
(* The group table.  A groupnode exists exactly while it has an interface   *)
(* node, so the table is a function on the pairs that have one.             *)

Put(t, k, n) == [j \in DOMAIN t \cup {k} |-> IF j = k THEN n ELSE t[j]]

Drop(t, k) == [j \in DOMAIN t \ {k} |-> t[j]]

\* groupint_get: the node of the pair, made if there is none.
groupint_get(k) == IF k \in DOMAIN nodes THEN nodes[k] ELSE NewNode

-----------------------------------------------------------------------------
(* The upstream side: handle_upstream_subscription.                         *)

\* Mutant: a node whose list is empty is skipped in EXCLUDE mode as well.
Joins_NonEmpty(t, i) ==
  {g \in Group : /\ <<g, i>> \in DOMAIN t
                 /\ IF t[<<g, i>>].mode = INCLUDE THEN ~ IsEmpty(t[<<g, i>>])
                                                  ELSE t[<<g, i>>].exc # {}}

\* The groups the loop joins for interface i: an INCLUDE node whose list has
\* the count 0 is skipped.
Joins(t, i) ==
  {g \in Group : /\ <<g, i>> \in DOMAIN t
                 /\ t[<<g, i>>].mode = INCLUDE => ~ IsEmpty(t[<<g, i>>])}

\* Mutant: the list of a node in EXCLUDE mode is set as an include filter.
Admit_Filter(n) == IF n.mode = INCLUDE THEN DOMAIN n.inc ELSE n.exc

\* The sources the socket lets through once mcast_join_group has joined and
\* mcast_set_filter has set the filter.  MLD2_MODE_IS_EXCLUDE (2) is neither of
\* the kernel's two filter modes, so an exclude filter is refused and the
\* socket stays open to every source.
Admit(n) == IF n.mode = INCLUDE THEN DOMAIN n.inc ELSE Source

\* Mutant: every group is joined on a socket of its own, and the last one is kept.
Filters_LastGroup(t, i) ==
  [g \in {CHOOSE h \in Joins(t, i) : TRUE} |-> Admit(t[<<g, i>>])]

Filters(t, i) == [g \in Joins(t, i) |-> Admit(t[<<g, i>>])]

\* socket() returns the lowest descriptor that is free.
Free(fd) == fd \in Fd \ DOMAIN open /\ \A f \in Fd \ DOMAIN open : fd <= f

\* Mutant: upstream_socket is not reset when there is nothing left to join.
Resubscribe_NoReset(i, t, back) ==
  /\ pc' = "close"
  /\ ret' = back
  /\ old' = sock[i]
  /\ \/ /\ Joins(t, i) = {}
        /\ UNCHANGED <<sock, open>>
     \/ /\ Joins(t, i) # {}
        /\ \E fd \in Fd :
             /\ Free(fd)
             /\ sock' = [sock EXCEPT ![i] = fd]
             /\ open' = Put(open, fd, Filters(t, i))

\* Up to the close of the old socket: forget it, and join everything on a new
\* one that is made when the first group needs it.  The filter is computed from
\* the table t; back is the handler to return to.
Resubscribe(i, t, back) ==
  /\ pc' = "close"
  /\ ret' = back
  /\ old' = sock[i]
  /\ \/ /\ Joins(t, i) = {}
        /\ sock' = [sock EXCEPT ![i] = 0]
        /\ open' = open
     \/ /\ Joins(t, i) # {}
        /\ \E fd \in Fd :
             /\ Free(fd)
             /\ sock' = [sock EXCEPT ![i] = fd]
             /\ open' = Put(open, fd, Filters(t, i))
     \/ /\ Joins(t, i) # {}
        /\ Fd \subseteq DOMAIN open
        /\ sock' = [sock EXCEPT ![i] = -1]
        /\ open' = open

\* Mutant: the old socket is not closed.
CloseOld_Not ==
  /\ pc = "close"
  /\ pc' = ret
  /\ ret' = "idle"
  /\ old' = 0
  /\ UNCHANGED <<nodes, alive, sock, open, intn, left, touched, visit, due>>

\* The close of the old socket, the last thing handle_upstream_subscription
\* does to the membership.
CloseOld ==
  /\ pc = "close"
  /\ pc' = ret
  /\ ret' = "idle"
  /\ open' = Drop(open, old)
  /\ old' = 0
  /\ UNCHANGED <<nodes, alive, sock, intn, left, touched, visit, due>>

\* handle_upstream_subscription(int_find(...)) on an interface int_find does
\* not find reads through a NULL pointer.
Crash ==
  /\ pc' = "crashed"
  /\ UNCHANGED <<nodes, alive, sock, open, ret, old, intn, left, touched, visit, due>>

\* sendpacket6: ENXIO makes it destroy the interface.
Send(i) == alive' \in {alive} \cup {alive \ {j} : j \in Volatile \cap {i}}

\* Queries are not sent to the upstream interface.
mld_send_query(i) == IF i = "upstream" THEN alive' = alive ELSE Send(i)

-----------------------------------------------------------------------------
(* MLDv2 reports: l4_ipv6_icmpv6_mld2_report.  The records are chosen one   *)
(* by one as they are reached.                                              *)

Report(i, n) ==
  /\ pc = "idle"
  /\ i \in alive
  /\ pc' = "report"
  /\ intn' = i
  /\ left' = n
  /\ touched' = FALSE
  /\ UNCHANGED <<nodes, alive, sock, open, ret, old, visit, due>>

\* A record of a known type for a routed group.  The queries it causes are sent
\* from within.
ApplyRecord(g, type, B) ==
  LET k == <<g, intn>>
      n == groupint_get(k)
      asks == QueriedSources(n, type, B) # {} \/ QueriesGroup(n, type)
  IN  /\ pc = "report"
      /\ left > 0
      /\ nodes' = Put(nodes, k, handle_downstream_subscription(n, type, B))
      /\ IF asks THEN mld_send_query(intn) ELSE alive' = alive
      /\ left' = left - 1
      /\ touched' = TRUE
      /\ UNCHANGED <<sock, open, pc, ret, old, intn, visit, due>>

\* A record for a link-local or node-local group, of an unknown type or beyond
\* the end of the packet: goto out.
StopReport ==
  /\ pc = "report"
  /\ left > 0
  /\ left' = 0
  /\ UNCHANGED <<nodes, alive, sock, open, pc, ret, old, intn, touched, visit, due>>

EndReport ==
  /\ pc = "report"
  /\ left = 0
  /\ IF touched THEN Resubscribe(intn, nodes, "idle")
                ELSE pc' = "idle" /\ UNCHANGED <<sock, open, ret, old>>
  /\ intn' = NoIface
  /\ touched' = FALSE
  /\ UNCHANGED <<nodes, alive, left, visit, due>>

\* l4_ipv6_icmpv6_mld1_report: the node is found or made, then grpint_refresh
\* fails and the handler gives up.
Mld1Report(i, g) ==
  /\ pc = "idle"
  /\ i \in alive
  /\ nodes' = Put(nodes, <<g, i>>, groupint_get(<<g, i>>))
  /\ UNCHANGED <<alive, sock, open, pc, ret, old, intn, left, touched, visit, due>>

-----------------------------------------------------------------------------
(* Expiry.                                                                  *)

\* Mutant: the resubscription comes before remove_grpintn.
RemoveNode_Late(k, back) ==
  /\ k[2] \in alive
  /\ nodes' = Drop(nodes, k)
  /\ Resubscribe(k[2], nodes, back)

\* The last source of the list is gone: remove_grpintn, then resubscribe.
RemoveNode(k, back) ==
  /\ k[2] \in alive
  /\ nodes' = Drop(nodes, k)
  /\ Resubscribe(k[2], Drop(nodes, k), back)

\* Mutant: the node is removed whether it has sources or not.
SwitchToInclude_Remove(k, back) ==
  /\ k[2] \in alive
  /\ nodes' = Drop(nodes, k)
  /\ Resubscribe(k[2], Drop(nodes, k), back)

\* mld2_switch_to_include
SwitchToInclude(k, back) ==
  LET n == [nodes[k] EXCEPT !.mode = INCLUDE]
  IN  /\ k[2] \in alive
      /\ nodes' = IF IsEmpty(n) THEN Drop(nodes, k) ELSE Put(nodes, k, n)
      /\ Resubscribe(k[2], Put(nodes, k, n), back)

\* An INCLUDE node that expiry leaves without a source.
RunsEmpty(n) ==
  /\ n.mode = INCLUDE
  /\ DOMAIN n.inc # {}
  /\ IsEmpty(ExpireIncludes(n))

FilterExpired(n) == n.mode = EXCLUDE /\ n.ft = 0

\* timeout: the general query, if this is the second for it, and then
\* expire_sources.
Timeout ==
  /\ pc = "idle"
  /\ due
  /\ pc' = "expire"
  /\ visit' = DOMAIN nodes
  /\ mld_send_query("downstream")
  /\ UNCHANGED <<nodes, sock, open, ret, old, intn, left, touched, due>>

\* expire_sources at a node that stays: its expired sources go, and nobody is
\* told upstream.
ExpireSome(k) ==
  /\ pc = "expire"
  /\ k \in visit
  /\ ~ RunsEmpty(nodes[k])
  /\ ~ FilterExpired(nodes[k])
  /\ visit' = visit \ {k}
  /\ nodes' = IF nodes[k].mode = INCLUDE
              THEN Put(nodes, k, ExpireIncludes(nodes[k]))
              ELSE nodes
  /\ UNCHANGED <<alive, sock, open, pc, ret, old, intn, left, touched, due>>

\* Mutant: the loop does not step on before the node is removed.
ExpireLast_Again(k) ==
  /\ pc = "expire"
  /\ k \in visit
  /\ RunsEmpty(nodes[k])
  /\ RemoveNode(k, "expire")
  /\ UNCHANGED <<alive, intn, left, touched, visit, due>>

ExpireLast(k) ==
  /\ pc = "expire"
  /\ k \in visit
  /\ RunsEmpty(nodes[k])
  /\ visit' = visit \ {k}
  /\ RemoveNode(k, "expire")
  /\ UNCHANGED <<alive, intn, left, touched, due>>

ExpireFilter(k) ==
  /\ pc = "expire"
  /\ k \in visit
  /\ FilterExpired(nodes[k])
  /\ visit' = visit \ {k}
  /\ SwitchToInclude(k, "expire")
  /\ UNCHANGED <<alive, intn, left, touched, due>>

ExpireCrash(k) ==
  /\ pc = "expire"
  /\ k \in visit
  /\ RunsEmpty(nodes[k]) \/ FilterExpired(nodes[k])
  /\ k[2] \notin alive
  /\ Crash

\* The main loop clears g_needs_timeout and sets the next alarm.
EndTimeout ==
  /\ pc = "expire"
  /\ visit = {}
  /\ pc' = "idle"
  /\ due' = FALSE
  /\ UNCHANGED <<nodes, alive, sock, open, ret, old, intn, left, touched, visit>>

\* A second of time(NULL) passes, and with it the alarm.  expire_sources reads
\* the clock once, so it sees no second pass.
Second ==
  /\ pc \in {"idle", "report"}
  /\ nodes' = [k \in DOMAIN nodes |-> Age(nodes[k])]
  /\ due' = TRUE
  /\ UNCHANGED <<alive, sock, open, pc, ret, old, intn, left, touched, visit>>

-----------------------------------------------------------------------------
(* Multicast packets: l4_ipv6_multicast, for a packet from s to the group   *)
(* of node k that came in on the other interface.                           *)

SourceExpired(k, s) ==
  /\ nodes[k].mode = INCLUDE
  /\ s \in DOMAIN nodes[k].inc
  /\ nodes[k].inc[s] = 0

WithoutSource(n, s) == [n EXCEPT !.inc = list_difference(@, {s})]

\* The packet finds its source expired, and other sources left.  It is sent
\* all the same.
ForwardExpired(k, s) ==
  /\ pc = "idle"
  /\ Other(k[2]) \in alive
  /\ SourceExpired(k, s)
  /\ ~ IsEmpty(WithoutSource(nodes[k], s))
  /\ nodes' = Put(nodes, k, WithoutSource(nodes[k], s))
  /\ IF k[2] \in alive THEN Send(k[2]) ELSE alive' = alive
  /\ UNCHANGED <<sock, open, pc, ret, old, intn, left, touched, visit, due>>

\* The packet finds its source expired, the last one.  It is dropped.
ForwardLast(k, s) ==
  /\ pc = "idle"
  /\ Other(k[2]) \in alive
  /\ SourceExpired(k, s)
  /\ IsEmpty(WithoutSource(nodes[k], s))
  /\ RemoveNode(k, "idle")
  /\ UNCHANGED <<alive, intn, left, touched, visit, due>>

\* The packet finds the filter timer expired.  It is dropped.
ForwardSwitch(k) ==
  /\ pc = "idle"
  /\ Other(k[2]) \in alive
  /\ FilterExpired(nodes[k])
  /\ SwitchToInclude(k, "idle")
  /\ UNCHANGED <<alive, intn, left, touched, visit, due>>

ForwardCrash(k, s) ==
  /\ pc = "idle"
  /\ Other(k[2]) \in alive
  /\ \/ FilterExpired(nodes[k])
     \/ SourceExpired(k, s) /\ IsEmpty(WithoutSource(nodes[k], s))
  /\ k[2] \notin alive
  /\ Crash

\* The packet is sent on and leaves the table as it is; the device it is sent
\* to turns out to be gone.
ForwardLost(k, s) ==
  /\ pc = "idle"
  /\ Other(k[2]) \in alive
  /\ k[2] \in alive \cap Volatile
  /\ Wants(nodes[k], s)
  /\ ~ SourceExpired(k, s)
  /\ alive' = alive \ {k[2]}
  /\ UNCHANGED <<nodes, sock, open, pc, ret, old, intn, left, touched, visit, due>>

\* A query or an echo request is answered, or an ICMPv6 error is sent; the device
\* turns out to be gone.  (SIGUSR2 sends nothing: see mld2_send_report in
\* MldVersion.)
AnswerLost(i) ==
  /\ pc = "idle"
  /\ i \in alive \cap Volatile
  /\ alive' = alive \ {i}
  /\ UNCHANGED <<nodes, sock, open, pc, ret, old, intn, left, touched, visit, due>>

-----------------------------------------------------------------------------
(* int_create, called for a packet on an interface that is not there or     *)
(* from update_interfaces.  The structure is cleared first, upstream_socket *)
(* with it, whether the rest succeeds or not.                               *)

\* Mutant: the socket is closed rather than lost.
IntCreate_Close(i) ==
  /\ pc = "idle"
  /\ i \notin alive
  /\ sock' = [sock EXCEPT ![i] = 0]
  /\ open' = Drop(open, sock[i])
  /\ alive' \in {alive, alive \cup {i}}
  /\ UNCHANGED <<nodes, pc, ret, old, intn, left, touched, visit, due>>

IntCreate(i) ==
  /\ pc = "idle"
  /\ i \notin alive
  /\ sock' = [sock EXCEPT ![i] = 0]
  /\ alive' \in {alive, alive \cup {i}}
  /\ UNCHANGED <<nodes, open, pc, ret, old, intn, left, touched, visit, due>>

-----------------------------------------------------------------------------
Init ==
  /\ nodes = [k \in {} |-> NewNode]
  /\ alive = Iface
  /\ sock = [i \in Iface |-> 0]
  /\ open = [f \in {} |-> {}]
  /\ pc = "idle"
  /\ ret = "idle"
  /\ old = 0
  /\ intn = NoIface
  /\ left = 0
  /\ touched = FALSE
  /\ visit = {}
  /\ due = FALSE

\* A report that has begun is handled to its end.
HandleReport ==
  \/ \E g \in Group, type \in GrecType, B \in SUBSET Source : ApplyRecord(g, type, B)
  \/ StopReport
  \/ EndReport

ExpireSources ==
  \/ \E k \in visit : ExpireSome(k) \/ ExpireLast(k) \/ ExpireFilter(k) \/ ExpireCrash(k)
  \/ EndTimeout

Forward ==
  \E k \in DOMAIN nodes :
    \/ \E s \in Source : \/ ForwardExpired(k, s)
                         \/ ForwardLast(k, s)
                         \/ ForwardCrash(k, s)
                         \/ ForwardLost(k, s)
    \/ ForwardSwitch(k)

Next ==
  \/ \E i \in Listeners, n \in 1..MaxRecords : Report(i, n)
  \/ \E i \in Listeners, g \in Group : Mld1Report(i, g)
  \/ HandleReport
  \/ CloseOld
  \/ Timeout
  \/ ExpireSources
  \/ Second
  \/ Forward
  \/ \E i \in Iface : AnswerLost(i) \/ IntCreate(i)

Spec == Init /\ [][Next]_vars

\* Handlers finish, time passes, and the main loop serves every alarm.
Fairness ==
  /\ WF_vars(HandleReport)
  /\ WF_vars(CloseOld)
  /\ WF_vars(ExpireSources)
  /\ WF_vars(Timeout)
  /\ WF_vars(Second)

FairSpec == Spec /\ Fairness

-----------------------------------------------------------------------------
(* Properties.                                                              *)

Handler == {"idle", "report", "expire", "close", "crashed"}

\* What the kernel keeps of a socket: the groups it has joined, and for each
\* the sources it lets through.
SocketState == UNION {[G -> SUBSET Source] : G \in SUBSET Group}

\* The variables have their types; in particular expire_sources only ever has
\* nodes to visit that are still in the table, although it removes nodes on its
\* way: its next pointer does not dangle.
TypeOK ==
  /\ DOMAIN nodes \subseteq Key
  /\ nodes \in [DOMAIN nodes -> Node]
  /\ alive \subseteq Iface
  /\ sock \in [Iface -> Fd \cup {0, -1}]
  /\ DOMAIN open \subseteq Fd
  /\ open \in [DOMAIN open -> SocketState]
  /\ pc \in Handler
  /\ ret \in {"idle", "expire"}
  /\ old \in Fd \cup {0, -1}
  /\ intn \in Iface \cup {NoIface}
  /\ left \in 0..MaxRecords
  /\ touched \in BOOLEAN
  /\ visit \subseteq DOMAIN nodes
  /\ due \in BOOLEAN

\* Where the handlers' local variables have a value.
Control ==
  /\ touched => pc = "report"
  /\ pc = "report" => intn \in Iface
  /\ visit # {} => pc \in {"expire", "close", "crashed"}
  /\ visit # {} /\ pc = "close" => ret = "expire"
  /\ pc # "close" => old = 0

\* No record has changed the table for interface i since its last
\* handle_upstream_subscription.
Settled(i) == ~ (touched /\ intn = i)

Admitted(g, s) ==
  \E f \in DOMAIN open : g \in DOMAIN open[f] /\ s \in open[f][g]

\* The descriptor an interface remembers is open, it is not the one about to be
\* closed, and no two interfaces remember the same one: although int_create forgets
\* descriptors and socket() gives out again what was closed, no close() in
\* handle_upstream_subscription takes away a socket that is in use.
OwnSockets ==
  \A i \in Iface :
    sock[i] \in Fd => /\ sock[i] \in DOMAIN open
                      /\ sock[i] # old
                      /\ \A j \in Iface : sock[j] = sock[i] => j = i

\* Every open upstream socket is the one of an interface or is about to be
\* closed.  (For devices that stay; int_create loses the socket of one that
\* does not.)
NoSocketLeak ==
  \A f \in DOMAIN open : f = old \/ \E i \in Iface : sock[i] = f

\* Outside the handling of its reports, an interface has joined upstream
\* exactly the groups that have an EXCLUDE node or a non-empty INCLUDE node on
\* it, and holds no socket if there are none.
JoinedExactly ==
  \A i \in Iface : Settled(i) =>
    IF Joins(nodes, i) = {}
    THEN sock[i] = 0
    ELSE sock[i] \in DOMAIN open /\ DOMAIN open[sock[i]] = Joins(nodes, i)

\* Outside the handling of its reports, every source that check_route would
\* forward to an interface is let in by that interface's upstream socket: what
\* is wanted downstream has been asked for upstream.
Covered ==
  \A i \in Iface, g \in Group, s \in Source :
    /\ Settled(i)
    /\ <<g, i>> \in DOMAIN nodes
    /\ Wants(nodes[<<g, i>>], s)
    => /\ sock[i] \in DOMAIN open
       /\ g \in DOMAIN open[sock[i]]
       /\ s \in open[sock[i]][g]

\* The sockets int_create has forgotten.
Lost == {f \in DOMAIN open \ {old} : \A i \in Iface : sock[i] # f}

\* The listeners' device may vanish and come back, and what is wanted still comes in
\* upstream, outside the handling of reports: the socket that int_create forgets stays
\* joined, until enough of them are lost for the process to run out.
AdmittedUntilExhausted ==
  Cardinality(Lost) + Cardinality(Listeners) < Cardinality(Fd) =>
    \A i \in Iface, g \in Group, s \in Source :
      /\ Settled(i)
      /\ <<g, i>> \in DOMAIN nodes
      /\ Wants(nodes[<<g, i>>], s)
      => Admitted(g, s)

\* A step may not stop a stream from coming in upstream while a listener wants
\* it before and after: the new socket is joined before the old one is closed.
StreamUninterrupted ==
  [][\A g \in Group, s \in Source :
       /\ Admitted(g, s)
       /\ \E i \in Iface :
            /\ <<g, i>> \in DOMAIN nodes \cap DOMAIN nodes'
            /\ Wants(nodes[<<g, i>>], s)
            /\ Wants(nodes'[<<g, i>>], s)
       => Admitted(g, s)']_vars

\* Neither time, nor expiry, nor a packet, nor a device that vanishes takes a
\* source off a list while its timer runs; only a report does.
LiveSourceKept ==
  [][pc # "report" =>
       \A k \in DOMAIN nodes : \A s \in DOMAIN nodes[k].inc :
         nodes[k].inc[s] > 0 => k \in DOMAIN nodes' /\ s \in DOMAIN nodes'[k].inc]_vars

Quiet == <>[](pc # "report")

\* Once reports stop, everything that was wanted times out, and the daemon leaves
\* every group upstream but those whose includes list has come to hold nodes
\* without data: such a list counts as non-empty for ever.
QuietLeaves ==
  Quiet => <>[](/\ \A k \in DOMAIN nodes, s \in Source : ~ Wants(nodes[k], s)
                /\ \A f \in DOMAIN open : \A g \in DOMAIN open[f] :
                     \E i \in Iface : /\ sock[i] = f
                                      /\ <<g, i>> \in DOMAIN nodes
                                      /\ nodes[<<g, i>>].nulls)

\* The daemon survives a device that vanishes.
Survives == pc # "crashed"
=============================================================================
