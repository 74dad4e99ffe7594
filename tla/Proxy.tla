-------------------------------- MODULE Proxy --------------------------------
(***************************************************************************)
(* The daemon with kernel forwarding (ecmh -k): the memberships of module  *)
(* Membership decide which routes module KernelRouting makes and deletes.  *)
(* check_route is computed from the group table here, every handler that   *)
(* changes the table runs the passes of expire_routes the code runs, and   *)
(* no other handler starts before they are done.                           *)
(***************************************************************************)
EXTENDS Membership, Sequences

VARIABLES
  routes,   \* the list routes
  mfc,      \* kernel: the multicast forwarding cache
  at,       \* the place of expire_routes in routes, 0 when it does not run
  passes    \* the calls of expire_routes the running handler has still to make

routing == <<routes, mfc, at, passes>>

pvars == <<vars, routing>>

Stream == Source \X Group

\* check_route(downstream_id, src, grp)
check_route(r) ==
  LET k == <<r[2], "downstream">>
  IN  k \in DOMAIN nodes /\ Wants(nodes[k], r[1])

Wanted == {r \in Stream : check_route(r)}

\* An upcall is handled as it arrives: it may be late, repeated, or for a route
\* that exists, and check_route is asked when it is handled.
Routing == INSTANCE KernelRouting WITH
  Route <- Stream, MaxUpcalls <- 0, wanted <- Wanted, upcalls <- <<>>

-----------------------------------------------------------------------------
(* Steps of the memberships.                                                *)

\* Handlers that change no membership the routes depend on until they end, or
\* whose last act is handle_upstream_subscription's close.
Undisturbed ==
  /\ at = 0
  /\ pc # "close"
  /\ UNCHANGED routing

\* The passes a handler will make: one from handle_upstream_subscription, and
\* after a report one more.
Owing(n) ==
  /\ at = 0
  /\ passes' = n
  /\ UNCHANGED <<routes, mfc, at>>

\* Mutant: the passes are made whether a record was handled or not.
ReportEnds_Always == EndReport /\ Owing(2)

\* The end of a report; one that changed nothing runs no pass.
ReportEnds == EndReport /\ IF touched THEN Owing(2) ELSE Undisturbed

\* A step of the handling of a report.
InReport ==
  \/ /\ Undisturbed
     /\ \/ \E g \in Group, type \in GrecType, B \in SUBSET Source : ApplyRecord(g, type, B)
        \/ StopReport
  \/ ReportEnds

\* A step of expire_sources, and the end of it.
InTimeout ==
  \/ Undisturbed /\ \E k \in visit : ExpireSome(k) \/ ExpireCrash(k)
  \/ Owing(1) /\ \E k \in visit : ExpireLast(k) \/ ExpireFilter(k)
  \/ Undisturbed /\ EndTimeout

StartTimeout == Timeout /\ Undisturbed

\* A packet.
Packet ==
  \E k \in DOMAIN nodes :
    \/ /\ Undisturbed
       /\ \E s \in Source : ForwardExpired(k, s) \/ ForwardCrash(k, s) \/ ForwardLost(k, s)
    \/ /\ Owing(1)
       /\ ForwardSwitch(k) \/ \E s \in Source : ForwardLast(k, s)

\* handle_upstream_subscription closes the old socket and calls expire_routes.
CloseAndExpire ==
  /\ CloseOld
  /\ at' = 1
  /\ UNCHANGED <<routes, mfc, passes>>

\* What begins outside, and interfaces that come and go.
Arrival ==
  /\ Undisturbed
  /\ \/ \E i \in Listeners, n \in 1..MaxRecords : Report(i, n)
     \/ \E i \in Listeners, g \in Group : Mld1Report(i, g)
     \/ \E i \in Iface : AnswerLost(i) \/ IntCreate(i)

\* A second may also pass while expire_routes runs: check_route reads the clock
\* for every route.
Tick == Second /\ UNCHANGED routing

-----------------------------------------------------------------------------
(* Steps of the routing.                                                    *)

\* A step of a pass.
ExpireRoutes ==
  /\ UNCHANGED vars
  /\ Routing!expire_routes

\* mrouter6_handlesocket, for a packet of r that came in upstream.  (One that
\* came in downstream is ignored.)
HandleUpcall(r) ==
  /\ pc = "idle"
  /\ at = 0
  /\ UNCHANGED vars
  /\ Routing!AddRoute([mif |-> 0, route |-> r])
  /\ UNCHANGED <<at, passes>>

-----------------------------------------------------------------------------
PInit ==
  /\ Init
  /\ routes = <<>>
  /\ mfc = {}
  /\ at = 0
  /\ passes = 0

PNext ==
  \/ Arrival \/ InReport \/ StartTimeout \/ InTimeout \/ Packet \/ CloseAndExpire \/ Tick
  \/ ExpireRoutes
  \/ \E r \in Stream : HandleUpcall(r)

PSpec == PInit /\ [][PNext]_pvars

\* Handlers finish, time passes, the main loop serves every alarm, and while
\* packets of a stream come in the kernel goes on asking for a route until it
\* has one.
PFairness ==
  /\ WF_pvars(InReport)
  /\ WF_pvars(CloseAndExpire)
  /\ WF_pvars(InTimeout)
  /\ WF_pvars(StartTimeout)
  /\ WF_pvars(Tick)
  /\ WF_pvars(ExpireRoutes)
  /\ \A r \in Stream : SF_pvars(HandleUpcall(r))

PFairSpec == PSpec /\ PFairness

-----------------------------------------------------------------------------
(* Properties.                                                              *)

\* The variables of the routing have their types, also when memberships change
\* between two steps of a pass.  A handler owes passes of expire_routes until it
\* has made them, and the main loop is not idle again before.
PTypeOK ==
  /\ routes \in Seq(Stream)
  /\ mfc \subseteq Stream
  /\ at \in 0..(Len(routes) + 1)
  /\ passes \in 0..2
  /\ passes # 0 <=> (at # 0 \/ pc = "close")
  /\ at # 0 => pc # "close"

\* The kernel has the routes of the list and no others, each once, however
\* upcalls, passes and changes of the memberships interleave.
RoutesMirror == Routing!Mirrors

Cache == INSTANCE RouteCache WITH Route <- Stream, wanted <- Wanted

\* Reports, expiries, packets, upcalls and passes, in whatever order, change
\* the kernel's routes only as the abstract cache does: none is added that the
\* group table does not want at that moment, none is taken away that it wants.
ImplementsCache == Cache!Spec

\* A stream that is wanted from some time on is in the end admitted by an
\* upstream socket and forwarded by the kernel, and stays so through every
\* replacement of the socket and every pass of expire_routes.
Served ==
  \A r \in Stream :
    <>[](r \in Wanted) => <>[](r \in mfc /\ Admitted(r[2], r[1]))

\* Once reports stop, the kernel stops forwarding.
QuietStops == Quiet => <>[](mfc = {})
=============================================================================
