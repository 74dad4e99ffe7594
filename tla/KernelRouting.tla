--------------------------- MODULE KernelRouting ---------------------------
(***************************************************************************)
(* Kernel forwarding (kernel_routing.c, ecmh -k): the upcalls by which the *)
(* kernel asks for a route, the list of the routes that were added, and    *)
(* expire_routes, which walks that list whenever the memberships changed.  *)
(*                                                                         *)
(* The memberships are seen through check_route only: wanted is the set of *)
(* streams it answers yes for.  Module Membership models what is behind.   *)
(***************************************************************************)
EXTENDS Naturals, SequencesExt

CONSTANTS
  Route,       \* the streams, (source, group) pairs
  MaxUpcalls   \* bound: the upcalls the kernel has queued on mr6_fd

VARIABLES
  wanted,   \* the streams the downstream interface wants (check_route)
  routes,   \* the list routes
  mfc,      \* kernel: the multicast forwarding cache
  upcalls,  \* kernel: what recvmsg on mr6_fd will return
  at,       \* expire_routes: the place of ln in routes, 0 when it does not run
  passes    \* the calls of expire_routes the running handler has still to make

vars == <<wanted, routes, mfc, upcalls, at, passes>>

\* mif 0 is the upstream interface, mif 1 the downstream one.
Mif == {0, 1}

ASSUME RoutingAssumption == MaxUpcalls \in Nat

-----------------------------------------------------------------------------
(* The rest of the daemon, as far as check_route and expire_routes see it.  *)

\* A report changed the table: expire_routes runs in
\* handle_upstream_subscription and again when the report is done.
Report(w) ==
  /\ at = 0
  /\ wanted' = w
  /\ at' = 1
  /\ passes' = 2
  /\ UNCHANGED <<routes, mfc, upcalls>>

\* The last source of a node or a filter timer expired.
Expire(w) ==
  /\ at = 0
  /\ wanted' = w
  /\ at' = 1
  /\ passes' = 1
  /\ UNCHANGED <<routes, mfc, upcalls>>

\* A source that is not the last one expired, or a filter timer ran out and
\* nobody has looked yet: streams are no longer wanted and no pass runs.
Lapse(w) ==
  /\ at = 0
  /\ wanted' = w
  /\ w \subseteq wanted
  /\ UNCHANGED <<routes, mfc, upcalls, at, passes>>

-----------------------------------------------------------------------------
(* The kernel: a packet of a stream it has no route for.  It may ask again  *)
(* before it was answered.                                                  *)
Upcall(mif, r) ==
  /\ r \notin mfc
  /\ Len(upcalls) < MaxUpcalls
  /\ upcalls' = Append(upcalls, [mif |-> mif, route |-> r])
  /\ UNCHANGED <<wanted, routes, mfc, at, passes>>

-----------------------------------------------------------------------------
(* mrouter6_handlesocket *)

have_route(r) == \E j \in 1..Len(routes) : routes[j] = r

save_route(r) == Append(routes, r)

\* Mutant: the list is not searched first.
AddRoute_Twice(u) ==
  /\ u.mif = 0
  /\ u.route \in wanted
  /\ mfc' = mfc \cup {u.route}
  /\ routes' = save_route(u.route)

\* Mutant: check_route is not asked.
AddRoute_Unchecked(u) ==
  /\ u.mif = 0
  /\ mfc' = mfc \cup {u.route}
  /\ routes' = IF have_route(u.route) THEN routes ELSE save_route(u.route)

\* The stream is wanted and came in upstream: the route is added, and saved
\* unless it is on the list.
AddRoute(u) ==
  /\ u.mif = 0
  /\ u.route \in wanted
  /\ mfc' = mfc \cup {u.route}
  /\ routes' = IF have_route(u.route) THEN routes ELSE save_route(u.route)

\* The stream is not wanted, or came in downstream, or the kernel refuses.
IgnoreUpcall(u) == UNCHANGED <<mfc, routes>>

HandleSocket ==
  /\ at = 0
  /\ upcalls # <<>>
  /\ upcalls' = Tail(upcalls)
  /\ AddRoute(Head(upcalls)) \/ IgnoreUpcall(Head(upcalls))
  /\ UNCHANGED <<wanted, at, passes>>

-----------------------------------------------------------------------------
(* expire_routes *)

\* Mutant: the pass ends at the first route that is wanted.
KeepRoute_Stop ==
  /\ at \in 1..Len(routes)
  /\ routes[at] \in wanted
  /\ at' = Len(routes) + 1
  /\ UNCHANGED <<wanted, routes, mfc, upcalls, passes>>

KeepRoute ==
  /\ at \in 1..Len(routes)
  /\ routes[at] \in wanted
  /\ at' = at + 1
  /\ UNCHANGED <<wanted, routes, mfc, upcalls, passes>>

\* Mutant: the loop goes on from the node after the last one.
DeleteRoute_NoBreak ==
  /\ at \in 1..Len(routes)
  /\ routes[at] \notin wanted
  /\ mfc' = mfc \ {routes[at]}
  /\ routes' = RemoveAt(routes, at)
  /\ at' = at + 1
  /\ UNCHANGED <<wanted, upcalls, passes>>

\* The loop steps over the node that follows the deleted one; if there is none
\* it breaks.
DeleteRoute ==
  /\ at \in 1..Len(routes)
  /\ routes[at] \notin wanted
  /\ mfc' = mfc \ {routes[at]}
  /\ routes' = RemoveAt(routes, at)
  /\ at' = IF at = Len(routes) THEN at ELSE at + 1
  /\ UNCHANGED <<wanted, upcalls, passes>>

EndPass ==
  /\ at = Len(routes) + 1
  /\ passes' = passes - 1
  /\ at' = IF passes = 1 THEN 0 ELSE 1
  /\ UNCHANGED <<wanted, routes, mfc, upcalls>>

expire_routes == KeepRoute \/ DeleteRoute \/ EndPass

-----------------------------------------------------------------------------
Init ==
  /\ wanted = {}
  /\ routes = <<>>
  /\ mfc = {}
  /\ upcalls = <<>>
  /\ at = 0
  /\ passes = 0

\* A change of the memberships that ends in expire_routes.
Activity == \E w \in SUBSET Route : Report(w) \/ Expire(w)

Next ==
  \/ Activity
  \/ \E w \in SUBSET Route : Lapse(w)
  \/ \E mif \in Mif, r \in Route : Upcall(mif, r)
  \/ HandleSocket
  \/ expire_routes

Spec == Init /\ [][Next]_vars

\* A pass ends, and memberships go on changing: listeners answer the query that
\* is sent every ECMH_SUBSCRIPTION_TIMEOUT seconds.
FairSpec == Spec /\ WF_vars(expire_routes) /\ WF_vars(Activity)

-----------------------------------------------------------------------------
(* Properties.                                                              *)

\* The variables have their types; the place expire_routes has reached is a node
\* of the list, or its end, also after it deleted one.
TypeOK ==
  /\ wanted \subseteq Route
  /\ routes \in Seq(Route)
  /\ mfc \subseteq Route
  /\ upcalls \in Seq([mif : Mif, route : Route])
  /\ at \in 0..(Len(routes) + 1)
  /\ passes \in 0..2
  /\ at = 0 <=> passes = 0

\* The list routes holds exactly what the kernel forwards, each route once,
\* also between the steps of a pass and when the kernel asks twice: the kernel
\* has no route that expire_routes cannot find, and none is deleted that is
\* not there.
Mirrors ==
  /\ mfc = {routes[j] : j \in 1..Len(routes)}
  /\ \A i, j \in 1..Len(routes) : routes[i] = routes[j] => i = j

Cache == INSTANCE RouteCache

\* Upcalls and passes implement the abstract cache: no route is added that
\* nobody wants, none deleted that somebody wants, and although a pass steps
\* over routes, a stream that stays unwanted is not forwarded for ever, as long
\* as passes recur.
ImplementsCache == Cache!FairSpec
=============================================================================
