--------------------------- MODULE GroupInterface ---------------------------
(***************************************************************************)
(* One grpintnode on its own, over its whole life: any record may arrive,  *)
(* time passes, and expire_sources visits it.  The properties compare what *)
(* every record would do to it with what RFC 3810 says.                    *)
(***************************************************************************)
EXTENDS Rfc3810

VARIABLE node

Init == node = NewNode

Record(type, B) == node' = handle_downstream_subscription(node, type, B)

Second == node' = Age(node)

\* Mutant: the filter timer is not looked at.
Expire_AnyTime ==
  LET visited == IF node.mode = INCLUDE THEN ExpireIncludes(node)
                                        ELSE [node EXCEPT !.mode = INCLUDE]
  IN  node' = IF IsEmpty(visited) THEN NewNode ELSE visited

\* expire_sources.  A node that is left with an empty includes list is removed;
\* the next record for the group makes a new one.
Expire ==
  LET visited == IF node.mode = INCLUDE THEN ExpireIncludes(node)
                                        ELSE [node EXCEPT !.mode = INCLUDE]
  IN  /\ node.mode = EXCLUDE => node.ft = 0
      /\ node' = IF IsEmpty(visited) THEN NewNode ELSE visited

Next ==
  \/ \E type \in GrecType, B \in SUBSET Source : Record(type, B)
  \/ Second
  \/ Expire

Spec == Init /\ [][Next]_node

-----------------------------------------------------------------------------
\* The node has its type, and the filter timer runs only in EXCLUDE mode: the
\* switch back waits for it, so whatever grpint_create left in the field is
\* never taken for a running timer.
TypeOK ==
  /\ node \in Node
  /\ node.mode = INCLUDE => node.ft = 0

\* A record leaves the lists of RFC 3810, and no timer below the RFC's.
FollowsRfc(n, type, B) ==
  LET m == handle_downstream_subscription(n, type, B)
  IN  /\ DOMAIN m.inc = RfcRequested(n, type, B)
      /\ m.exc = RfcExcluded(n, type, B)
      /\ \A s \in DOMAIN m.inc : m.inc[s] >= RfcTimers(n, type, B)[s]

\* In INCLUDE mode every branch of handle_downstream_subscription leaves the
\* sources that RFC 3810 leaves, on the same lists, and no source timer ends
\* up below the one of the RFC: nobody's traffic stops early.
IncludeFollowsRfc ==
  node.mode = INCLUDE =>
    \A type \in GrecType, B \in SUBSET Source : FollowsRfc(node, type, B)

\* A record causes the queries of RFC 3810, for sources and for the group as a
\* whole, and its mode, and no shorter filter timer.
Converses(n, type, B) ==
  LET m == handle_downstream_subscription(n, type, B)
  IN  /\ QueriedSources(n, type, B) = RfcQueried(n, type, B)
      /\ QueriesGroup(n, type) = RfcQueriesGroup(n, type)
      /\ m.mode = RfcMode(n, type)
      /\ m.ft >= RfcFilterTimer(n, type)

\* In both modes the daemon asks the listeners about exactly the sources RFC 3810
\* makes a querier ask about, and about the group as a whole exactly when the RFC
\* does, switches mode exactly when the RFC does, and keeps the group at least as
\* long.
ConversesLikeRfc ==
  \A type \in GrecType, B \in SUBSET Source : Converses(node, type, B)

\* No source a record has just asked for (ALLOW, IS_IN, TO_IN) is refused by
\* check_route: the packet path claims to "Forward a multicast packet to
\* interfaces that have subscriptions for it".
RequestedIsForwarded ==
  \A type \in Including, B \in SUBSET Source :
    \A s \in B : Wants(handle_downstream_subscription(node, type, B), s)
=============================================================================
