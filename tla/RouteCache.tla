----------------------------- MODULE RouteCache -----------------------------
(***************************************************************************)
(* What kernel forwarding (ecmh -k) owes its listeners: the kernel has a   *)
(* route only for what is wanted downstream when it is made, a route is    *)
(* never taken away while it is wanted, and one that stays unwanted goes.  *)
(***************************************************************************)
CONSTANT Route     \* the streams, (source, group) pairs

VARIABLES wanted,  \* the streams check_route answers yes for
          mfc      \* the streams the kernel forwards

vars == <<wanted, mfc>>

Init == wanted = {} /\ mfc = {}

Change ==
  /\ wanted' \in SUBSET Route
  /\ mfc' = mfc

Add(r) ==
  /\ r \in wanted
  /\ mfc' = mfc \cup {r}
  /\ wanted' = wanted

Remove(r) ==
  /\ r \in mfc \ wanted
  /\ mfc' = mfc \ {r}
  /\ wanted' = wanted

Next ==
  \/ Change
  \/ \E r \in Route : Add(r) \/ Remove(r)

Spec == Init /\ [][Next]_vars

FairSpec == Spec /\ \A r \in Route : WF_vars(Remove(r))
=============================================================================
