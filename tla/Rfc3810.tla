------------------------------ MODULE Rfc3810 ------------------------------
(***************************************************************************)
(* Reference definition: what a router does with a current-state or state- *)
(* change record according to RFC 3810, sections 7.4.1, 7.4.2 and 7.6.3.1, *)
(* as the comments of handle_downstream_subscription cite it row by row.   *)
(***************************************************************************)
EXTENDS FilterState

\* A source that is queried has its timer lowered to the last listener query
\* interval, unless less than that is left.
Lower(t) == IF t > LLQI THEN LLQI ELSE t

\* Timers of the requested list.  set: the sources the row sets to MALI or to
\* the filter timer; q: the queried ones.
Timers(n, D, fresh, value, q) ==
  [s \in D |->
     LET t == IF s \in fresh THEN value
              ELSE IF s \in DOMAIN n.inc THEN n.inc[s] ELSE 0
     IN  IF s \in q THEN Lower(t) ELSE t]

RfcQueried(n, type, B) ==
  LET A == DOMAIN n.inc IN
  CASE type = "TO_IN" -> A \ B
    [] type \in {"TO_EX", "BLOCK"} ->
         IF n.mode = INCLUDE THEN A \cap B ELSE B \ n.exc
    [] OTHER -> {}

\* Q(MA), the query for the group as a whole.
RfcQueriesGroup(n, type) == n.mode = EXCLUDE /\ type = "TO_IN"

RfcMode(n, type) == IF type \in Excluding THEN EXCLUDE ELSE n.mode

\* The requested list, X in EXCLUDE mode.
RfcRequested(n, type, B) ==
  LET X == DOMAIN n.inc IN
  CASE type \in Including -> X \cup B
    [] n.mode = INCLUDE /\ type \in Excluding -> X \cap B
    [] n.mode = EXCLUDE /\ type \in Excluding -> B \ n.exc
    [] n.mode = INCLUDE /\ type = "BLOCK" -> X
    [] n.mode = EXCLUDE /\ type = "BLOCK" -> X \cup (B \ n.exc)

\* The exclude list, Y in EXCLUDE mode.
RfcExcluded(n, type, B) ==
  CASE n.mode = INCLUDE /\ type \in Excluding -> B \ DOMAIN n.inc
    [] n.mode = EXCLUDE /\ type \in Excluding -> n.exc \cap B
    [] n.mode = EXCLUDE /\ type \in Including -> n.exc \ B
    [] OTHER -> n.exc

RfcTimers(n, type, B) ==
  LET X == DOMAIN n.inc
      fresh == CASE type \in Including -> B
                 [] n.mode = EXCLUDE /\ type \in Excluding \cup {"BLOCK"} ->
                      (B \ X) \ n.exc
                 [] OTHER -> {}
      value == IF type \in {"TO_EX", "BLOCK"} THEN n.ft ELSE MALI
  IN  Timers(n, RfcRequested(n, type, B), fresh, value, RfcQueried(n, type, B))

RfcFilterTimer(n, type) ==
  CASE type \in Excluding -> MALI
    [] n.mode = EXCLUDE /\ type = "TO_IN" -> Lower(n.ft)
    [] OTHER -> n.ft
=============================================================================
