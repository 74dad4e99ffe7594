----------------------------- MODULE SourceList -----------------------------
(***************************************************************************)
(* The source lists of ecmh (linklist.c, msrc.c, mrec.c).                  *)
(*                                                                         *)
(* A list of struct msrc is a function from the addresses on it to their   *)
(* timers.  The lists are only ever searched by address, no operation adds *)
(* an address twice, and nothing depends on their order, so the function   *)
(* keeps all of the data that matters.  A timer is the number of seconds   *)
(* until the absolute time the code stores, and 0 once that time has been  *)
(* reached: the code only ever compares a timer with "<= now".             *)
(*                                                                         *)
(* The second argument of the binary operators is the set of addresses on  *)
(* the other list, since its timers are never looked at.                   *)
(***************************************************************************)
EXTENDS Integers

CONSTANTS
  Source,   \* the addresses multicast is sent from
  MALI,     \* Multicast Address Listening Interval, in seconds
  LLQI      \* Last Listener Query Interval, in seconds

ASSUME TimerAssumption ==
  /\ MALI \in Nat
  /\ LLQI \in Nat
  /\ 0 < LLQI
  /\ LLQI < MALI

Timer == 0..MALI

\* struct list of struct msrc: the addresses on the list, with their timers.
SrcList == UNION {[D -> Timer] : D \in SUBSET Source}

EmptyList == [s \in {} |-> 0]

list_intersect(a, B) == [s \in DOMAIN a \cap B |-> a[s]]

\* An address of b that is new to a arrives with the timer of a fresh record
\* source, which is 0 (mrec_add_source_addr).
list_union(a, B) ==
  [s \in DOMAIN a \cup B |-> IF s \in DOMAIN a THEN a[s] ELSE 0]

list_difference(a, B) == [s \in DOMAIN a \ B |-> a[s]]

\* The same list afterwards, but updated in place.
list_remove_all(a, B) == [s \in DOMAIN a \ B |-> a[s]]

\* list_add_all overwrites the element it is about to add with the NULL of the
\* failed search.  No address is added; the list gains a node without data for
\* every address of b it does not have, which no LIST_LOOP sees but which the
\* count and list_isempty do.
list_add_all(a, B) == [list |-> a, nulls |-> ~ (B \subseteq DOMAIN a)]

\* set_source_timers: give the addresses of a that are in which the timer t.
set_source_timers(a, which, t) ==
  [s \in DOMAIN a |-> IF s \in which THEN t ELSE a[s]]

\* One second passes for every timer of the list.
Elapse(t) == IF t = 0 THEN 0 ELSE t - 1

AgeList(a) == [s \in DOMAIN a |-> Elapse(a[s])]
=============================================================================
