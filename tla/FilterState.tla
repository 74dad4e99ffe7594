---------------------------- MODULE FilterState ----------------------------
(***************************************************************************)
(* What ecmh remembers of one multicast group on one interface (struct     *)
(* grpintnode) and what a record of an MLDv2 report makes of it            *)
(* (handle_downstream_subscription in mld2_logic.c).                       *)
(*                                                                         *)
(*   mode   filter_mode                                                    *)
(*   inc    the includes list, with the source timers                      *)
(*   nulls  whether includes also holds nodes without data                 *)
(*   exc    the excludes list; its timers are never read, so it is a set   *)
(*   ft     filter_timer, in seconds left                                  *)
(***************************************************************************)
EXTENDS SourceList

INCLUDE == "INCLUDE"
EXCLUDE == "EXCLUDE"

Node == [mode : {INCLUDE, EXCLUDE}, inc : SrcList, nulls : BOOLEAN,
         exc : SUBSET Source, ft : Timer]

\* The record types is_known_grec_type accepts.
GrecType == {"IS_IN", "IS_EX", "TO_IN", "TO_EX", "ALLOW", "BLOCK"}

Including == {"IS_IN", "ALLOW", "TO_IN"}
Excluding == {"IS_EX", "TO_EX"}

\* grpint_create.  filter_timer is left uninitialised but it is only read in
\* EXCLUDE mode, which sets it.
NewNode ==
  [mode |-> INCLUDE, inc |-> EmptyList, nulls |-> FALSE, exc |-> {}, ft |-> 0]

\* list_isempty(grpintn->includes)
IsEmpty(n) == DOMAIN n.inc = {} /\ ~ n.nulls

-----------------------------------------------------------------------------
(* handle_downstream_subscription, one operator per branch.  B (A in        *)
(* EXCLUDE mode) is the set of sources of the record.                       *)

\* Mutant: the timers of the sources that are asked for are not restarted.
IncludeAllow_NoRestart(n, type, B) ==
  [n EXCEPT !.inc = IF type = "TO_IN"
                    THEN set_source_timers(list_union(n.inc, B), DOMAIN n.inc \ B, LLQI)
                    ELSE list_union(n.inc, B),
            !.nulls = FALSE]

IncludeAllow(n, type, B) ==
  LET A == DOMAIN n.inc
      refreshed == set_source_timers(list_union(n.inc, B), B, MALI)
  IN  [n EXCEPT !.inc = IF type = "TO_IN"
                        THEN set_source_timers(refreshed, A \ B, LLQI)
                        ELSE refreshed,
                !.nulls = FALSE]

IncludeToExclude(n, type, B) ==
  LET AjoinB == list_intersect(n.inc, B)
  IN  [mode |-> EXCLUDE,
       inc |-> IF type = "TO_EX"
               THEN set_source_timers(AjoinB, B, LLQI)
               ELSE AjoinB,
       nulls |-> FALSE,
       exc |-> B \ DOMAIN n.inc,
       ft |-> MALI]

IncludeBlock(n, B) == [n EXCEPT !.inc = set_source_timers(n.inc, B, LLQI)]

\* YminusA is computed with list_intersect.
ExcludeAllow(n, type, A) ==
  LET X == DOMAIN n.inc
      XplusA == set_source_timers(list_union(n.inc, A), X \cup A, MALI)
      YminusA == n.exc \cap A
  IN  [n EXCEPT !.inc = IF type = "TO_IN"
                        THEN set_source_timers(XplusA, X \ A, LLQI)
                        ELSE XplusA,
                !.nulls = FALSE,
                !.exc = YminusA,
                !.ft = IF type = "TO_IN" THEN LLQI ELSE @]

\* The sources A-X-Y are on neither list, so the timers meant for them go
\* nowhere, and list_remove_all leaves the nodes without data in place.
ExcludeExclude(n, type, A) ==
  LET AminusY == A \ n.exc
      XminusA == DOMAIN n.inc \ A
      kept == list_remove_all(n.inc, XminusA)
  IN  [n EXCEPT !.inc = IF type = "TO_EX"
                        THEN set_source_timers(kept, AminusY, LLQI)
                        ELSE kept,
                !.exc = @ \cap A,
                !.ft = MALI]

ExcludeBlock(n, A) ==
  LET AminusY == A \ n.exc
      added == list_add_all(n.inc, AminusY)
  IN  [n EXCEPT !.inc = set_source_timers(added.list, AminusY, LLQI),
                !.nulls = @ \/ added.nulls]

\* The whole function, for a node groupint_get found or made.
handle_downstream_subscription(n, type, srcs) ==
  CASE n.mode = INCLUDE /\ type \in Including -> IncludeAllow(n, type, srcs)
    [] n.mode = INCLUDE /\ type \in Excluding -> IncludeToExclude(n, type, srcs)
    [] n.mode = INCLUDE /\ type = "BLOCK"     -> IncludeBlock(n, srcs)
    [] n.mode = EXCLUDE /\ type \in Including -> ExcludeAllow(n, type, srcs)
    [] n.mode = EXCLUDE /\ type \in Excluding -> ExcludeExclude(n, type, srcs)
    [] n.mode = EXCLUDE /\ type = "BLOCK"     -> ExcludeBlock(n, srcs)

\* Mutant: in EXCLUDE mode the blocked sources are asked about as in INCLUDE mode.
QueriedSources_IncludeOnly(n, type, srcs) ==
  CASE type = "TO_IN" -> DOMAIN n.inc \ srcs
    [] type \in {"TO_EX", "BLOCK"} -> DOMAIN n.inc \cap srcs
    [] OTHER -> {}

\* The sources mld_send_mquery asks about while the record is handled.
QueriedSources(n, type, srcs) ==
  CASE type = "TO_IN" -> DOMAIN n.inc \ srcs
    [] n.mode = INCLUDE /\ type \in {"TO_EX", "BLOCK"} -> DOMAIN n.inc \cap srcs
    [] n.mode = EXCLUDE /\ type \in {"TO_EX", "BLOCK"} -> srcs \ n.exc
    [] OTHER -> {}

\* Mutant: the group is not asked about.
QueriesGroup_Never(n, type) == FALSE

\* Whether mld_send_query asks about the group as a whole.
QueriesGroup(n, type) == n.mode = EXCLUDE /\ type = "TO_IN"

-----------------------------------------------------------------------------
(* What a node stands for.                                                  *)

\* check_route, for the node of the group on the interface.  The timers of
\* included sources are not looked at.
Wants(n, s) ==
  \/ n.mode = INCLUDE /\ s \in DOMAIN n.inc
  \/ n.mode = EXCLUDE /\ n.ft > 0 /\ s \notin n.exc

\* The time_t values stay put while the clock moves on.
Age(n) == [n EXCEPT !.inc = AgeList(@), !.ft = Elapse(@)]

\* Mutant: a source whose time is up is kept.
ExpireIncludes_Keep(n) ==
  [n EXCEPT !.inc = [s \in {t \in DOMAIN n.inc : n.inc[t] >= 0} |-> n.inc[s]]]

\* The loop over the sources of an INCLUDE node in expire_sources.
ExpireIncludes(n) ==
  [n EXCEPT !.inc = [s \in {t \in DOMAIN n.inc : n.inc[t] > 0} |-> n.inc[s]]]
=============================================================================
