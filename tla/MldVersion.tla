----------------------------- MODULE MldVersion -----------------------------
(***************************************************************************)
(* The MLD version of an interface (mld_version, mld_last_v1), which every *)
(* MLD message that arrives on it may change and which decides how ecmh    *)
(* answers a query: int_set_mld_version, the handlers that call it, and    *)
(* mld_send_report.                                                        *)
(***************************************************************************)
EXTENDS Integers

CONSTANT Timeout   \* ECMH_SUBSCRIPTION_TIMEOUT, in seconds

ASSUME TimeoutAssumption == Timeout \in Nat

VARIABLES
  mode,      \* the command line: "both", "mld1only" or "mld2only"
  upstream,  \* whether the interface is the upstream one
  version,   \* mld_version
  lastV1,    \* seconds since the time in mld_last_v1; Never if that is 0
  groups,    \* whether some group has a node for the interface
  heardV1,   \* seconds since the last MLDv1 message; Never if there was none
  asked,     \* the version of the query just handled, 0 if it was none
  sent       \* the versions of the reports sent in answer

vars == <<mode, upstream, version, lastV1, groups, heardV1, asked, sent>>

Never == -1

\* Bound: ages from here on are all the same, being past every comparison.
Old == Timeout + 1

Age == {Never} \cup 0..Old

Older(a) == IF a = Never \/ a = Old THEN a ELSE a + 1

-----------------------------------------------------------------------------
(* int_set_mld_version, as the version and the age it leaves.               *)

\* Mutant: the version is set and the time is not.
AfterV1_NoTime(v) ==
  IF mode # "mld2only" /\ v.version = 0 THEN [v EXCEPT !.version = 1] ELSE v

\* An MLDv1 message counts only while no version is known.
AfterV1(v) ==
  IF mode # "mld2only" /\ v.version = 0 THEN [version |-> 1, lastV1 |-> 0] ELSE v

\* Mutant: the version is not forgotten.
AfterV2_NoReset(v) ==
  [v EXCEPT !.version = IF mode # "mld1only" /\ @ = 0 THEN 2 ELSE @]

\* Mutant: the version is forgotten and learnt with the next message only.
AfterV2_Unknown(v) ==
  IF v.lastV1 > Timeout THEN [version |-> 0, lastV1 |-> Never]
  ELSE [v EXCEPT !.version = IF mode # "mld1only" /\ @ = 0 THEN 2 ELSE @]

\* Anything newer: the version is forgotten if the stored time is long past,
\* and then learnt.
AfterV2(v) ==
  LET late == v.lastV1 > Timeout
      ver  == IF late THEN 0 ELSE v.version
  IN  [version |-> IF mode # "mld1only" /\ ver = 0 THEN 2 ELSE ver,
       lastV1  |-> IF late THEN Never ELSE v.lastV1]

Heard(v, new) == IF new = 1 THEN AfterV1(v) ELSE AfterV2(v)

int_set_mld_version(new) ==
  LET after == Heard([version |-> version, lastV1 |-> lastV1], new)
  IN  /\ version' = after.version
      /\ lastV1' = after.lastV1
      /\ heardV1' = IF new = 1 THEN 0 ELSE heardV1

-----------------------------------------------------------------------------
(* The answer to a query: the versions of the reports that are really sent. *)

mld1_send_report == {1}

\* The loop over the subscriptions is compiled out (#if 0), so no record is ever
\* added and the packet is freed unsent.
mld2_send_report == {}

mld_send_report(v) ==
  UNION {IF /\ mode # "mld2only"
            /\ mode = "mld1only" \/ (v = 0 /\ ~ upstream) \/ v = 1
         THEN mld1_send_report ELSE {},
         IF /\ mode # "mld1only"
            /\ mode = "mld2only" \/ v \in {0, 2}
         THEN mld2_send_report ELSE {}}

\* Mutant: the answer has the version of the interface, known or not.
Answer_Raw(v) == {v}

\* If the interface may speak MLDv1, a report for each group that has a node for this
\* very interface; else one MLDv2 report of all groups.
Answer(v) ==
  CASE mode # "mld2only" /\ (mode = "mld1only" \/ v \in {0, 1}) ->
         IF groups THEN mld_send_report(v) ELSE {}
    [] mode = "mld2only" \/ (mode = "both" /\ v = 2) -> mld2_send_report

-----------------------------------------------------------------------------
(* The messages.                                                            *)

\* l4_ipv6_icmpv6_mld_query
Query(new) ==
  /\ int_set_mld_version(new)
  /\ asked' = new
  /\ sent' = Answer(version')
  /\ UNCHANGED <<mode, upstream, groups>>

\* A report or, from MLDv1, a reduction.  Neither is answered.  A report makes a node,
\* unless it is about groups that are not routed.
Report(new) ==
  /\ int_set_mld_version(new)
  /\ groups' \in {groups, TRUE}
  /\ asked' = 0
  /\ sent' = {}
  /\ UNCHANGED <<mode, upstream>>

Second ==
  /\ lastV1' = Older(lastV1)
  /\ heardV1' = Older(heardV1)
  /\ asked' = 0
  /\ sent' = {}
  /\ UNCHANGED <<mode, upstream, version, groups>>

\* The interface's last node expires.
remove_grpintn ==
  /\ groups
  /\ groups' = FALSE
  /\ asked' = 0
  /\ sent' = {}
  /\ UNCHANGED <<mode, upstream, version, lastV1, heardV1>>

\* The device vanishes and comes back: int_create clears the interface.  The nodes
\* are found by its index, which may be a new one.
IntCreate ==
  /\ version' = 0
  /\ groups' \in {groups, FALSE}
  /\ lastV1' = Never
  /\ heardV1' = Never
  /\ asked' = 0
  /\ sent' = {}
  /\ UNCHANGED <<mode, upstream>>

Init ==
  /\ mode \in {"both", "mld1only", "mld2only"}
  /\ upstream \in BOOLEAN
  /\ version = 0
  /\ lastV1 = Never
  /\ groups = FALSE
  /\ heardV1 = Never
  /\ asked = 0
  /\ sent = {}

Message(new) == Query(new) \/ Report(new)

Next ==
  \/ \E new \in {1, 2} : Message(new)
  \/ Second
  \/ remove_grpintn
  \/ IntCreate

Spec == Init /\ [][Next]_vars

\* Time passes, and MLDv2 messages keep arriving.
FairSpec == Spec /\ WF_vars(Second) /\ WF_vars(Message(2))

-----------------------------------------------------------------------------
(* Properties.                                                              *)

\* The variables have their types; the reports sent are of versions that exist.
TypeOK ==
  /\ mode \in {"both", "mld1only", "mld2only"}
  /\ upstream \in BOOLEAN
  /\ version \in 0..2
  /\ lastV1 \in Age
  /\ groups \in BOOLEAN
  /\ heardV1 \in Age
  /\ asked \in 0..2
  /\ sent \in SUBSET {1, 2}

\* Unless the daemon is to speak MLDv2 only, a query is answered for as long as the
\* interface has groups and has not come to version 2: no order of messages and timeouts
\* leaves it to be answered in a version that is unknown, in which mld_send_report sends
\* nothing on the upstream interface.  Without groups, as is normal upstream, nothing is
\* sent.
AnsweredBelowV2 ==
  asked # 0 /\ mode # "mld2only" /\ version # 2 => sent = IF groups THEN {1} ELSE {}

\* The code keeps a time for exactly the interfaces that are at version 1, so
\* every one of them can leave it again.
TimedV1 == version = 1 <=> lastV1 # Never

\* On a link where MLDv1 has fallen silent and MLDv2 has not, the interface
\* ends at version 2.
UpgradeHappens ==
  /\ mode = "both"
  /\ <>[](heardV1 # 0)
  /\ <>[][~ IntCreate]_vars
  => <>[](version = 2)
=============================================================================
