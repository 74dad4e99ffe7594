---------------------------- MODULE ReportParser ----------------------------
(***************************************************************************)
(* How an MLDv2 report is taken apart: l3_ipv6 skips the extension headers *)
(* and computes the length of the message, l4_ipv6_icmpv6 passes it on,    *)
(* and l4_ipv6_icmpv6_mld2_report walks from group record to group record  *)
(* by the lengths it finds.                                                *)
(*                                                                         *)
(* The sender lays the packet out header by header and record by record,   *)
(* and may then say anything about its length.  A header or a record is    *)
(* read where the code believes it begins; where none begins, or where it  *)
(* is not in the frame, what is read may be anything.                      *)
(***************************************************************************)
EXTENDS Integers, SequencesExt

CONSTANTS
  MaxRecords,  \* bound: the records of a report
  MaxSources,  \* bound: the sources of a record
  MaxAux,      \* bound: grec_auxwords of a record
  MaxHeaders,  \* bound: the extension headers
  MaxExt,      \* bound: the length field of an extension header
  Lengths      \* the lengths, besides the true one, that the packet may announce
               \*   and that its frame may have

\* The largest value of the uint16_t that lengths are kept in.
UINT16_MAX == 65535

ASSUME ParserAssumption ==
  /\ {MaxRecords, MaxSources, MaxAux, MaxHeaders, MaxExt} \subseteq Nat
  /\ Lengths \subseteq 0..UINT16_MAX

VARIABLES
  ext,      \* the packet: its extension headers,
  heads,    \*   where each of them begins behind the IPv6 header and the last one ends,
  recs,     \*   its group records,
  starts,   \*   where each of them begins in the message and the last one ends,
  claim,    \*   and what else is said of it
  nxt,      \* ipe_type: "header" for a known extension header, "icmpv6" or "other"
  off,      \* ipe, as the bytes behind the IPv6 header that l3_ipv6 has skipped
  plen,     \* the length of the message, as l3_ipv6 has computed it so far
  grec,     \* the offset in the message at which the walk expects the next record
  ngrec,    \* the records it still expects
  handled,  \* the records given to handle_downstream_subscription, by number
  reach,    \* where the last source that was taken ends, behind the IPv6 header
  pc        \* "idle", "headers", "walk", or "out" once the handler is at its end

packet == <<ext, heads, recs, starts, claim>>

vars == <<packet, nxt, off, plen, grec, ngrec, handled, reach, pc>>

\* sizeof struct mld2_report, struct mld2_grec and struct in6_addr.
SizeReport == 8
SizeGrec == 20
SizeAddr == 16

\* The Ethernet header, which handleinterfaces does not take off the length.
SizeEther == 14

\* kind is what the walk tests of the group and the type: "routed" is a known
\* type for a group that is neither node-local nor link-local.
Rec == [kind : {"routed", "local", "unknown"}, nsrcs : 0..MaxSources, auxwords : 0..MaxAux]

\* A known extension header: of options or routing, or an authentication header, which
\* is never shorter than twelve bytes; and its length field.
Ext == {e \in [kind : {"options", "ah"}, len : 0..MaxExt] : e.kind = "ah" => e.len > 0}

-----------------------------------------------------------------------------
(* The sender (RFC 3810, 5.2; RFC 8200, 4; RFC 4302, 2.2).                  *)

\* Auxiliary data is counted in words of four bytes.
RecLength(r) == SizeGrec + SizeAddr * r.nsrcs + 4 * r.auxwords

\* A header says how many units of eight bytes follow its first; an authentication
\* header counts units of four, two less than it has.
ExtLength(e) == IF e.kind = "ah" THEN 4 * (e.len + 2) ELSE 8 * (e.len + 1)

\* The true length of what is behind the IPv6 header.
Payload == Last(heads) + Last(starts)

\* The source address; by how much the number of records is too large; ip6_plen; and
\* how many bytes the frame has behind the IPv6 header, padding included.
Claims(lengths) ==
  [src : {"linklocal", "global", "own"}, more : 0..1, plen : lengths, frame : lengths]

NoClaim == [src |-> "own", more |-> 0, plen |-> 0, frame |-> 0]

\* ip6_plen is a field of 16 bits.
Fits(n) == Payload + n <= UINT16_MAX

AddHeader(e) ==
  /\ pc = "idle"
  /\ recs = <<>>
  /\ Len(ext) < MaxHeaders
  /\ Fits(ExtLength(e))
  /\ ext' = Append(ext, e)
  /\ heads' = Append(heads, Last(heads) + ExtLength(e))
  /\ UNCHANGED <<recs, starts, claim, nxt, off, plen, grec, ngrec, handled, reach, pc>>

AddRecord(r) ==
  /\ pc = "idle"
  /\ Len(recs) < MaxRecords
  /\ Fits(RecLength(r))
  /\ recs' = Append(recs, r)
  /\ starts' = Append(starts, Last(starts) + RecLength(r))
  /\ UNCHANGED <<ext, heads, claim, nxt, off, plen, grec, ngrec, handled, reach, pc>>

\* A report as RFC 3810 has it, in a frame that may be padded.
WellFormed ==
  /\ claim.src = "linklocal" /\ claim.more = 0
  /\ claim.plen = Payload /\ Payload <= claim.frame
  /\ \A j \in 1..Len(ext) : ext[j].kind = "options"

-----------------------------------------------------------------------------
(* l3_ipv6 and l4_ipv6_icmpv6 *)

\* The type of what is behind the first n extension headers.
TypeAfter(n) == IF n < Len(ext) THEN "header" ELSE "icmpv6"

\* The packet arrives.  l3_ipv6 skips what comes from the interface's own addresses,
\* and takes ip6_plen as it is.
Receive(c) ==
  /\ pc = "idle"
  /\ claim' = c
  /\ plen' = c.plen
  /\ nxt' = TypeAfter(0)
  /\ pc' = IF c.src = "own" THEN "out" ELSE "headers"
  /\ UNCHANGED <<ext, heads, recs, starts, off, grec, ngrec, handled, reach>>

\* The length and the type of the next that l3_ipv6 may find in a header.
FoundHeaders ==
  LET J == {j \in 1..Len(ext) : heads[j] = off /\ off + 2 <= claim.frame}
  IN  IF J = {} THEN (0..MaxExt) \X {"header", "icmpv6", "other"}
      ELSE {<<ext[j].len, TypeAfter(j)>> : j \in J}

\* Every header is taken to count in units of eight bytes, and is taken off plen,
\* an uint16_t.  The drop of a chain that leaves the frame comes late, since len
\* counts the Ethernet header too.
SkipHeader ==
  /\ pc = "headers"
  /\ nxt = "header"
  /\ \E h \in FoundHeaders :
       LET l == h[1] * 8 + 8
       IN  /\ nxt' = h[2]
           /\ plen' = (plen - l) % (UINT16_MAX + 1)
           /\ off' = off + l
           /\ pc' = IF off' > claim.frame + SizeEther THEN "out" ELSE "headers"
  /\ UNCHANGED <<packet, grec, ngrec, handled, reach>>

\* The report lies where l3_ipv6 has come to.
ReportHere == off = Last(heads) /\ off + SizeReport <= claim.frame

\* Anything else is forwarded, ignored or handled as what it seems to be.
NotReport ==
  /\ pc = "headers"
  /\ \/ nxt = "other"
     \/ nxt = "icmpv6" /\ ~ ReportHere
  /\ pc' = "out"
  /\ UNCHANGED <<packet, nxt, off, plen, grec, ngrec, handled, reach>>

\* l4_ipv6_icmpv6 passes on what comes from link-local addresses.  A wrong checksum
\* is logged, and the message is handled.
OnLink == claim.src = "linklocal"

\* The number of records the message may be found to announce.
FoundCounts == IF ReportHere THEN {Len(recs) + claim.more} ELSE 0..(MaxRecords + 1)

\* The message is reached, or something that looks like one: up to the loop of
\* l4_ipv6_icmpv6_mld2_report, and not into it if the records it announces cannot be
\* in the message.
BeginReport ==
  /\ pc = "headers"
  /\ nxt = "icmpv6"
  /\ ngrec' \in FoundCounts
  /\ pc' = IF OnLink /\ SizeReport + ngrec' * SizeGrec <= plen THEN "walk" ELSE "out"
  /\ UNCHANGED <<packet, nxt, off, plen, grec, handled, reach>>

-----------------------------------------------------------------------------
(* l4_ipv6_icmpv6_mld2_report *)

\* The number of the record that begins where the walk is, 0 if none does.
Here ==
  LET K == {k \in 1..Len(recs) : /\ Last(heads) + starts[k] = off + grec
                                 /\ off + grec + SizeGrec <= claim.frame}
  IN  IF K = {} THEN 0 ELSE CHOOSE k \in K : TRUE

\* What the walk may find there.
FoundRecords == IF Here = 0 THEN Rec ELSE {recs[Here]}

\* Where the sources of a record end in the message.
SourcesEnd(r) == grec + SizeGrec + SizeAddr * r.nsrcs

\* Mutant: a record may begin behind the end.
Stops_NoBegin(r) ==
  \/ r.kind = "local"
  \/ r.kind = "unknown"
  \/ r.nsrcs > 0 /\ SourcesEnd(r) > plen

\* Mutant: the sources may end beyond the message.
Stops_NoSources(r) ==
  \/ r.kind = "local"
  \/ grec > plen
  \/ r.kind = "unknown"

\* Mutant: a record has to be followed by another one.
Stops_Last(r) ==
  \/ r.kind = "local"
  \/ grec > plen
  \/ r.kind = "unknown"
  \/ r.nsrcs > 0 /\ SourcesEnd(r) >= plen

\* The four tests that leave the loop: a group that is not routed, a record that
\* begins behind the end, an unknown type, and sources that end behind the end.
Stops(r) ==
  \/ r.kind = "local"
  \/ grec > plen
  \/ r.kind = "unknown"
  \/ r.nsrcs > 0 /\ SourcesEnd(r) > plen

\* goto out
Stop ==
  /\ pc = "walk"
  /\ ngrec > 0
  /\ \E r \in FoundRecords : Stops(r)
  /\ pc' = "out"
  /\ UNCHANGED <<packet, nxt, off, plen, grec, ngrec, handled, reach>>

\* The record is handled.  Its auxiliary data is skipped as if it were counted in
\* bytes.
HandleRecord ==
  /\ pc = "walk"
  /\ ngrec > 0
  /\ \E r \in FoundRecords :
       /\ ~ Stops(r)
       /\ grec' = SourcesEnd(r) + r.auxwords
       /\ reach' = IF r.nsrcs > 0 THEN off + SourcesEnd(r) ELSE reach
  /\ handled' = Append(handled, Here)
  /\ ngrec' = ngrec - 1
  /\ UNCHANGED <<packet, nxt, off, plen, pc>>

Done ==
  /\ pc = "walk"
  /\ ngrec = 0
  /\ pc' = "out"
  /\ UNCHANGED <<packet, nxt, off, plen, grec, ngrec, handled, reach>>

-----------------------------------------------------------------------------
Init ==
  /\ ext = <<>> /\ heads = <<0>>
  /\ recs = <<>> /\ starts = <<SizeReport>>
  /\ claim = NoClaim
  /\ nxt = "other"
  /\ off = 0
  /\ plen = 0
  /\ grec = SizeReport
  /\ ngrec = 0
  /\ handled = <<>>
  /\ reach = 0
  /\ pc = "idle"

\* The handler returns, and nothing is kept for the next packet.
Return ==
  /\ pc = "out"
  /\ ext' = <<>> /\ heads' = <<0>>
  /\ recs' = <<>> /\ starts' = <<SizeReport>>
  /\ claim' = NoClaim
  /\ nxt' = "other"
  /\ off' = 0
  /\ plen' = 0
  /\ grec' = SizeReport
  /\ ngrec' = 0
  /\ handled' = <<>>
  /\ reach' = 0
  /\ pc' = "idle"

Next ==
  \/ \E e \in Ext : AddHeader(e)
  \/ \E r \in Rec : AddRecord(r)
  \/ \E c \in Claims(Lengths \cup {Payload}) : Receive(c)
  \/ SkipHeader
  \/ NotReport
  \/ BeginReport
  \/ Stop
  \/ HandleRecord
  \/ Done
  \/ Return

Spec == Init /\ [][Next]_vars

-----------------------------------------------------------------------------
(* Properties.                                                              *)

\* The variables have their types.  Within the length the packet announces, less the
\* headers that were skipped, the walk gets no further than one record header without
\* sources and its auxiliary data beyond the end.
TypeOK ==
  /\ ext \in Seq(Ext) /\ heads \in Seq(Nat)
  /\ recs \in Seq(Rec) /\ starts \in Seq(Nat)
  /\ claim \in Claims(0..UINT16_MAX)
  /\ nxt \in {"header", "icmpv6", "other"}
  /\ off \in Nat
  /\ plen \in 0..UINT16_MAX
  /\ ngrec \in Nat
  /\ handled \in Seq(0..Len(recs))
  /\ reach \in Nat
  /\ pc \in {"idle", "headers", "walk", "out"}
  /\ grec \in SizeReport..(IF handled = <<>> THEN SizeReport ELSE plen + SizeGrec + MaxAux)

\* Whatever the headers and records say, no source is taken from outside the frame, as
\* long as the payload the packet announces is in the frame and the headers that were
\* skipped are in that payload.  The code compares neither: where one of them is not so,
\* sources may be read from beyond the frame.
SourcesInside ==
  off <= claim.plen /\ claim.plen <= claim.frame => reach <= claim.frame

\* The records before the k-th are routed and carry no auxiliary data.
PlainBefore(k) == \A j \in 1..(k - 1) : recs[j].kind = "routed" /\ recs[j].auxwords = 0

\* Of a report a correct sender has made, behind any extension headers but an
\* authentication header, the records up to the first that is not routed are handled,
\* each once and in order, and none after it; this is certain only up to the first record
\* with auxiliary data, behind which the walk has lost its place.
ReadsReport ==
  pc = "out" /\ WellFormed =>
    /\ \A k \in 1..Len(recs) :
         PlainBefore(k) => IF recs[k].kind = "routed"
                           THEN k <= Len(handled) /\ handled[k] = k
                           ELSE Len(handled) = k - 1
    /\ PlainBefore(Len(recs) + 1) => Len(handled) = Len(recs)
=============================================================================
