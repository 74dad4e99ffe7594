-------------------------- MODULE ReportParserProofs --------------------------
(***************************************************************************)
(* Proofs about the walk over an MLDv2 report, for any number of extension *)
(* headers, group records, sources and words of auxiliary data that fit    *)
(* into a packet.                                                          *)
(***************************************************************************)
EXTENDS ReportParser, SequenceTheorems, TLAPS

\* A sequence's last element and a sequence that was appended to.
LEMMA AppendFacts ==
  ASSUME NEW S, NEW s \in Seq(S), NEW x \in S
  PROVE  /\ Append(s, x) \in Seq(S)
         /\ Len(Append(s, x)) = Len(s) + 1
         /\ \A j \in 1..Len(s) : Append(s, x)[j] = s[j]
         /\ Append(s, x)[Len(s) + 1] = x
         /\ Last(Append(s, x)) = x
BY DEF Last

\* What a uint16_t can hold is not changed by the arithmetic modulo 2^16, and what comes
\* out of it is always what a uint16_t can hold.
LEMMA FieldFacts ==
  /\ UINT16_MAX \in Nat
  /\ \A x \in 0..UINT16_MAX : x % (UINT16_MAX + 1) = x
  /\ \A x \in Int : x % (UINT16_MAX + 1) \in 0..UINT16_MAX
<1>1. UINT16_MAX \in Nat /\ UINT16_MAX + 1 = 65536
  BY SMT DEF UINT16_MAX
<1>2. ASSUME NEW x \in Int
      PROVE  /\ x % (UINT16_MAX + 1) \in 0..UINT16_MAX
             /\ x \in 0..UINT16_MAX => x % (UINT16_MAX + 1) = x
  <2>1. x % 65536 \in Int /\ 0 <= x % 65536 /\ x % 65536 < 65536
    BY SMT
  <2>2. 0 <= x /\ x < 65536 => x % 65536 = x
    BY SMT
  <2> DEFINE r == x % (UINT16_MAX + 1)
  <2>3. /\ r \in Int /\ 0 <= r /\ r < UINT16_MAX + 1
        /\ 0 <= x /\ x < UINT16_MAX + 1 => r = x
    BY <1>1, <2>1, <2>2, SMT
  <2> HIDE DEF r
  <2>4. r \in 0..UINT16_MAX /\ (x \in 0..UINT16_MAX => r = x)
    <3>1. UINT16_MAX \in Nat
      BY <1>1
    <3> QED
      BY <2>3, <3>1
  <2> QED
    BY <2>4 DEF r
<1>3. UINT16_MAX \in Nat
  BY <1>1
<1>4. \A x \in 0..UINT16_MAX : x \in Int
  BY <1>3
<1> QED
  BY <1>2, <1>3, <1>4, Zenon

\* The extension headers lie one behind the other ...
HeadersLaid ==
  /\ ext \in Seq(Ext) /\ heads \in Seq(Nat)
  /\ Len(heads) = Len(ext) + 1
  /\ heads[1] = 0
  /\ \A j \in 1..Len(ext) : heads[j + 1] = heads[j] + ExtLength(ext[j])
  /\ \A i, j \in 1..Len(heads) : i < j => heads[i] < heads[j]

\* ... and so do the records, at least one record header apart.
RecordsLaid ==
  /\ recs \in Seq(Rec) /\ starts \in Seq(Nat)
  /\ Len(starts) = Len(recs) + 1
  /\ starts[1] = SizeReport
  /\ \A k \in 1..Len(recs) : starts[k + 1] = starts[k] + RecLength(recs[k])
  /\ \A k \in 1..Len(starts) : starts[k] >= SizeReport + SizeGrec * (k - 1)
  /\ \A j, k \in 1..Len(starts) : j < k => starts[j] < starts[k]

\* The packet as the sender lays it out.
Laid == HeadersLaid /\ RecordsLaid /\ Payload <= UINT16_MAX

\* As long as the headers that were skipped are within ip6_plen, plen is what is left of
\* it: nothing has wrapped around.
Measured ==
  /\ pc = "idle" => off = 0
  /\ pc # "idle" /\ off <= claim.plen => plen = claim.plen - off

\* In a correct report l3_ipv6 is always where a header begins, or the message.
AtHeader ==
  pc = "headers" /\ WellFormed =>
    \E j \in 1..Len(heads) : off = heads[j] /\ nxt = TypeAfter(j - 1)

\* The walk over a correct report has counted its records, and has not lost its place
\* before it has come to auxiliary data.
OnTrack ==
  pc = "walk" /\ WellFormed =>
    /\ off = Last(heads)
    /\ Len(handled) + ngrec = Len(recs)
    /\ \A k \in 1..Len(handled) :
         PlainBefore(k) => recs[k].kind = "routed" /\ handled[k] = k
    /\ PlainBefore(Len(handled) + 1) => grec = starts[Len(handled) + 1]

\* Nothing is handled before the walk.
Untouched == pc \in {"idle", "headers"} => handled = <<>> /\ reach = 0

\* The inductive invariant.
IInv ==
  /\ TypeOK /\ Laid /\ Measured /\ AtHeader /\ OnTrack /\ Untouched
  /\ SourcesInside /\ ReadsReport

-----------------------------------------------------------------------------
(* The sender.                                                              *)

\* The smallest packet: no header, no record.
LEMMA EmptyPacket ==
  ext = <<>> /\ heads = <<0>> /\ recs = <<>> /\ starts = <<SizeReport>> => Laid
<1> HAVE ext = <<>> /\ heads = <<0>> /\ recs = <<>> /\ starts = <<SizeReport>>
<1>1. HeadersLaid
  BY DEF HeadersLaid, Last
<1>2. RecordsLaid
  BY DEF RecordsLaid, SizeReport, SizeGrec
<1> QED
  BY <1>1, <1>2 DEF Laid, Payload, Last, SizeReport, UINT16_MAX

\* A record takes up at least its header.
LEMMA RecLengthFacts ==
  ASSUME NEW r \in Rec
  PROVE  /\ r.nsrcs \in Nat /\ r.auxwords \in 0..MaxAux
         /\ RecLength(r) \in Nat
         /\ RecLength(r) >= SizeGrec
         /\ RecLength(r) >= SizeGrec + SizeAddr * r.nsrcs
<1>1. r.nsrcs \in Nat /\ r.auxwords \in 0..MaxAux
  BY ParserAssumption DEF Rec
<1> QED
  BY <1>1, ParserAssumption DEF RecLength, SizeGrec, SizeAddr

\* A header takes up at least eight bytes, and what l3_ipv6 takes off for it is its length
\* unless it is an authentication header.
LEMMA ExtLengthFacts ==
  ASSUME NEW e \in Ext
  PROVE  /\ e.len \in 0..MaxExt /\ e.len \in Nat
         /\ ExtLength(e) \in Nat /\ ExtLength(e) > 0
         /\ e.kind = "options" => ExtLength(e) = e.len * 8 + 8
<1>1. e.len \in 0..MaxExt /\ e.len \in Nat
  BY ParserAssumption DEF Ext
<1> QED
  BY <1>1 DEF ExtLength

\* The last elements are those at the ends of the layout.
LEMMA LastFacts ==
  ASSUME Laid
  PROVE  /\ Last(heads) = heads[Len(ext) + 1] /\ Last(heads) \in Nat
         /\ Last(starts) = starts[Len(recs) + 1] /\ Last(starts) \in Nat
         /\ Last(starts) >= SizeReport
         /\ Len(ext) \in Nat /\ Len(recs) \in Nat
         /\ \A j \in 1..(Len(ext) + 1) : heads[j] \in Nat /\ heads[j] <= Last(heads)
         /\ Payload = Last(heads) + Last(starts) /\ Payload \in 0..UINT16_MAX
         /\ \A k \in 1..(Len(recs) + 1) : starts[k] \in Nat /\ starts[k] <= Last(starts)
<1>1. /\ Len(ext) \in Nat /\ heads \in Seq(Nat) /\ Len(heads) = Len(ext) + 1
      /\ Len(recs) \in Nat /\ starts \in Seq(Nat) /\ Len(starts) = Len(recs) + 1
  BY DEF Laid, HeadersLaid, RecordsLaid
<1>2. \A k \in 1..(Len(recs) + 1) : starts[k] \in Nat
  BY <1>1
<1>3. ASSUME NEW k \in 1..(Len(recs) + 1)
      PROVE  starts[k] <= starts[Len(recs) + 1]
  <2>1. \A i, j \in 1..(Len(recs) + 1) : i < j => starts[i] < starts[j]
    BY <1>1 DEF Laid, RecordsLaid
  <2>2. k < Len(recs) + 1 \/ k = Len(recs) + 1
    BY <1>1
  <2>3. Len(recs) + 1 \in 1..(Len(recs) + 1) /\ starts[Len(recs) + 1] \in Nat /\ starts[k] \in Nat
    BY <1>1, <1>2
  <2> QED
    BY <2>1, <2>2, <2>3
<1>4. starts[1] = SizeReport
  BY DEF Laid, RecordsLaid
<1>5. starts[Len(recs) + 1] >= SizeReport
  BY <1>1, <1>3, <1>4
<1>6. Last(heads) = heads[Len(ext) + 1] /\ Last(starts) = starts[Len(recs) + 1]
  BY <1>1 DEF Last
<1>7. \A j \in 1..(Len(ext) + 1) : heads[j] \in Nat
  BY <1>1
<1>8. ASSUME NEW j \in 1..(Len(ext) + 1)
      PROVE  heads[j] <= heads[Len(ext) + 1]
  <2>1. \A i, k \in 1..(Len(ext) + 1) : i < k => heads[i] < heads[k]
    BY <1>1 DEF Laid, HeadersLaid
  <2>2. j < Len(ext) + 1 \/ j = Len(ext) + 1
    BY <1>1
  <2>3. Len(ext) + 1 \in 1..(Len(ext) + 1) /\ heads[Len(ext) + 1] \in Nat /\ heads[j] \in Nat
    BY <1>1, <1>7
  <2> QED
    BY <2>1, <2>2, <2>3
<1>9. Payload = Last(heads) + Last(starts) /\ Payload \in 0..UINT16_MAX
  <2>1. Last(heads) \in Nat /\ Last(starts) \in Nat
    BY <1>1, <1>2, <1>6, <1>7
  <2> QED
    BY <2>1, FieldFacts DEF Laid, Payload
<1> QED
  BY <1>1, <1>2, <1>3, <1>5, <1>6, <1>7, <1>8, <1>9

\* A header more.
LEMMA HeaderAdded ==
  ASSUME Laid, NEW e \in Ext, AddHeader(e)
  PROVE  Laid'
<1> DEFINE l == ExtLength(e)
<1>1. /\ ext \in Seq(Ext) /\ heads \in Seq(Nat) /\ Len(heads) = Len(ext) + 1
      /\ Last(heads) = heads[Len(ext) + 1] /\ Last(heads) \in Nat /\ Len(ext) \in Nat
  BY LastFacts DEF Laid, HeadersLaid
<1>2. l \in Nat /\ l > 0
  BY ExtLengthFacts
<1>3. ext' = Append(ext, e) /\ heads' = Append(heads, Last(heads) + l)
  BY DEF AddHeader
<1>4. UNCHANGED <<recs, starts>> /\ Last(heads) + Last(starts) + l <= UINT16_MAX
  BY LastFacts DEF AddHeader, Fits
<1> HIDE DEF l
<1>5. /\ ext' \in Seq(Ext) /\ Len(ext') = Len(ext) + 1
      /\ \A j \in 1..Len(ext) : ext'[j] = ext[j]
      /\ ext'[Len(ext) + 1] = e
  BY <1>1, <1>3, AppendFacts
<1>6. /\ heads' \in Seq(Nat) /\ Len(heads') = Len(ext) + 2
      /\ \A j \in 1..(Len(ext) + 1) : heads'[j] = heads[j]
      /\ heads'[Len(ext) + 2] = Last(heads) + l
      /\ Last(heads') = Last(heads) + l
  BY <1>1, <1>2, <1>3, AppendFacts
<1>7. HeadersLaid'
  <2>1. ASSUME NEW j \in 1..Len(ext')
        PROVE  heads'[j + 1] = heads'[j] + ExtLength(ext'[j])
    <3>1. CASE j \in 1..Len(ext)
      <4>1. j \in 1..(Len(ext) + 1) /\ j + 1 \in 1..(Len(ext) + 1)
        BY <1>1, <3>1
      <4>2. heads[j + 1] = heads[j] + ExtLength(ext[j])
        BY <3>1 DEF Laid, HeadersLaid
      <4>3. heads'[j + 1] = heads[j + 1] /\ heads'[j] = heads[j] /\ ext'[j] = ext[j]
        BY <1>5, <1>6, <3>1, <4>1
      <4> QED
        BY <4>2, <4>3
    <3>2. CASE j = Len(ext) + 1
      <4>1. j + 1 = Len(ext) + 2 /\ j \in 1..(Len(ext) + 1)
        BY <1>1, <3>2
      <4>2. heads'[j + 1] = Last(heads) + l /\ heads'[j] = Last(heads) /\ ext'[j] = e
        BY <1>1, <1>5, <1>6, <3>2, <4>1
      <4> QED
        BY <4>2 DEF l
    <3> QED
      BY <1>1, <1>5, <3>1, <3>2
  <2>2. ASSUME NEW i \in 1..(Len(ext) + 2), NEW j \in 1..(Len(ext) + 2), i < j
        PROVE  heads'[i] < heads'[j]
    <3>1. CASE j \in 1..(Len(ext) + 1)
      <4>1. i \in 1..(Len(ext) + 1)
        BY <1>1, <2>2, <3>1
      <4>2. \A a, b \in 1..(Len(ext) + 1) : a < b => heads[a] < heads[b]
        BY <1>1 DEF Laid, HeadersLaid
      <4> QED
        BY <1>6, <2>2, <3>1, <4>1, <4>2
    <3>2. CASE j = Len(ext) + 2
      <4>1. i \in 1..(Len(ext) + 1) /\ heads[i] \in Nat /\ heads[i] <= Last(heads)
        BY <1>1, <2>2, <3>2, LastFacts
      <4> QED
        BY <1>1, <1>2, <1>6, <3>2, <4>1
    <3> QED
      BY <1>1, <3>1, <3>2
  <2>3. heads'[1] = 0
    BY <1>1, <1>6 DEF Laid, HeadersLaid
  <2> QED
    BY <1>1, <1>5, <1>6, <2>1, <2>2, <2>3 DEF HeadersLaid
<1>8. RecordsLaid'
  BY <1>4 DEF Laid, RecordsLaid
<1>9. (Payload <= UINT16_MAX)'
  <2>1. Last(starts)' = Last(starts) /\ Last(starts) \in Nat
    BY <1>4, LastFacts DEF Last
  <2> QED
    BY <1>1, <1>2, <1>4, <1>6, <2>1 DEF Payload
<1> QED
  BY <1>7, <1>8, <1>9 DEF Laid

\* A record more.
LEMMA RecordAdded ==
  ASSUME Laid, NEW r \in Rec, AddRecord(r)
  PROVE  Laid'
<1> DEFINE l == RecLength(r)
           n == Len(recs)
<1>1. /\ recs \in Seq(Rec) /\ starts \in Seq(Nat) /\ Len(starts) = n + 1
      /\ Last(starts) = starts[n + 1] /\ Last(starts) \in Nat /\ n \in Nat
      /\ \A k \in 1..(n + 1) : starts[k] \in Nat /\ starts[k] <= Last(starts)
  BY LastFacts DEF Laid, RecordsLaid
<1>2. l \in Nat /\ l >= SizeGrec
  BY RecLengthFacts
<1>3. recs' = Append(recs, r) /\ starts' = Append(starts, Last(starts) + l)
  BY DEF AddRecord
<1>4. UNCHANGED <<ext, heads>> /\ Last(heads) + Last(starts) + l <= UINT16_MAX
  BY LastFacts DEF AddRecord, Fits
<1> HIDE DEF l
<1>5. /\ recs' \in Seq(Rec) /\ Len(recs') = n + 1
      /\ \A j \in 1..n : recs'[j] = recs[j]
      /\ recs'[n + 1] = r
  BY <1>1, <1>3, AppendFacts
<1>6. /\ starts' \in Seq(Nat) /\ Len(starts') = n + 2
      /\ \A j \in 1..(n + 1) : starts'[j] = starts[j]
      /\ starts'[n + 2] = Last(starts) + l
      /\ Last(starts') = Last(starts) + l
  BY <1>1, <1>2, <1>3, AppendFacts
<1>7. /\ \A k \in 1..n : starts[k + 1] = starts[k] + RecLength(recs[k])
      /\ \A k \in 1..(n + 1) : starts[k] >= SizeReport + SizeGrec * (k - 1)
      /\ \A j, k \in 1..(n + 1) : j < k => starts[j] < starts[k]
      /\ starts[1] = SizeReport
  BY <1>1 DEF Laid, RecordsLaid
<1> HIDE DEF n
<1>8. RecordsLaid'
  <2>1. ASSUME NEW k \in 1..(n + 1)
        PROVE  starts'[k + 1] = starts'[k] + RecLength(recs'[k])
    <3>1. CASE k \in 1..n
      BY <1>1, <1>5, <1>6, <1>7, <3>1
    <3>2. CASE k = n + 1
      BY <1>1, <1>5, <1>6, <3>2 DEF l
    <3> QED
      BY <1>1, <3>1, <3>2
  <2>2. ASSUME NEW k \in 1..(n + 2)
        PROVE  starts'[k] >= SizeReport + SizeGrec * (k - 1)
    <3>1. CASE k \in 1..(n + 1)
      BY <1>6, <1>7, <3>1
    <3>2. CASE k = n + 2
      <4>1. Last(starts) >= SizeReport + SizeGrec * n
        BY <1>1, <1>7
      <4> QED
        BY <1>1, <1>2, <1>6, <3>2, <4>1 DEF SizeReport, SizeGrec
    <3> QED
      BY <1>1, <3>1, <3>2
  <2>3. ASSUME NEW j \in 1..(n + 2), NEW k \in 1..(n + 2), j < k
        PROVE  starts'[j] < starts'[k]
    <3>1. CASE k \in 1..(n + 1)
      <4>1. j \in 1..(n + 1)
        BY <1>1, <2>3, <3>1
      <4> QED
        BY <1>6, <1>7, <2>3, <3>1, <4>1
    <3>2. CASE k = n + 2
      <4>1. j \in 1..(n + 1) /\ starts[j] \in Nat /\ starts[j] <= Last(starts)
        BY <1>1, <2>3, <3>2
      <4> QED
        BY <1>1, <1>2, <1>6, <3>2, <4>1 DEF SizeGrec
    <3> QED
      BY <1>1, <3>1, <3>2
  <2>4. starts'[1] = SizeReport
    BY <1>1, <1>6, <1>7
  <2> QED
    BY <1>1, <1>5, <1>6, <2>1, <2>2, <2>3, <2>4 DEF RecordsLaid
<1>9. HeadersLaid'
  BY <1>4 DEF Laid, HeadersLaid, Last
<1>10. (Payload <= UINT16_MAX)'
  <2>1. Last(heads)' = Last(heads) /\ Last(heads) \in Nat
    BY <1>4, LastFacts DEF Last
  <2> QED
    BY <1>1, <1>2, <1>4, <1>6, <2>1 DEF Payload
<1> QED
  BY <1>8, <1>9, <1>10 DEF Laid

\* The packet stays as it was sent.
LEMMA SamePacket ==
  ASSUME Laid, UNCHANGED packet
  PROVE  /\ Laid' /\ Last(heads)' = Last(heads) /\ Last(starts)' = Last(starts)
         /\ Payload' = Payload
         /\ WellFormed' <=> WellFormed
BY DEF packet, Laid, HeadersLaid, RecordsLaid, Last, Payload, WellFormed

-----------------------------------------------------------------------------
(* The walk.                                                                *)

\* The record that is read is a record, and the k-th if the walk is where it begins.
LEMMA HereFacts ==
  ASSUME Laid, claim.frame \in Nat
  PROVE  /\ Here \in 0..Len(recs) /\ FoundRecords \subseteq Rec
         /\ \A k \in 1..Len(recs) :
              grec = starts[k] /\ off = Last(heads) /\ Payload <= claim.frame =>
                Here = k /\ FoundRecords = {recs[k]}
<1> DEFINE K == {k \in 1..Len(recs) : /\ Last(heads) + starts[k] = off + grec
                                      /\ off + grec + SizeGrec <= claim.frame}
<1>1. recs \in Seq(Rec) /\ Len(recs) \in Nat /\ Len(starts) = Len(recs) + 1
  BY DEF Laid, RecordsLaid
<1>2. K # {} => Here \in K
  BY DEF Here
<1>3. K = {} => Here = 0
  BY DEF Here
<1>4. Here \in 0..Len(recs)
  BY <1>1, <1>2, <1>3
<1>5. FoundRecords \subseteq Rec
  <2>1. CASE Here = 0
    BY <2>1 DEF FoundRecords
  <2>2. CASE Here # 0
    <3>1. Here \in 1..Len(recs)
      BY <1>1, <1>4, <2>2
    <3>2. recs[Here] \in Rec
      BY <1>1, <3>1
    <3> QED
      BY <2>2, <3>2 DEF FoundRecords
  <2> QED
    BY <2>1, <2>2
<1>6. ASSUME NEW k \in 1..Len(recs), grec = starts[k], off = Last(heads),
             Payload <= claim.frame
      PROVE  Here = k /\ FoundRecords = {recs[k]}
  <2>1. \A i, j \in 1..(Len(recs) + 1) : i < j => starts[i] < starts[j]
    BY <1>1 DEF Laid, RecordsLaid
  <2>2. \A i \in 1..(Len(recs) + 1) : starts[i] \in Nat
    BY LastFacts
  <2>3. \A j \in K : j = k
    <3> TAKE j \in K
    <3>1. j \in 1..(Len(recs) + 1) /\ k \in 1..(Len(recs) + 1) /\ starts[j] = starts[k]
      <4>1. Last(heads) + starts[j] = Last(heads) + starts[k]
        BY <1>6
      <4>2. j \in 1..(Len(recs) + 1) /\ k \in 1..(Len(recs) + 1)
        BY <1>1
      <4>3. starts[j] \in Nat /\ starts[k] \in Nat /\ Last(heads) \in Nat
        BY <2>2, <4>2, LastFacts
      <4> QED
        BY <4>1, <4>2, <4>3
    <3>2. ~ (j < k) /\ ~ (k < j)
      BY <2>1, <2>2, <3>1
    <3> QED
      BY <1>1, <3>1, <3>2
  <2>4. k \in K
    <3>1. /\ k \in 1..(Len(recs) + 1) /\ k + 1 \in 1..(Len(recs) + 1)
          /\ starts[k] \in Nat /\ starts[k + 1] \in Nat /\ starts[k + 1] <= Last(starts)
          /\ Last(heads) \in Nat /\ Last(starts) \in Nat
          /\ Payload = Last(heads) + Last(starts)
      BY <1>1, LastFacts
    <3>2. starts[k + 1] >= starts[k] + SizeGrec
      <4>1. starts[k + 1] = starts[k] + RecLength(recs[k]) /\ recs[k] \in Rec
        BY <1>1 DEF Laid, RecordsLaid
      <4>2. RecLength(recs[k]) \in Nat /\ RecLength(recs[k]) >= SizeGrec
        BY <4>1, RecLengthFacts
      <4> QED
        BY <3>1, <4>1, <4>2 DEF SizeGrec
    <3>3. off + grec + SizeGrec <= claim.frame
      <4>1. /\ off \in Nat /\ grec \in Nat /\ grec + SizeGrec <= Last(starts)
            /\ Last(starts) \in Nat /\ off + Last(starts) <= claim.frame
        BY <1>6, <3>1, <3>2 DEF SizeGrec
      <4> QED
        BY <4>1 DEF SizeGrec
    <3> QED
      BY <1>6, <3>3
  <2> HIDE DEF K
  <2>5. Here = k
    BY <1>2, <2>3, <2>4
  <2> QED
    BY <1>1, <2>5 DEF FoundRecords
<1> QED
  BY <1>4, <1>5, <1>6

\* In a correct report the walk leaves the loop at a record it has found only if that
\* is not routed: none of the length checks is in the way of a correct record.
LEMMA RoutedGoesOn ==
  ASSUME Laid, plen = Last(starts), NEW k \in 1..Len(recs), grec = starts[k],
         recs[k].kind = "routed"
  PROVE  ~ Stops(recs[k])
<1>1. recs \in Seq(Rec) /\ Len(recs) \in Nat
  BY DEF Laid, RecordsLaid
<1>2. recs[k] \in Rec
  BY <1>1
<1>3. k \in 1..(Len(recs) + 1) /\ k + 1 \in 1..(Len(recs) + 1)
  BY <1>1
<1>4. /\ starts[k] \in Nat /\ starts[k] <= plen
      /\ starts[k + 1] \in Nat /\ starts[k + 1] <= plen
      /\ plen \in Nat
  BY <1>3, LastFacts
<1>5. starts[k + 1] = starts[k] + RecLength(recs[k])
  BY DEF Laid, RecordsLaid
<1>6. RecLength(recs[k]) >= SizeGrec + SizeAddr * recs[k].nsrcs /\ RecLength(recs[k]) \in Nat
  BY <1>2, RecLengthFacts
<1>7. SizeAddr * recs[k].nsrcs \in Nat
  <2>1. recs[k].nsrcs \in Nat
    BY <1>2, RecLengthFacts
  <2> QED
    BY <2>1 DEF SizeAddr
<1>8. ~ (grec > plen)
  BY <1>4
<1>9. ~ (grec + SizeGrec + SizeAddr * recs[k].nsrcs > plen)
  <2>1. \A x, a, b, p \in Nat :
          b >= SizeGrec + a /\ x + b <= p => ~ (x + SizeGrec + a > p)
    BY DEF SizeGrec
  <2> QED
    BY <1>4, <1>5, <1>6, <1>7, <2>1
<1> QED
  BY <1>8, <1>9 DEF Stops, SourcesEnd

-----------------------------------------------------------------------------
(* The invariant.                                                           *)

\* Nothing is in hand between two packets.
LEMMA ParserInit == Init => IInv
<1> SUFFICES ASSUME Init
             PROVE  IInv
  OBVIOUS
<1>1. Laid
  BY EmptyPacket DEF Init
<1>2. TypeOK
  BY FieldFacts DEF Init, TypeOK, Claims, NoClaim, SizeReport
<1>3. SourcesInside
  BY DEF Init, SourcesInside, NoClaim
<1> QED
  BY <1>1, <1>2, <1>3 DEF Init, IInv, Measured, AtHeader, OnTrack, Untouched, ReadsReport

\* The sender changes the packet only.
LEMMA SenderStep ==
  ASSUME IInv, \/ \E e \in Ext : AddHeader(e)
               \/ \E r \in Rec : AddRecord(r)
  PROVE  IInv'
<1>1. Laid'
  BY HeaderAdded, RecordAdded DEF IInv
<1>2. pc = "idle" /\ UNCHANGED <<claim, nxt, off, plen, grec, ngrec, handled, reach, pc>>
  BY DEF AddHeader, AddRecord
<1>3. handled = <<>>
  BY <1>2 DEF IInv, Untouched
<1>4. TypeOK'
  <2>1. /\ ext' \in Seq(Ext) /\ heads' \in Seq(Nat)
        /\ recs' \in Seq(Rec) /\ starts' \in Seq(Nat)
    BY <1>1 DEF Laid, HeadersLaid, RecordsLaid
  <2> QED
    BY <1>2, <1>3, <2>1 DEF IInv, TypeOK
<1> QED
  BY <1>1, <1>2, <1>4
  DEF IInv, Measured, AtHeader, OnTrack, Untouched, SourcesInside, ReadsReport

\* ip6_plen is taken from the packet, and the first header begins behind the IPv6 header.
LEMMA ReceiveStep ==
  ASSUME IInv, NEW c \in Claims(Lengths \cup {Payload}), Receive(c)
  PROVE  IInv'
<1>1. /\ pc = "idle" /\ claim' = c /\ plen' = c.plen /\ nxt' = TypeAfter(0)
      /\ pc' = IF c.src = "own" THEN "out" ELSE "headers"
      /\ UNCHANGED <<ext, heads, recs, starts, off, grec, ngrec, handled, reach>>
  BY DEF Receive
<1>2. handled = <<>> /\ off = 0 /\ reach = 0 /\ grec = SizeReport
  BY <1>1 DEF IInv, Untouched, Measured, TypeOK, SizeReport
<1>3. Laid' /\ Len(heads) \in Nat /\ Len(heads) >= 1 /\ heads[1] = 0
  BY <1>1 DEF IInv, Laid, HeadersLaid, RecordsLaid, Last, Payload
<1>4. c \in Claims(0..UINT16_MAX) /\ c.plen \in 0..UINT16_MAX /\ c.frame \in Nat
  <2>1. Lengths \cup {Payload} \subseteq 0..UINT16_MAX
    BY ParserAssumption, LastFacts DEF IInv
  <2> QED
    BY <2>1, FieldFacts DEF Claims
<1>5. TypeOK'
  BY <1>1, <1>2, <1>4 DEF IInv, TypeOK, TypeAfter, SizeReport
<1>6. Measured' /\ SourcesInside'
  BY <1>1, <1>2, <1>4, FieldFacts DEF Measured, SourcesInside
<1>7. AtHeader'
  <2>1. 1 \in 1..Len(heads)' /\ off' = heads'[1] /\ nxt' = TypeAfter(1 - 1)'
    BY <1>1, <1>2, <1>3 DEF TypeAfter
  <2> QED
    BY <2>1 DEF AtHeader
<1>8. OnTrack' /\ Untouched' /\ ReadsReport'
  BY <1>1, <1>2 DEF OnTrack, Untouched, ReadsReport, WellFormed
<1> QED
  BY <1>3, <1>5, <1>6, <1>7, <1>8 DEF IInv

\* In a correct report the header that l3_ipv6 reads is the next one.
LEMMA HeaderFacts ==
  ASSUME IInv
  PROVE  /\ FoundHeaders \subseteq (0..MaxExt) \X {"header", "icmpv6", "other"}
         /\ \A j \in 1..Len(ext) : off = heads[j] /\ Payload <= claim.frame =>
              FoundHeaders = {<<ext[j].len, TypeAfter(j)>>}
<1> DEFINE J == {j \in 1..Len(ext) : heads[j] = off /\ off + 2 <= claim.frame}
<1>1. /\ ext \in Seq(Ext) /\ Len(ext) \in Nat /\ Len(heads) = Len(ext) + 1
      /\ \A j \in 1..Len(ext) : heads[j + 1] = heads[j] + ExtLength(ext[j])
      /\ \A i, j \in 1..Len(heads) : i < j => heads[i] < heads[j]
      /\ claim.frame \in Nat
  BY FieldFacts DEF IInv, Laid, HeadersLaid, TypeOK, Claims
<1>2. ASSUME NEW j \in 1..Len(ext)
      PROVE  ext[j] \in Ext /\ ext[j].len \in 0..MaxExt
                /\ TypeAfter(j) \in {"header", "icmpv6", "other"}
  <2>1. ext[j] \in Ext
    BY <1>1, ElementOfSeq
  <2> QED
    BY <2>1, ExtLengthFacts DEF TypeAfter
<1>3. FoundHeaders = IF J = {} THEN (0..MaxExt) \X {"header", "icmpv6", "other"}
                     ELSE {<<ext[j].len, TypeAfter(j)>> : j \in J}
  BY DEF FoundHeaders
<1>4. FoundHeaders \subseteq (0..MaxExt) \X {"header", "icmpv6", "other"}
  BY <1>2, <1>3
<1>5. ASSUME NEW j \in 1..Len(ext), off = heads[j], Payload <= claim.frame
      PROVE  FoundHeaders = {<<ext[j].len, TypeAfter(j)>>}
  <2>1. /\ j \in 1..(Len(ext) + 1)
        /\ heads[j] \in Nat /\ heads[j] <= Last(heads)
        /\ Last(heads) \in Nat /\ Last(starts) \in Nat /\ Last(starts) >= SizeReport
        /\ Payload = Last(heads) + Last(starts)
    BY <1>1, LastFacts DEF IInv
  <2>2. j \in J
    BY <1>1, <1>5, <2>1 DEF SizeReport
  <2>3. ASSUME NEW i \in J
        PROVE  i = j
    <3>1. i \in 1..Len(heads) /\ j \in 1..Len(heads) /\ heads[i] = heads[j]
      BY <1>1, <1>5
    <3>2. heads[i] \in Nat
      BY <1>5, <2>1, <3>1
    <3>3. ~ (i < j) /\ ~ (j < i)
      BY <1>1, <3>1, <3>2
    <3> QED
      BY <1>1, <3>1, <3>3
  <2>4. J = {j}
    BY <2>2, <2>3
  <2> HIDE DEF J
  <2> QED
    BY <1>3, <2>4
<1> QED
  BY <1>4, <1>5

\* Skipping a header takes it off plen, which does not wrap around as long as the headers
\* are within ip6_plen; in a correct report it leads to the next header or the message.
LEMMA SkipStep ==
  ASSUME IInv, SkipHeader
  PROVE  IInv'
<1> USE DEF SizeEther
<1>1. PICK h \in FoundHeaders :
         /\ nxt' = h[2]
         /\ plen' = (plen - (h[1] * 8 + 8)) % (UINT16_MAX + 1)
         /\ off' = off + (h[1] * 8 + 8)
         /\ pc' = IF off' > claim.frame + SizeEther THEN "out" ELSE "headers"
  BY DEF SkipHeader
<1> DEFINE l == h[1] * 8 + 8
<1>2. /\ pc = "headers" /\ nxt = "header" /\ pc' \in {"headers", "out"}
      /\ UNCHANGED packet /\ UNCHANGED <<grec, ngrec, handled, reach>>
  BY <1>1 DEF SkipHeader
<1>3. UNCHANGED <<ext, heads, recs, starts, claim>>
  BY <1>2 DEF packet
<1>4. Laid' /\ Last(heads)' = Last(heads) /\ (WellFormed' <=> WellFormed)
  BY <1>2, SamePacket DEF IInv
<1>5. handled = <<>> /\ reach = 0 /\ grec = SizeReport
  BY <1>2 DEF IInv, Untouched, TypeOK, SizeReport
<1>6. h[1] \in 0..MaxExt /\ h[1] \in Nat /\ h[2] \in {"header", "icmpv6", "other"} /\ l \in Nat
  <2>1. h \in (0..MaxExt) \X {"header", "icmpv6", "other"}
    BY HeaderFacts
  <2> QED
    BY <2>1, ParserAssumption
<1>7. off \in Nat /\ plen \in 0..UINT16_MAX /\ claim.plen \in 0..UINT16_MAX /\ claim.frame \in Nat
  BY FieldFacts DEF IInv, TypeOK, Claims
<1> HIDE DEF l
<1>8. off' = off + l /\ plen' = (plen - l) % (UINT16_MAX + 1)
  BY <1>1 DEF l
<1>9. off' \in Nat /\ plen' \in 0..UINT16_MAX
  <2>1. plen - l \in Int
    BY <1>6, <1>7, FieldFacts
  <2> QED
    BY <1>6, <1>7, <1>8, <2>1, FieldFacts
<1>10. TypeOK'
  BY <1>1, <1>2, <1>3, <1>5, <1>6, <1>9 DEF IInv, TypeOK, SizeReport
<1>11. Measured'
  <2> SUFFICES ASSUME off' <= claim.plen
               PROVE  plen' = claim.plen - off'
    BY <1>2, <1>3 DEF Measured
  <2>1. claim.plen \in Nat /\ claim.plen <= UINT16_MAX /\ UINT16_MAX \in Nat /\ off' = off + l
    BY <1>7, <1>8, FieldFacts
  <2>2. off <= claim.plen
    BY <1>6, <1>7, <2>1
  <2>3. plen = claim.plen - off
    BY <1>2, <2>2 DEF IInv, Measured
  <2>4. plen - l = claim.plen - off' /\ claim.plen - off' \in 0..UINT16_MAX
    BY <1>6, <1>7, <2>1, <2>3
  <2> QED
    BY <1>8, <2>4, FieldFacts
<1>12. ASSUME WellFormed
       PROVE  pc' = "headers" /\ \E j \in 1..Len(heads) : off' = heads[j] /\ nxt' = TypeAfter(j - 1)
  <2>1. PICK j \in 1..Len(heads) : off = heads[j] /\ nxt = TypeAfter(j - 1)
    BY <1>2, <1>12 DEF IInv, AtHeader
  <2>2. Len(ext) \in Nat /\ Len(heads) = Len(ext) + 1 /\ ext \in Seq(Ext)
    BY DEF IInv, Laid, HeadersLaid
  <2>3. j \in 1..Len(ext) /\ j + 1 \in 1..Len(heads)
    BY <1>2, <2>1, <2>2 DEF TypeAfter
  <2>4. ext[j] \in Ext /\ ext[j].kind = "options" /\ Payload <= claim.frame
    BY <1>12, <2>2, <2>3, ElementOfSeq DEF WellFormed
  <2>5. h[1] = ext[j].len /\ h[2] = TypeAfter(j)
    BY <2>1, <2>3, <2>4, HeaderFacts
  <2>6. heads[j + 1] = heads[j] + l
    <3>1. heads[j + 1] = heads[j] + ExtLength(ext[j])
      BY <2>3 DEF IInv, Laid, HeadersLaid
    <3> QED
      BY <2>4, <2>5, <3>1, ExtLengthFacts DEF l
  <2>7. off' = heads[j + 1] /\ nxt' = TypeAfter((j + 1) - 1)
    BY <1>1, <1>8, <2>1, <2>3, <2>5, <2>6 DEF TypeAfter
  <2>8. /\ heads[j + 1] \in Nat /\ heads[j + 1] <= Last(heads)
        /\ Last(heads) \in Nat /\ Last(starts) \in Nat /\ Payload = Last(heads) + Last(starts)
    BY <2>2, <2>3, LastFacts DEF IInv
  <2>9. ~ (off' > claim.frame + SizeEther)
    BY <1>7, <2>4, <2>7, <2>8
  <2> QED
    BY <1>1, <2>3, <2>7, <2>9
<1>13. AtHeader' /\ ReadsReport'
  BY <1>3, <1>4, <1>12 DEF AtHeader, ReadsReport, TypeAfter
<1>14. OnTrack' /\ Untouched' /\ SourcesInside'
  BY <1>2, <1>3, <1>5, <1>7 DEF OnTrack, Untouched, SourcesInside
<1> QED
  BY <1>4, <1>10, <1>11, <1>13, <1>14 DEF IInv

\* l3_ipv6 has come through the headers of a correct report to the report.
LEMMA ThroughHeaders ==
  ASSUME IInv, pc = "headers", WellFormed, nxt # "header"
  PROVE  nxt = "icmpv6" /\ off = Last(heads) /\ ReportHere
<1>1. PICK j \in 1..Len(heads) : off = heads[j] /\ nxt = TypeAfter(j - 1)
  BY DEF IInv, AtHeader
<1>2. Len(ext) \in Nat /\ Len(heads) = Len(ext) + 1
  BY DEF IInv, Laid, HeadersLaid
<1>3. j = Len(ext) + 1 /\ nxt = "icmpv6"
  BY <1>1, <1>2 DEF TypeAfter
<1>4. /\ Last(heads) = heads[Len(ext) + 1] /\ Last(heads) \in Nat
      /\ Last(starts) \in Nat /\ Last(starts) >= SizeReport
      /\ Payload = Last(heads) + Last(starts) /\ Payload <= claim.frame
      /\ claim.frame \in Nat
  BY LastFacts, FieldFacts DEF IInv, WellFormed, TypeOK, Claims
<1>5. off = Last(heads)
  BY <1>1, <1>3, <1>4
<1> QED
  BY <1>3, <1>4, <1>5 DEF ReportHere, SizeReport

\* A correct report is not taken for anything else.
LEMMA NotReportStep ==
  ASSUME IInv, NotReport
  PROVE  IInv'
<1>1. /\ pc = "headers" /\ pc' = "out" /\ nxt # "header"
      /\ nxt = "other" \/ ~ ReportHere
      /\ UNCHANGED packet /\ UNCHANGED <<nxt, off, plen, grec, ngrec, handled, reach>>
  BY DEF NotReport
<1>2. UNCHANGED <<ext, heads, recs, starts, claim>>
  BY <1>1 DEF packet
<1>3. Laid' /\ (WellFormed' <=> WellFormed)
  BY <1>1, SamePacket DEF IInv
<1>4. ~ WellFormed
  BY <1>1, ThroughHeaders
<1> QED
  BY <1>1, <1>2, <1>3, <1>4
  DEF IInv, TypeOK, Measured, AtHeader, OnTrack, Untouched, SourcesInside, ReadsReport

\* The walk begins at the first record, and the records of a correct report are found
\* to be possible.
LEMMA BeginStep ==
  ASSUME IInv, BeginReport
  PROVE  IInv'
<1>1. /\ pc = "headers" /\ nxt = "icmpv6" /\ ngrec' \in FoundCounts
      /\ pc' = IF OnLink /\ SizeReport + ngrec' * SizeGrec <= plen THEN "walk" ELSE "out"
      /\ UNCHANGED packet /\ UNCHANGED <<nxt, off, plen, grec, handled, reach>>
  BY DEF BeginReport
<1>2. UNCHANGED <<ext, heads, recs, starts, claim>>
  BY <1>1 DEF packet
<1>3. Laid' /\ Last(heads)' = Last(heads) /\ (WellFormed' <=> WellFormed)
  BY <1>1, SamePacket DEF IInv
<1>4. handled = <<>> /\ reach = 0 /\ grec = SizeReport
  BY <1>1 DEF IInv, Untouched, TypeOK, SizeReport
<1>5. Len(recs) \in Nat /\ claim.more \in 0..1 /\ ngrec' \in Nat
  <2>1. Len(recs) \in Nat /\ claim.more \in 0..1
    BY DEF IInv, TypeOK, Claims
  <2> QED
    BY <1>1, <2>1, ParserAssumption DEF FoundCounts
<1>6. TypeOK'
  BY <1>1, <1>2, <1>4, <1>5 DEF IInv, TypeOK, SizeReport
<1>7. ASSUME WellFormed
      PROVE  pc' = "walk" /\ ngrec' = Len(recs) /\ off = Last(heads)
  <2>1. off = Last(heads) /\ ReportHere
    BY <1>1, <1>7, ThroughHeaders
  <2>2. ngrec' = Len(recs)
    BY <1>1, <1>5, <1>7, <2>1 DEF FoundCounts, WellFormed
  <2>3. /\ Last(heads) \in Nat /\ Last(starts) = starts[Len(recs) + 1] /\ Last(starts) \in Nat
        /\ claim.plen = Last(heads) + Last(starts)
    BY <1>7, LastFacts DEF IInv, WellFormed
  <2>4. plen = Last(starts)
    BY <1>1, <2>1, <2>3 DEF IInv, Measured
  <2>5. Last(starts) >= SizeReport + SizeGrec * Len(recs)
    BY <1>5, <2>3 DEF IInv, Laid, RecordsLaid
  <2> QED
    BY <1>1, <1>5, <1>7, <2>1, <2>2, <2>3, <2>4, <2>5 DEF WellFormed, OnLink, SizeReport, SizeGrec
<1>8. Measured' /\ AtHeader' /\ Untouched' /\ SourcesInside'
  BY <1>1, <1>2, <1>4 DEF IInv, Measured, AtHeader, Untouched, SourcesInside
<1>9. OnTrack'
  <2>1. starts[1] = SizeReport
    BY DEF IInv, Laid, RecordsLaid
  <2>2. Len(handled') = 0
    BY <1>1, <1>4
  <2>3. WellFormed' => /\ off' = Last(heads)' /\ Len(handled') + ngrec' = Len(recs')
                       /\ grec' = starts'[Len(handled') + 1]
    <3> SUFFICES ASSUME WellFormed
                 PROVE  off' = Last(heads)' /\ 0 + ngrec' = Len(recs') /\ grec' = starts'[0 + 1]
      BY <1>3, <2>2
    <3>1. ngrec' = Len(recs) /\ off = Last(heads)
      BY <1>7
    <3> QED
      BY <1>1, <1>2, <1>3, <1>4, <1>5, <2>1, <3>1
  <2>4. \A k \in 1..Len(handled') : FALSE
    BY <2>2
  <2> QED
    BY <2>3, <2>4 DEF OnTrack
<1>10. ReadsReport'
  BY <1>3, <1>7 DEF ReadsReport
<1> QED
  BY <1>3, <1>6, <1>8, <1>9, <1>10 DEF IInv

\* The facts of a walk through a correct report.
LEMMA WalkFacts ==
  ASSUME IInv, pc = "walk"
  PROVE  /\ Len(handled) \in Nat /\ Len(recs) \in Nat /\ ngrec \in Nat /\ claim.frame \in Nat
         /\ WellFormed => /\ Len(handled) + ngrec = Len(recs)
                          /\ plen = Last(starts)
                          /\ off = Last(heads) /\ Payload <= claim.frame
<1>1. Len(handled) \in Nat /\ Len(recs) \in Nat /\ ngrec \in Nat /\ claim.frame \in Nat
  BY FieldFacts DEF IInv, TypeOK, Claims
<1>2. ASSUME WellFormed
      PROVE  /\ Len(handled) + ngrec = Len(recs) /\ off = Last(heads)
             /\ Payload <= claim.frame /\ claim.plen = Payload
  BY <1>2 DEF IInv, OnTrack, WellFormed
<1>3. /\ Last(heads) \in Nat /\ Last(starts) \in Nat
      /\ Payload = Last(heads) + Last(starts)
  BY LastFacts DEF IInv
<1>4. WellFormed => plen = Last(starts)
  BY <1>2, <1>3 DEF IInv, Measured
<1> QED
  BY <1>1, <1>2, <1>4

\* The records before an earlier one are plain as well.
LEMMA PlainEarlier ==
  ASSUME NEW k \in Int, NEW j \in Int, j <= k, PlainBefore(k)
  PROVE  PlainBefore(j)
BY DEF PlainBefore

\* Where the walk stops in a correct report there is a record that is not routed, or it
\* has met auxiliary data before.
LEMMA StopStep ==
  ASSUME IInv, Stop
  PROVE  IInv'
<1> DEFINE n == Len(handled)
<1>1. /\ pc = "walk" /\ ngrec > 0 /\ pc' = "out"
      /\ UNCHANGED packet /\ UNCHANGED <<nxt, off, plen, grec, ngrec, handled, reach>>
  BY DEF Stop
<1>2. UNCHANGED <<ext, heads, recs, starts, claim>>
  BY <1>1 DEF packet
<1>3. Laid' /\ TypeOK' /\ (WellFormed' <=> WellFormed)
  BY <1>1, <1>2, SamePacket DEF IInv, TypeOK
<1>4. Measured' /\ AtHeader' /\ OnTrack' /\ Untouched' /\ SourcesInside'
  BY <1>1, <1>2 DEF IInv, Measured, AtHeader, OnTrack, Untouched, SourcesInside
<1>5. ASSUME WellFormed
      PROVE  /\ \A k \in 1..Len(recs) :
                  PlainBefore(k) => IF recs[k].kind = "routed"
                                    THEN k <= n /\ handled[k] = k
                                    ELSE n = k - 1
             /\ PlainBefore(Len(recs) + 1) => n = Len(recs)
  <2>1. n \in Nat /\ Len(recs) \in Nat /\ n + 1 \in 1..Len(recs) /\ plen = Last(starts)
    BY <1>1, <1>5, WalkFacts
  <2>2. /\ \A k \in 1..n : PlainBefore(k) => recs[k].kind = "routed" /\ handled[k] = k
        /\ PlainBefore(n + 1) => grec = starts[n + 1]
    BY <1>1, <1>5 DEF IInv, OnTrack
  <2>3. PlainBefore(n + 1) => recs[n + 1].kind # "routed"
    <3> SUFFICES ASSUME PlainBefore(n + 1), recs[n + 1].kind = "routed"
                 PROVE  FALSE
      OBVIOUS
    <3>1. grec = starts[n + 1] /\ FoundRecords = {recs[n + 1]}
      BY <1>1, <1>5, <2>1, <2>2, HereFacts, WalkFacts DEF IInv
    <3>2. Stops(recs[n + 1])
      BY <3>1 DEF Stop
    <3> QED
      BY <2>1, <3>1, <3>2, RoutedGoesOn DEF IInv
  <2> HIDE DEF n
  <2>4. ASSUME NEW k \in 1..(Len(recs) + 1), PlainBefore(k), k > n
        PROVE  k = n + 1 /\ recs[k].kind # "routed"
    <3>1. PlainBefore(n + 1)
      BY <2>1, <2>4, PlainEarlier
    <3>2. recs[n + 1].kind # "routed"
      BY <2>3, <3>1
    <3>3. ~ (k > n + 1)
      BY <2>1, <2>4, <3>2 DEF PlainBefore
    <3> QED
      BY <2>1, <2>4, <3>2, <3>3
  <2>5. ASSUME NEW k \in 1..Len(recs), PlainBefore(k)
        PROVE  IF recs[k].kind = "routed" THEN k <= n /\ handled[k] = k ELSE n = k - 1
    <3>1. CASE k <= n
      BY <2>1, <2>2, <2>5, <3>1
    <3>2. CASE k > n
      BY <2>1, <2>4, <2>5, <3>2
    <3> QED
      BY <2>1, <3>1, <3>2
  <2>6. ~ PlainBefore(Len(recs) + 1)
    <3>1. Len(recs) + 1 \in 1..(Len(recs) + 1) /\ Len(recs) + 1 > n /\ Len(recs) + 1 # n + 1
      BY <2>1
    <3> QED
      BY <2>4, <3>1
  <2> QED
    BY <2>5, <2>6
<1>6. ReadsReport'
  BY <1>1, <1>2, <1>3, <1>5 DEF ReadsReport, PlainBefore
<1> QED
  BY <1>3, <1>4, <1>6 DEF IInv

\* The record that is handled is the next one, as long as the walk has its place, and
\* the step from it leads to the one after it unless it has auxiliary data.
LEMMA HandleStep ==
  ASSUME IInv, HandleRecord
  PROVE  IInv'
<1> DEFINE n == Len(handled)
<1>1. /\ pc = "walk" /\ ngrec > 0 /\ pc' = pc
      /\ handled' = Append(handled, Here) /\ ngrec' = ngrec - 1
      /\ UNCHANGED packet /\ UNCHANGED <<nxt, off, plen>>
  BY DEF HandleRecord
<1>2. UNCHANGED <<ext, heads, recs, starts, claim>>
  BY <1>1 DEF packet
<1>3. Laid' /\ Last(heads)' = Last(heads) /\ (WellFormed' <=> WellFormed)
  BY <1>1, SamePacket DEF IInv
<1>4. PICK r \in FoundRecords :
         /\ ~ Stops(r)
         /\ grec' = SourcesEnd(r) + r.auxwords
         /\ reach' = IF r.nsrcs > 0 THEN off + SourcesEnd(r) ELSE reach
  BY DEF HandleRecord
<1>5. r \in Rec /\ r.nsrcs \in Nat /\ r.auxwords \in 0..MaxAux
  BY <1>1, <1>4, HereFacts, WalkFacts, RecLengthFacts DEF IInv
<1>6. /\ handled \in Seq(0..Len(recs)) /\ Here \in 0..Len(recs)
      /\ ngrec \in Nat /\ n \in Nat /\ Len(recs) \in Nat
      /\ plen \in Nat /\ grec \in Nat /\ grec >= SizeReport /\ MaxAux \in Nat
  <2>1. \A a, b : grec \in a..b /\ a \in Nat => grec \in Nat /\ grec >= a
    OBVIOUS
  <2> QED
    BY <1>1, <2>1, HereFacts, WalkFacts, FieldFacts, ParserAssumption
    DEF IInv, TypeOK, SizeReport, SizeGrec
<1>7. /\ handled' \in Seq(0..Len(recs)) /\ Len(handled') = n + 1
      /\ \A j \in 1..n : handled'[j] = handled[j]
      /\ handled'[n + 1] = Here
      /\ handled' # <<>>
  BY <1>1, <1>6, AppendFacts
<1> DEFINE a == SizeAddr * r.nsrcs
<1>8. /\ a \in Nat /\ off \in Nat /\ reach \in Nat
      /\ SourcesEnd(r) = grec + SizeGrec + a /\ SourcesEnd(r) \in Nat
      /\ grec <= plen
      /\ r.nsrcs > 0 => SourcesEnd(r) <= plen
      /\ r.nsrcs = 0 => a = 0
  <2>1. a \in Nat /\ (r.nsrcs = 0 => a = 0)
    BY <1>5 DEF SizeAddr
  <2>2. SourcesEnd(r) = grec + SizeGrec + a
    BY DEF SourcesEnd
  <2>3. ~ (grec > plen) /\ (r.nsrcs > 0 => ~ (SourcesEnd(r) > plen))
    BY <1>4 DEF Stops
  <2>4. off \in Nat /\ reach \in Nat
    BY DEF IInv, TypeOK
  <2> HIDE DEF a
  <2>5. SourcesEnd(r) \in Nat
    BY <1>6, <2>1, <2>2 DEF SizeGrec
  <2> QED
    BY <1>6, <2>1, <2>2, <2>3, <2>4, <2>5
<1> HIDE DEF a
<1>9. TypeOK'
  <2>1. grec' \in SizeReport..(plen + SizeGrec + MaxAux)
    <3>1. grec' = SourcesEnd(r) + r.auxwords /\ r.auxwords \in Nat /\ r.auxwords <= MaxAux
      BY <1>4, <1>5, <1>6
    <3>2. CASE r.nsrcs = 0
      BY <1>6, <1>8, <3>1, <3>2 DEF SizeReport, SizeGrec
    <3>3. CASE r.nsrcs > 0
      BY <1>6, <1>8, <3>1, <3>3 DEF SizeReport, SizeGrec
    <3> QED
      BY <1>5, <3>2, <3>3
  <2>2. ngrec' \in Nat /\ reach' \in Nat
    BY <1>1, <1>4, <1>6, <1>8
  <2> QED
    BY <1>1, <1>2, <1>7, <2>1, <2>2 DEF IInv, TypeOK
<1>10. SourcesInside'
  <2> SUFFICES ASSUME off <= claim.plen, claim.plen <= claim.frame
               PROVE  reach' <= claim.frame
    BY <1>1, <1>2 DEF SourcesInside
  <2>1. reach <= claim.frame
    BY DEF IInv, SourcesInside
  <2>2. plen = claim.plen - off /\ claim.plen \in Nat /\ claim.frame \in Nat
    BY <1>1, FieldFacts DEF IInv, Measured, TypeOK, Claims
  <2>3. r.nsrcs > 0 => off + SourcesEnd(r) <= claim.frame
    BY <1>8, <2>2
  <2> QED
    BY <1>4, <2>1, <2>3
<1>11. Measured' /\ AtHeader' /\ Untouched' /\ ReadsReport'
  BY <1>1, <1>2 DEF IInv, Measured, AtHeader, Untouched, ReadsReport
<1> HIDE DEF n
<1>12. ASSUME WellFormed, PlainBefore(n + 1)
       PROVE  /\ n + 1 \in 1..Len(recs)
              /\ grec = starts[n + 1] /\ Here = n + 1 /\ r = recs[n + 1]
              /\ recs[n + 1].kind = "routed"
  <2>1. n + 1 \in 1..Len(recs)
    BY <1>1, <1>6, <1>12, WalkFacts DEF n
  <2>2. grec = starts[n + 1]
    BY <1>1, <1>12 DEF IInv, OnTrack, n
  <2>3. Here = n + 1 /\ r = recs[n + 1]
    BY <1>1, <1>4, <1>12, <2>1, <2>2, HereFacts, WalkFacts DEF IInv
  <2> QED
    BY <1>4, <1>5, <2>1, <2>2, <2>3 DEF Stops, Rec
<1>13. ASSUME WellFormed, NEW k \in 1..(n + 1), PlainBefore(k)
       PROVE  recs[k].kind = "routed" /\ handled'[k] = k
  <2>1. CASE k \in 1..n
    BY <1>1, <1>7, <1>13, <2>1 DEF IInv, OnTrack, n
  <2>2. CASE k = n + 1
    BY <1>7, <1>12, <1>13, <2>2
  <2> QED
    BY <1>6, <2>1, <2>2 DEF n
<1>14. ASSUME WellFormed, PlainBefore(n + 2)
       PROVE  grec' = starts[n + 2]
  <2>1. PlainBefore(n + 1) /\ n + 1 \in 1..((n + 2) - 1)
    BY <1>6, <1>14, PlainEarlier
  <2>2. /\ n + 1 \in 1..Len(recs) /\ grec = starts[n + 1]
        /\ r = recs[n + 1] /\ recs[n + 1].auxwords = 0
    BY <1>12, <1>14, <2>1 DEF PlainBefore
  <2>3. starts[(n + 1) + 1] = starts[n + 1] + RecLength(recs[n + 1])
    BY <2>2 DEF IInv, Laid, RecordsLaid
  <2>4. (n + 1) + 1 = n + 2
    BY <1>6
  <2>5. RecLength(r) = SizeGrec + a + 4 * 0 /\ grec' = SourcesEnd(r) + 0
    BY <1>4, <2>2 DEF RecLength, a
  <2>6. starts[n + 2] = grec + RecLength(r)
    BY <2>2, <2>3, <2>4
  <2> QED
    BY <1>6, <1>8, <2>5, <2>6 DEF SizeGrec
<1>15. OnTrack'
  <2>1. WellFormed => Len(handled') + ngrec' = Len(recs) /\ off = Last(heads)
    <3>1. WellFormed => n + ngrec = Len(recs) /\ off = Last(heads)
      BY <1>1, WalkFacts DEF n
    <3>2. Len(handled') = n + 1 /\ ngrec' = ngrec - 1
      BY <1>1, <1>7
    <3>3. (n + 1) + (ngrec - 1) = n + ngrec
      BY <1>6
    <3> QED
      BY <3>1, <3>2, <3>3
  <2>2. (n + 1) + 1 = n + 2
    BY <1>6
  <2> QED
    BY <1>1, <1>2, <1>3, <1>7, <1>13, <1>14, <2>1, <2>2 DEF OnTrack, PlainBefore
<1> QED
  BY <1>3, <1>9, <1>15, <1>10, <1>11 DEF IInv

\* The walk is through: all records of a correct report have been handled, if all were
\* plain.
LEMMA DoneStep ==
  ASSUME IInv, Done
  PROVE  IInv'
<1> DEFINE n == Len(handled)
<1>1. /\ pc = "walk" /\ ngrec = 0 /\ pc' = "out"
      /\ UNCHANGED packet /\ UNCHANGED <<nxt, off, plen, grec, ngrec, handled, reach>>
  BY DEF Done
<1>2. UNCHANGED <<ext, heads, recs, starts, claim>>
  BY <1>1 DEF packet
<1>3. Laid' /\ TypeOK' /\ (WellFormed' <=> WellFormed)
  BY <1>1, <1>2, SamePacket DEF IInv, TypeOK
<1>4. Measured' /\ AtHeader' /\ OnTrack' /\ Untouched' /\ SourcesInside'
  BY <1>1, <1>2 DEF IInv, Measured, AtHeader, OnTrack, Untouched, SourcesInside
<1>5. ASSUME WellFormed
      PROVE  /\ n = Len(recs) /\ n \in Nat
             /\ \A k \in 1..n : PlainBefore(k) => recs[k].kind = "routed" /\ handled[k] = k
  BY <1>1, <1>5, WalkFacts DEF IInv, OnTrack
<1>6. ReadsReport'
  BY <1>1, <1>2, <1>3, <1>5 DEF ReadsReport, PlainBefore
<1> QED
  BY <1>3, <1>4, <1>6 DEF IInv

\* Every step of the sender and of the daemon keeps the invariant.
LEMMA ParserStep == IInv /\ [Next]_vars => IInv'
<1> SUFFICES ASSUME IInv, [Next]_vars
             PROVE  IInv'
  OBVIOUS
<1>1. CASE Return
  <2>1. Init'
    BY <1>1 DEF Return, Init
  <2> QED
    BY <2>1, ParserInit, PTL
<1>2. CASE UNCHANGED vars
  <2>1. Laid' /\ Last(heads)' = Last(heads) /\ (WellFormed' <=> WellFormed)
    BY <1>2, SamePacket DEF vars, IInv
  <2>2. TypeOK' /\ Measured' /\ SourcesInside' /\ Untouched'
    BY <1>2 DEF vars, packet, IInv, TypeOK, Measured, SourcesInside, Untouched
  <2>3. AtHeader' /\ OnTrack'
    BY <1>2, <2>1 DEF vars, packet, IInv, AtHeader, OnTrack, PlainBefore, TypeAfter
  <2>4. ReadsReport'
    BY <1>2, <2>1 DEF vars, packet, IInv, ReadsReport, PlainBefore
  <2> QED
    BY <2>1, <2>2, <2>3, <2>4 DEF IInv
<1> QED
  BY <1>1, <1>2, SenderStep, ReceiveStep, SkipStep, NotReportStep, BeginStep,
     StopStep, HandleStep, DoneStep
  DEF Next

-----------------------------------------------------------------------------
(* The theorems.                                                            *)

\* Whatever l4_ipv6_icmpv6_mld2_report finds in a message, the walk gets no further than
\* one record header and its auxiliary data beyond the length it was given.
THEOREM WalkIsBounded == Spec => []TypeOK
<1>1. IInv => TypeOK
  BY DEF IInv
<1> QED
  BY <1>1, ParserInit, ParserStep, PTL DEF Spec

\* Whatever lengths a packet announces, l4_ipv6_icmpv6_mld2_report takes no source from
\* outside the frame if ip6_plen is not larger than the frame and l3_ipv6 has skipped no
\* more than ip6_plen.
THEOREM SourcesAreInside == Spec => []SourcesInside
<1>1. IInv => SourcesInside
  BY DEF IInv
<1> QED
  BY <1>1, ParserInit, ParserStep, PTL DEF Spec

\* Of any correct report behind any extension headers but authentication headers, the walk
\* hands on the routed records in order, up to the first that is not routed or the first
\* with auxiliary data.
THEOREM ReportsAreRead == Spec => []ReadsReport
<1>1. IInv => ReadsReport
  BY DEF IInv
<1> QED
  BY <1>1, ParserInit, ParserStep, PTL DEF Spec
=============================================================================
