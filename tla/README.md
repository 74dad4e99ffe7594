# A TLA+ model of ecmh

ecmh (Easy Cast du Multi Hub) is an IPv6 multicast proxy. It listens to the MLD
reports of one *downstream* interface, joins upstream what its listeners want,
and forwards multicast packets between the two, in user space or, with `-k`,
through routes in the kernel. It is one single-threaded C program; what makes it
hard is that its state is spread over lists that several handlers change, that
handlers depend on timers and on what earlier messages left behind, that the
kernel holds half of the state (sockets, routes), that devices vanish and come
back under other indices, and that signals interrupt it anywhere.

The modules here model the Linux build (`ECMH_SUPPORT_MLD2`, `ECMH_GETIFADDR`,
`DEBUG`; no `ECMH_BPF`). The guards written with `ECMH_SUPPORT_MLDV2` are
compiled out, since nothing defines that name, and are not modelled.

## Inventory

| Component | State | Operations | Interacts with | Hard behaviour | What makes it correct |
|---|---|---|---|---|---|
| source lists (`linklist.c`, `msrc.c`, `mrec.c`) | lists of addresses with timers | intersect, union, difference, add_all, remove_all, timers | filter state | nodes without data | the set operations are the ones the state table needs |
| filter state (`mld2_logic.c`, `grpint.c`) | mode, includes, excludes, filter timer of a group on an interface | one branch per mode and record type, expiry, switch to INCLUDE | reports, queries, packets | effects depend on all records before | agrees with RFC 3810, which its comments cite row by row |
| group table (`groups.c`) | groups, interface nodes | find or make a node, remove it | all handlers | removed while walked | nothing visits a removed node; a running membership is never lost |
| upstream subscription (`handle_upstream_subscription`, `mcast_client.c`) | one socket per interface; the kernel's joins and filters | make new socket, join all, close old | kernel | order of join and close, descriptor reuse | what is wanted is joined, nothing else, no leak, no gap |
| packets (`l4_ipv6_multicast`, `sendpacket6`) | none of its own | forward, expire on the way, destroy a vanished interface | group table, interfaces | races with expiry, vanishing devices | no crash, nothing lost |
| kernel forwarding (`kernel_routing.c`) | `routes`, the kernel's cache | upcall, save, pass of `expire_routes` | kernel, group table | list changed while walked, repeated upcalls, memberships that change between two upcalls | list = kernel's cache; what stays wanted is served, what is unwanted goes |
| MLD version (`interfaces.c`) | `mld_version`, `mld_last_v1` | every MLD message; answers to queries | reports, queries | order of messages, three modes | queries are answered where there are groups; upgrade happens |
| main loop (`ecmh.c`) | flags, alarm, `mr6_fd`, quit | select, serve, timeout, signals | everything | signal between any two statements, lost wake-up | clock never lost nor doubled; termination works |
| interfaces (`interfaces.c`, `update_interfaces`) | table by index, `upstream_id`, `downstream_id` | create, find, destroy, update | all | changing indices, late frames, failed updates, five-minute limit | a device in use is heard; one that stays is found and addressed |
| MLD parsing (`ecmh.c`) | none | header chain, lengths, walk over records | filter state | lengths that lie, auxiliary data, early exit | a correct report is read as its sender meant it; no source is taken from outside the frame while the announced lengths are true to it |
| MLD sending (`ecmh.c`) | none | queries and reports | filter state, version | what is compiled out | whether, to whom and in which version |
| `mship_db.c`, `hash.c`, `subscr.c` | | | no caller in the daemon | | not modelled |
| tunnel mode/BPF, statistics dump, logging, `mtrace6`, packaging | | | | | not modelled: pure I/O or not built |

The hazards, each at its line with the properties that cover it, are in
`PROJECT.json`.

## Modules

    SourceList <- FilterState <- GroupInterface -> Rfc3810
                       ^
                  Membership <- Proxy -> KernelRouting -> RouteCache
    MldVersion   MainLoop   Interfaces   ReportParser

An arrow `A <- B` or `B -> A` says that B extends or instantiates A.

* `SourceList` is a list of `struct msrc` as a function from addresses to the
  seconds left. Order and duplicates cannot be observed: lists are searched by
  address only and no operation adds one twice. `list_add_all` keeps its
  defect: it adds nodes that hold NULL, which loops skip and `list_isempty` and
  `count` see.
* `FilterState` is `struct grpintnode` as a record (`nulls` says whether the
  includes list has NULL nodes) and `handle_downstream_subscription` with one
  operator per branch; `QueriedSources`/`QueriesGroup` are the queries a branch
  sends, `Wants` is `check_route` for a node.
* `Rfc3810` is the reference: the state table of RFC 3810, 7.4 and 7.6.3. It
  models no code.
* `GroupInterface` is one node under any records, seconds and expiries.
* `Membership` composes nodes into the group table and adds the kernel's
  sockets. Its actions are the handlers: `Report`, `ApplyRecord`, `StopReport`,
  `EndReport` (MLDv2 report), `Mld1Report`, `Timeout`/`Expire...`/`EndTimeout`
  (the second's work), `Forward...` (packets), `AnswerLost`, `IntCreate`,
  `CloseOld`. `Resubscribe` and `CloseOld` are the two halves of
  `handle_upstream_subscription`; between them both sockets are open, and
  `ret` says to which handler it returns. Handlers do not interleave, as in the
  code; time and vanishing devices do interleave with them. `sock` is
  `upstream_socket`, and `open` is the kernel's view: which group each open
  descriptor has joined and which sources it admits; `socket()` returns the
  lowest free descriptor, or fails when there is none. An exclude filter is
  refused by the kernel (the code passes MLD's mode number, not the socket
  API's), so such a join admits every source.
* `RouteCache` is the abstract specification of kernel forwarding: a route is
  added only while wanted, removed only while unwanted, and one that stays
  unwanted is removed in the end. `KernelRouting` is `kernel_routing.c`: the
  memberships appear as the set `wanted` of streams `check_route` accepts, a
  pass of `expire_routes` is one step per list node, and `passes` counts the
  calls a handler makes (two after a report, one after an expiry).
* `Proxy` is the daemon with `-k`: `Membership` extended by the variables of
  `KernelRouting`, whose `wanted` is now computed by `check_route` from the
  group table. Each action of `Membership` is joined with the passes of
  `expire_routes` the code runs after it (`Owing`), and while a pass runs no
  handler but time takes a step. An upcall (`HandleUpcall`) may come for any
  stream at any time the main loop is idle, also late or repeated.
* `MldVersion` is `int_set_mld_version`, its callers, and which reports answer a
  query, for each mode of the command line. `groups` says whether some group has a
  node for the interface: below version 2 a report is sent for each such group, and
  on an interface without any, as the upstream one normally is, none.
  `mld2_send_report` sends nothing: the loop that would add records is inside
  `#if 0`.
* `MainLoop` is `main()` statement by statement from the first `alarm(1)`,
  with signals between any two, a `select()` that is interrupted or fails for
  another reason, and with what start-up leaves in `mr6_fd`
  (router socket, stdin, -1) and in `routes` (made, never made, freed). `ticked`
  and `ran` say whether a second has passed since `alarm(1)` and whether
  `timeout()` has run in the present second.
* `Interfaces` is the table while the two devices come and go. The kernel gives
  a device that comes back a new index and a frame may be read after its device
  has vanished; `UpdateAll` is `update_interfaces(NULL)`, `Frame` is the path of
  `handleinterfaces` that creates an interface and calls
  `update_interfaces(intn)`, with the inverted test of that function.
* `ReportParser` is the walk over an MLDv2 report, in bytes: the extension
  headers `l3_ipv6` skips one by one and takes off the 16-bit length, the drop of a
  header chain that leaves the frame (14 bytes late, since `handleinterfaces` counts
  the Ethernet header), the guard before the loop, its four exits, and the step to
  the next record. The sender is part of the model: it lays the packet out header by
  header and record by record (`AddHeader`, `AddRecord`), so that where a record
  begins is state rather than a sum over a sequence; an authentication header has
  its own units, which the code misreads. It may then announce one more record than
  there is and any payload length, and its frame may be cut short or padded
  (`Claims`). What is read where no header or record begins, or outside the frame,
  may be anything.
* `FilterProofs`, `GroupInterfaceProofs`, `KernelRoutingProofs`,
  `MldVersionProofs`, `MainLoopProofs`, `InterfacesProofs` and
  `ReportParserProofs` hold the theorems of their modules; `MembershipProofs`
  holds those of `Membership` and of `Proxy`.

Simplifications a reader should know: in `Membership` and `Proxy` the two
interfaces keep their index when they come back (`Interfaces` is about indices),
and only the device of the listeners may vanish: all joins are made on the upstream
device (`mld2_logic.c:296,335`), with which the kernel would drop them;
allocations succeed; every timer is the number of seconds left, 0 when it is due
(the code only compares with `<= now`); `expire_sources` reads the clock once, so
no second passes during its scan; `int_create` inside `timeout()` is the same as
`IntCreate` just before it; `Membership` assumes that the list of routes exists
(it does with `-k`; what happens otherwise is in `MainLoop`); `Interfaces`
leaves out the third and further devices, which the code never listens to.

## Runs

| Run | Shows | Bounds |
|---|---|---|
| `group_interface` | types; `IncludeFollowsRfc`: in INCLUDE mode every record does what RFC 3810 says; `ConversesLikeRfc`: in both modes the queries for sources and for the group and the mode are the RFC's, and the filter timer is no shorter | 3 sources (every way two lists and a record can overlap needs three), MALI 3 > LLQI 1 |
| `membership_vanish` | types, `OwnSockets`: although `int_create` forgets descriptors and `socket()` gives out again what was closed, no close hits a socket in use; `AdmittedUntilExhausted`: the socket `int_create` forgets keeps the streams coming until descriptors run out; `LiveSourceKept`: only a report takes away a source whose timer runs | 2 sources (one expires while another is left), 3 descriptors (one lost, one old, one new), one interface with listeners, whose device vanishes and returns (listeners on both are in the theorem `SocketsAreOwn`: their instances have more than 14 million states); deadlock is allowed because a crash ends the daemon |
| `proxy` | `PTypeOK`: types, and that a handler makes the passes of `expire_routes` it owes before the next one starts; `RoutesMirror`: list = kernel's cache; `NoSocketLeak`, `JoinedExactly`, `Covered`, `StreamUninterrupted`: the shared socket is replaced without leak, surplus or gap; `ImplementsCache`: the routes change as the abstract cache allows; `Served`: what stays wanted is in the end admitted and routed for good; `QuietLeaves`: when reports stop the daemon leaves | 2 groups (they share the socket), 1 source, 2 records (a report that changes two groups, or stops after one) |
| `kernel_routing` | types, `Mirrors`: list = kernel's cache, no duplicate; `ImplementsCache`: refinement of `RouteCache!FairSpec` | 3 routes (a deleted one, the one stepped over, one after it), 2 queued upcalls |
| `mld_version` | types; `AnsweredBelowV2`: below version 2 queries are answered exactly where there are groups; `TimedV1`: a time is kept exactly at version 1; `UpgradeHappens` | Timeout 3; ages beyond it are equal |
| `main_loop` | types; `ClockKept`: no order of signals loses the alarm; `OncePerSecond`; `TimeoutsRecur`; `TerminateStops` | finite as it is; the daemon may stop, so deadlock is allowed |
| `interfaces` | types; `KnownIsHeard`: the ids follow a device to its new index; `Rediscovered`, `Addressed`: a device that stays ends in the table with its own link-local address | 3 indices (one device returns while the other stays), 2 seconds between updates |
| `report_parser` | types, with how far the walk may get beyond the length it was given; `SourcesInside`: no source is taken from outside the frame while the announced payload is inside it and the skipped headers are inside that; `ReadsReport`: of a correct report the records before the first that is not routed are handled in order | 2 records of 0 to 2 sources and 0 or 1 auxiliary word, 0 or 1 extension header of 8 or 16 bytes or an authentication header of 12; announced payload and frame each the true length, 0 (the headers are then larger: `plen` underflows) or 68 (short for some packets, too long for others) |

The larger instances have 2.1 million states (`report_parser`), 1.3 million
(`membership_vanish`) and 190,000 (`proxy`, with liveness). Every kind of record,
both modes and both stages of an EXCLUDE membership occur with MALI 2 and LLQI 1.
One source suffices in `proxy` because the sockets' filters are per group; the
two-source interplay of expiry is in `membership_vanish`, and of routes in
`stale_route`.

Four runs show that the code does not do what a text of the repository says.
Each checks one property, which TLC violates:

* `requested_refused`: ALLOW in EXCLUDE mode leaves the source it asks for on
  the exclude list (`mld2_logic.c:194` intersects where it means to subtract).
* `vanish_crash`: a membership that expires after its device vanished makes
  `handle_upstream_subscription` read through NULL.
* `stale_route`: `expire_routes` steps over the route after each it deletes. Two
  streams of a group stop being wanted at once (its filter timer runs out, or its
  last sources expire together), one pass runs, and the route it stepped over
  stays: the kernel forwards a stream nobody wants for ever.
* `user_space_crash`: without `-k` the first report walks a list that is NULL.

Seen while modelling, without a run of their own:

* A BLOCK in EXCLUDE mode leaves nodes without data (`linklist.c:149`), and the
  group then stays joined for ever; `QuietLeaves` states that as its exception.
* No MLDv2 report is ever sent, so a query on an interface at version 2 is not
  answered; an interface at version 2 never goes down to MLDv1 although the
  comment on `int_set_mld_version` says a lower version is stored; `mld_last_v1`
  is the time of the first MLDv1 message and not of the last.
* An MLDv1 report leaves an empty node that is never removed, since
  `grpint_refresh` always fails.
* `int_create` forgets an open upstream socket.
* `update_interfaces(intn)` skips the interface it is called for and writes the
  addresses of the others into it (`ecmh.c:1920`); `Addressed` shows that the
  next full update repairs it.
* A wrong checksum is logged as "CORRUPT->DROP" and the message is handled
  (`ecmh.c:1587`); the records behind a link-local one are lost (`goto out`,
  where the comment says to ignore it); `grec_auxwords` is counted in bytes
  (`ecmh.c:1333`), so that behind auxiliary data the walk has lost its place,
  which is why `ReadsReport` promises less there.
* `ip6_plen` is never compared with the length of the frame (`ecmh.c:1687`), and
  taking the extension headers off it can underflow (`ecmh.c:1700`): the two
  premises of `SourcesInside`. The length field of an authentication header is taken
  for units of eight bytes (`ecmh.c:1699`), so that a report behind one is lost.
* The joins are lost with the upstream device, and nothing makes them again before
  the next report from downstream.
* `FD_SET` is given descriptor 0 or -1 when kernel forwarding is off; the two
  mifs are not made again for a device that comes back; a second that the drift
  of `alarm(1)` skips may be the one of the general query.

### Fairness

* `Membership` and `Proxy`: handlers run to their end; seconds pass; every alarm
  is served (`Timeout`). The last rests on the main loop, where `TimeoutsRecur`
  is checked. Reports are never assumed. `Proxy` adds strong fairness of
  `HandleUpcall`, used by `Served`: while packets of a stream come in without a
  route the kernel keeps asking, and the main loop, which is idle again and
  again, reads the upcall.
* `KernelRouting`: a pass ends, and changes of the memberships that end in a
  pass recur: listeners answer the general query every 125 seconds, and each
  report ends in `expire_routes`. Without it an unwanted route that was stepped
  over would stay, which `stale_route` shows.
* `MldVersion`: time passes and MLDv2 messages keep arriving. This is the
  premise of an upgrade.
* `MainLoop`: the process is scheduled, time passes, the alarm rings, and frames
  keep arriving. The last is needed: a signal between the test of the flag and
  `select()` wakes nobody, and the work waits for the next frame. That `select()`
  fails is possible, but nothing is assumed to make it fail.
* `Interfaces`: time passes, and `UpdateAll` is strongly fair: `timeout()` tries
  every five minutes and `getifaddrs` does not fail each time for ever. Frames
  are not assumed.

Each property has a mutant, an operator next to the original definition that
changes it as a plausible slip would; with it TLC finds the property violated.

## Proofs

Checked by TLAPS for every value of the constants:

* `NodeTypeCorrect`, `IncludeFollows`, `ConversationFollows`
  (`GroupInterfaceProofs`). `TypeOK` of `GroupInterface` is inductive: besides
  the type it says that the filter timer is 0 in INCLUDE mode, which the third
  theorem needs (queries and mode equal to the RFC's, the timer no shorter). The other two follow from it state by state, one lemma row per
  branch.
* `TypeCorrect` (`MembershipProofs`). The inductive invariant `IType` adds
  `Control`, which says when the handlers' local variables have a value: a node
  left to visit exists because only the scan itself, or the resubscription it
  called, runs while there is one.
* `SocketsAreOwn`. Inductive with `IType`: a new descriptor is one that is not
  open, and the old one is the interface's own. It holds for listeners on either
  interface or on both.
* `UpstreamExact` and its parts `SocketsAreClosed`, `GroupsJoinedExactly`,
  `WantedIsCovered`, assuming that no device vanishes. `NoSocketLeak`,
  `JoinedExactly` and `Covered` are not inductive alone: `Stable` adds that both
  interfaces are there, that no socket has failed, and that every interface
  outside a report is `Subscribed`, with every joined group admitting at least
  what its node admits. Expiry shrinks nodes without resubscribing, hence "at
  least". That a descriptor can always be had is `DescriptorAssumption` (three
  descriptors), used once.
* `RoutesMirrorKernel`, `RoutingTypeCorrect`, `RoutingRefinesCache`
  (`KernelRoutingProofs`). `TypeOK /\ Mirrors` is inductive; the lemma on
  `RemoveAt` says that deleting from a list without repetition removes exactly
  one element. Refinement is by the identity mapping on `wanted` and `mfc`.
* `LiveSourcesStay`, for any devices that vanish. It follows from `IType` alone:
  `KeepsLive` relates the tables before and after a step, and every step that is
  not a record of a report drops sources only whose timers are 0.
* `StreamsUninterrupted`, assuming that no device vanishes, from `IType`,
  `OwnSockets` and `Stable`: only `CloseOld` takes a stream away from a socket,
  and a stream that is wanted is let in by a socket that is not the old one.
  `TableSteps` sorts the actions by what they do to the sockets (`Lessens`,
  `Renews(i)`, `CloseOld`, `IntCreate`), and these proofs look at no more.
* `ResilientUntilExhausted`, while the device of the listeners comes and goes. `AdmittedUntilExhausted`
  is not inductive. `Heard` adds that only the interfaces with listeners have nodes
  and sockets. `Resilient` adds what comes in: as long as the descriptors that are
  not lost suffice for these interfaces and one more (`Spare`), everything an
  interface outside a report has joined is let in by its own socket or by one that
  was forgotten (`LetIn`), never by that of the other interface, which may be
  replaced. Under `Spare` a free descriptor is found by counting (`SpareIsFree`),
  so that no `socket()` fails; a lost descriptor stays lost (`LostStaysLost`), so
  that once `Spare` is gone it does not come back. Counting is why `Fd` is assumed
  to be finite.
* `ProxyIsMembership`: the composition implements `Membership`, every step of it
  being one of `Membership` or none. `ProxyUpstreamExact` and `ProxyUninterrupted`
  carry theorems above over to the daemon with `-k`; the others follow the same
  way. `ProxyRefinesCache` maps `wanted` to `Wanted`, what `check_route` computes
  from the table: a step of the memberships is a change of `wanted`, a step of the
  routing leaves it alone, and an upcall or a deletion is decided by the `Wanted`
  of its own state.
* `ProxyTypeCorrect`, `ProxyRoutesMirror`. `PTypeOK /\ RoutesMirror` is inductive
  given `TypeOK` of the memberships, which says where
  `handle_upstream_subscription` returns to: a handler that owes passes has
  come to the close of the old socket. The lemmas on lists are those of
  `KernelRoutingProofs`, used through an instance.
* `VersionTypeCorrect`, `Version1IsTimed`, `QueriesAreAnswered`
  (`MldVersionProofs`). The invariant is `TypeOK`, `TimedV1` and the modes in
  which a version can be reached; the last theorem needs to know that an answer
  was computed from the version that was just set, and from the groups the
  interface has.
* `LoopTypeCorrect`, `ClockIsKept`, `RunsOncePerSecond` (`MainLoopProofs`).
  `ClockKept` does not say where in `main()` each stage of the clock may be found:
  `Clock` does. `Fresh` adds that while an alarm that may ring, or the flag, is
  unserved, `timeout()` has not run in this second.
* `InterfaceTypeCorrect`, `KnownAreHeard` (`InterfacesProofs`). The invariant adds
  `Indices`: the two devices never have the same index, and an index the kernel
  has not given yet is not in use, which is what makes a new index harmless.
* `WalkIsBounded`, `SourcesAreInside`, `ReportsAreRead` (`ReportParserProofs`), for
  any lengths the packet may announce. The invariant adds `Laid` (headers and records
  lie one behind the other and fit into 16 bits); `Measured` (as long as the headers
  that were skipped fit into the announced payload, `plen` is what they leave of it;
  it is the premise of `SourcesInside` that excludes the underflow); `AtHeader` (in a
  correct packet `l3_ipv6` is at the beginning of a header or of the message, and
  expects what is there); and `OnTrack` (as long as only plain records have been met,
  the walk is where the next record begins, and has handed on each so far).
  `RoutedGoesOn` says that none of the four tests turns a correct record away.

Assumptions on constants: `0 < LLQI < MALI` (the code has 2 and 260), `Fd` a
finite set of positive numbers with three members at least, `MaxRecords` positive,
`MaxUpcalls`, `Timeout`, `MaxIndex` and the bounds of `ReportParser` naturals,
`Lengths` numbers of 16 bits, `Volatile` at most the downstream interface, `Limit`
positive, `Family` among the three kinds of address.

Every invariant and action property of a passing run is stated by a theorem.
Model-checked only: the liveness properties `Served`, `QuietLeaves`,
`UpgradeHappens`, `TimeoutsRecur`, `TerminateStops`, `Rediscovered` and
`Addressed`, and the fairness part of `ImplementsCache` in `kernel_routing`; they
rest on fairness, which is out of the prover's reach.

## Not modelled

* `mship_db.c` and `hash.c` are not compiled into the daemon (Makefile) and
  `subscr.c` has no caller left: `grpint_refresh` returns NULL and the
  unsubscription is inside `#if 0`.
* The packing of records into packets in `mld2_send_report` is inside `#if 0`.
* Tunnel mode and BPF need `ECMH_BPF`; the path of IPv4 and protocol 41 is packet
  I/O. Hop limits, statistics and the bytes forwarded change no state the daemon
  acts on.
* `sigusr1` writes a file and changes nothing. That it reads `g_conf->ints` in
  signal context is listed as a hazard.
* `mtrace6` is a separate tool that sends one request and prints the answers.
* Failing allocations, logging, pid file, privileges, packaging.

## Plan

What is left, in this order:

1. The growth of `g_conf->ints` by `realloc` under `sigusr1`, and the mifs of
   devices that come back.
2. Failing allocations in `save_route` and `groupint_get`.

## Running

    tlc -workers 2 -config proxy.cfg Proxy
    tlapm MembershipProofs.tla
