----------------------------- MODULE Interfaces -----------------------------
(***************************************************************************)
(* The table of interfaces (g_conf->ints) while the two devices ecmh works *)
(* on come and go, as dynamic tunnels do: int_create for a frame or from   *)
(* update_interfaces, int_destroy when a packet cannot be sent, and the    *)
(* addresses update_interfaces reads, at most once in five minutes.        *)
(*                                                                         *)
(* A device that comes back has a new index.  A frame that was queued      *)
(* before its device vanished is read after it.                            *)
(***************************************************************************)
EXTENDS Naturals

CONSTANTS
  Family,    \* the kinds of address the devices come to have
  MaxIndex,  \* bound: the indices the kernel gives to the two devices
  Limit      \* the seconds between two updates (5*60)

\* "ll" is a link-local address, "gl" any other IPv6 address.
ASSUME FamilyAssumption == Family \subseteq {"v4", "ll", "gl"}
ASSUME IndexAssumption == MaxIndex \in Nat
ASSUME LimitAssumption == Limit \in Nat \ {0}

VARIABLES
  dev,    \* kernel: the index of the device of each name, 0 if there is none
  last,   \* kernel: the last index it has given
  addrs,  \* kernel: what kinds of address the device of an index has
  ints,   \* g_conf->ints
  id,     \* upstream_id and downstream_id
  since   \* the seconds since last_update, at most Limit

vars == <<dev, last, addrs, ints, id, since>>

\* g_conf->upstream and g_conf->downstream
Name == {"upstream", "downstream"}

NoName == "none"

Index == 1..MaxIndex

\* An address is named by the index of the device that has it; 0 is none.
Addr == 0..MaxIndex

\* up is mtu # 0.
Intnode == [up : BOOLEAN, name : Name \cup {NoName}, ll : Addr, gl : Addr]

Blank == [up |-> FALSE, name |-> NoName, ll |-> 0, gl |-> 0]

Devices == {dev[n] : n \in Name} \ {0}

NameOf(i) == IF \E n \in Name : dev[n] = i THEN CHOOSE n \in Name : dev[n] = i ELSE NoName

-----------------------------------------------------------------------------
(* The table.                                                               *)

int_find(i) == ints[i].up

\* Mutant: a name that cannot be found out is no reason to give up.
int_create_Nameless(i) == [Blank EXCEPT !.up = TRUE, !.name = NameOf(i)]

\* What int_create leaves in ints[i]: cleared, and in use if the device is there.
int_create(i) == [Blank EXCEPT !.up = NameOf(i) # NoName, !.name = NameOf(i)]

\* Mutant: an id that was found is kept.
Found_First(I) ==
  id' = [n \in Name |-> IF id[n] = 0 /\ dev[n] \in I THEN dev[n] ELSE id[n]]

\* int_create sets the id of the interfaces it succeeds for.
Found(I) == id' = [n \in Name |-> IF dev[n] \in I \ {0} THEN dev[n] ELSE id[n]]

int_destroy(n) == [n EXCEPT !.up = FALSE]

-----------------------------------------------------------------------------
(* update_interfaces *)

\* What getifaddrs lists for index i, written into the intnode n.  IPv4
\* addresses are ignored.
Addressing(n, i) ==
  [n EXCEPT !.ll = IF "ll" \in addrs[i] THEN i ELSE @,
            !.gl = IF "gl" \in addrs[i] THEN i ELSE @]

HasIPv6(i) == addrs[i] \cap {"ll", "gl"} # {}

\* update_interfaces(NULL) at a device.  One that is not in the table is created
\* and, if it has IPv4 addresses only, destroyed again.
Updated(i) ==
  IF int_find(i) THEN Addressing(ints[i], i)
  ELSE IF HasIPv6(i) THEN Addressing(int_create(i), i)
  ELSE int_destroy(int_create(i))

Listed == {i \in Devices : addrs[i] # {}}

\* Mutant: only what is in the table is updated.
UpdateAll_Known ==
  /\ since >= Limit
  /\ since' = 0
  /\ ints' = [i \in Index |-> IF i \in Listed /\ int_find(i) THEN Updated(i) ELSE ints[i]]
  /\ UNCHANGED <<dev, last, addrs, id>>

\* Mutant: what is in the table is not looked at again.
UpdateAll_New ==
  /\ since >= Limit
  /\ since' = 0
  /\ ints' = [i \in Index |-> IF i \in Listed /\ ~ int_find(i) THEN Updated(i) ELSE ints[i]]
  /\ Found({i \in Listed : ~ int_find(i)})
  /\ UNCHANGED <<dev, last, addrs>>

\* update_interfaces(NULL), from main() and then from timeout().
UpdateAll ==
  /\ since >= Limit
  /\ since' = 0
  /\ ints' = [i \in Index |-> IF i \in Listed THEN Updated(i) ELSE ints[i]]
  /\ Found({i \in Listed : ~ int_find(i)})
  /\ UNCHANGED <<dev, last, addrs>>

\* getifaddrs fails.  The next attempt is five minutes away.
UpdateFails ==
  /\ since >= Limit
  /\ since' = 0
  /\ UNCHANGED <<dev, last, addrs, ints, id>>

\* The addresses of a kind that other devices than i have; own if they have none.
Foreign(i, kind, own) ==
  LET others == {j \in Devices \ {i} : kind \in addrs[j]}
  IN  IF others = {} THEN {own} ELSE others

\* update_interfaces(intn), for an interface that was just created.  The test
\* skips the addresses of the interface itself: those of the other devices are
\* written into it.
Specific(n, i) ==
  {[n EXCEPT !.ll = a[1], !.gl = a[2]] :
     a \in Foreign(i, "ll", n.ll) \X Foreign(i, "gl", n.gl)}

-----------------------------------------------------------------------------
(* Frames.                                                                  *)

\* handleinterfaces, for a frame on an interface that is not in the table: it is
\* created, and its addresses are looked up if that is allowed.
Frame(i) ==
  LET updates == since >= Limit /\ int_create(i).up
  IN  /\ \E n \in Name : id[n] = i
      /\ ~ int_find(i)
      /\ \E n \in IF updates THEN Specific(int_create(i), i) ELSE {int_create(i)} :
           ints' = [ints EXCEPT ![i] = n]
      /\ Found({i})
      /\ since' = IF updates THEN 0 ELSE since
      /\ UNCHANGED <<dev, last, addrs>>

\* sendpacket6 to a device that is gone: ENXIO.
SendFails(i) ==
  /\ int_find(i)
  /\ i \notin Devices
  /\ ints' = [ints EXCEPT ![i] = int_destroy(@)]
  /\ UNCHANGED <<dev, last, addrs, id, since>>

-----------------------------------------------------------------------------
(* The system.                                                              *)

Appear(n) ==
  /\ dev[n] = 0
  /\ last < MaxIndex
  /\ last' = last + 1
  /\ dev' = [dev EXCEPT ![n] = last + 1]
  /\ UNCHANGED <<addrs, ints, id, since>>

Address(i, kind) ==
  /\ i \in Devices
  /\ addrs' = [addrs EXCEPT ![i] = @ \cup {kind}]
  /\ UNCHANGED <<dev, last, ints, id, since>>

Vanish(n) ==
  /\ dev[n] # 0
  /\ addrs' = [addrs EXCEPT ![dev[n]] = {}]
  /\ dev' = [dev EXCEPT ![n] = 0]
  /\ UNCHANGED <<last, ints, id, since>>

Tick ==
  /\ since' = IF since < Limit THEN since + 1 ELSE since
  /\ UNCHANGED <<dev, last, addrs, ints, id>>

-----------------------------------------------------------------------------
Init ==
  /\ dev = [n \in Name |-> 0]
  /\ last = 0
  /\ addrs = [i \in Index |-> {}]
  /\ ints = [i \in Index |-> Blank]
  /\ id = [n \in Name |-> 0]
  /\ since = Limit

Next ==
  \/ UpdateAll \/ UpdateFails \/ Tick
  \/ \E i \in Index : Frame(i) \/ SendFails(i) \/ \E kind \in Family : Address(i, kind)
  \/ \E n \in Name : Appear(n) \/ Vanish(n)

Spec == Init /\ [][Next]_vars

\* Time passes; timeout() runs every second, and getifaddrs does not fail for
\* ever.
FairSpec == Spec /\ WF_vars(Tick) /\ SF_vars(UpdateAll)

-----------------------------------------------------------------------------
(* Properties.                                                              *)

\* The variables have their types, the kernel never gives an index twice, and
\* every interface in use has a name, also when the frame it was created for was
\* read after its device had vanished.
TypeOK ==
  /\ dev \in [Name -> Addr]
  /\ last \in Addr
  /\ addrs \in [Index -> SUBSET Family]
  /\ ints \in [Index -> Intnode]
  /\ id \in [Name -> Addr]
  /\ since \in 0..Limit
  /\ \A n \in Name : dev[n] <= last /\ id[n] <= last
  /\ \A i \in Index : int_find(i) => ints[i].name # NoName

\* An interface that is in use and whose device is there is one whose frames are
\* handled: handleinterfaces compares with the ids, which have to follow a device
\* to its new index.
KnownIsHeard ==
  \A n \in Name : dev[n] # 0 /\ int_find(dev[n]) => id[n] = dev[n]

\* A device that is there to stay, with an IPv6 address, ends up in the table for
\* good and its frames are handled, whatever happened to its predecessors.
Rediscovered ==
  \A n \in Name, i \in Index :
    <>[](dev[n] = i /\ HasIPv6(i)) => <>[](int_find(i) /\ id[n] = i)

\* "The source address must be the link-local address of the interface we are
\* sending on": it ends up being so for a device that has one and stays.  The
\* address of the other device, which the update after a frame writes, and none
\* at all, which int_create leaves, are replaced.
Addressed ==
  \A n \in Name, i \in Index :
    <>[](dev[n] = i /\ "ll" \in addrs[i]) => <>[](ints[i].ll = i)
=============================================================================
