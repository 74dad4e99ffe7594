-------------------------- MODULE InterfacesProofs --------------------------
(***************************************************************************)
(* Proofs about module Interfaces, for any number of comings and goings of *)
(* the two devices.                                                        *)
(***************************************************************************)
EXTENDS Interfaces, TLAPS

\* The devices have indices of their own, and an index the kernel has not given
\* yet is not in use.
Indices ==
  /\ \A m, n \in Name : dev[m] = dev[n] /\ dev[m] # 0 => m = n
  /\ \A i \in Index : i > last => ~ ints[i].up

Inv == TypeOK /\ KnownIsHeard /\ Indices

\* An intnode as the table may hold it.
Sound(n) == n \in Intnode /\ (n.up => n.name # NoName)

\* The index of a device that is there is an index of the table.
LEMMA DevicesAreIndices == TypeOK => Devices \subseteq Index /\ Devices \subseteq Addr
<1> SUFFICES ASSUME TypeOK, NEW n \in Name, dev[n] # 0
             PROVE  dev[n] \in Index /\ dev[n] \in Addr
  BY DEF Devices
<1> QED
  BY IndexAssumption DEF TypeOK, Index, Addr

\* int_create leaves a sound intnode, in use exactly if the device is there.
LEMMA CreateSound ==
  ASSUME NEW i
  PROVE  /\ Sound(int_create(i))
         /\ int_create(i).up <=> \E n \in Name : dev[n] = i
<1>1. NameOf(i) \in Name \cup {NoName}
  BY DEF NameOf
<1>2. NameOf(i) # NoName <=> \E n \in Name : dev[n] = i
  BY DEF NameOf, Name, NoName
<1>3. 0 \in Addr
  BY IndexAssumption DEF Addr
<1>4. Blank \in Intnode
  BY <1>3 DEF Blank, Intnode
<1>5. PICK u \in BOOLEAN : u <=> NameOf(i) # NoName
  OBVIOUS
<1>6. int_create(i) = [[Blank EXCEPT !.up = u] EXCEPT !.name = NameOf(i)]
  BY <1>5, Zenon DEF int_create
<1>7. /\ int_create(i) \in Intnode
      /\ int_create(i).up = u
      /\ int_create(i).name = NameOf(i)
  BY <1>1, <1>4, <1>6 DEF Intnode
<1> QED
  BY <1>2, <1>5, <1>7 DEF Sound

\* Writing addresses changes neither the name nor whether it is in use.
LEMMA AddressingSound ==
  ASSUME NEW n, Sound(n), NEW i \in Index
  PROVE  Sound(Addressing(n, i)) /\ Addressing(n, i).up = n.up
<1>1. i \in Addr
  BY IndexAssumption DEF Index, Addr
<1> QED
  BY <1>1 DEF Addressing, Sound, Intnode

\* int_destroy leaves an intnode the table may hold.
LEMMA DestroySound ==
  ASSUME NEW n, Sound(n)
  PROVE  Sound(int_destroy(n)) /\ ~ int_destroy(n).up
BY DEF int_destroy, Sound, Intnode

\* So does update_interfaces(intn), whichever addresses it writes.
LEMMA SpecificSound ==
  ASSUME TypeOK, NEW n, Sound(n), NEW i, NEW m \in Specific(n, i)
  PROVE  Sound(m) /\ m.up = n.up
<1>1. Foreign(i, "ll", n.ll) \subseteq Addr /\ Foreign(i, "gl", n.gl) \subseteq Addr
  BY DevicesAreIndices DEF Foreign, Sound, Intnode
<1>2. PICK a \in Addr \X Addr : m = [n EXCEPT !.ll = a[1], !.gl = a[2]]
  BY <1>1 DEF Specific
<1> QED
  BY <1>2 DEF Sound, Intnode

\* The invariant holds when the table is empty.
LEMMA InterfaceInit == Init => Inv
BY IndexAssumption, LimitAssumption
DEF Init, Inv, TypeOK, KnownIsHeard, Indices, Blank, Intnode, Addr, Index, int_find

\* update_interfaces(NULL) keeps the table sound, and takes an index into use only
\* for a device whose id it sets.
LEMMA UpdateStep == ASSUME Inv, UpdateAll PROVE Inv'
<1>1. TypeOK /\ KnownIsHeard /\ Indices
  BY DEF Inv
<1>2. Devices \subseteq Index /\ Listed \subseteq Devices
  BY <1>1, DevicesAreIndices DEF Listed
<1>3. \A i \in Index : Sound(ints[i])
  BY <1>1 DEF TypeOK, Sound, int_find
<1>4. \A i \in Listed : Sound(Updated(i))
  BY <1>2, <1>3, CreateSound, AddressingSound, DestroySound DEF Updated
<1>5. \A i \in Index : Sound(ints'[i])
  BY <1>3, <1>4 DEF UpdateAll
<1>6. /\ ints' = [i \in Index |-> IF i \in Listed THEN Updated(i) ELSE ints[i]]
      /\ id' = [n \in Name |-> IF dev[n] \in {i \in Listed : ~ int_find(i)} \ {0}
                               THEN dev[n] ELSE id[n]]
      /\ dev' = dev /\ last' = last /\ addrs' = addrs /\ since' = 0
  BY DEF UpdateAll, Found
<1>7. TypeOK'
  <2>1. ints' \in [Index -> Intnode] /\ \A i \in Index : ints'[i].up => ints'[i].name # NoName
    BY <1>5, <1>6 DEF Sound
  <2>2. id' \in [Name -> Addr] /\ \A n \in Name : id'[n] <= last
    BY <1>1, <1>6 DEF TypeOK
  <2> QED
    BY <1>1, <1>6, <2>1, <2>2, LimitAssumption DEF TypeOK, int_find
<1>8. KnownIsHeard'
  <2> SUFFICES ASSUME NEW n \in Name, dev[n] # 0, ints'[dev[n]].up
               PROVE  id'[n] = dev[n]
    BY <1>6 DEF KnownIsHeard, int_find
  <2>1. dev[n] \in Devices /\ dev[n] \in Index
    BY <1>2 DEF Devices
  <2>2. CASE int_find(dev[n])
    BY <1>1, <1>6, <2>2 DEF KnownIsHeard
  <2>3. CASE ~ int_find(dev[n])
    <3>1. dev[n] \in Listed
      BY <1>6, <2>1, <2>3 DEF int_find
    <3> QED
      BY <1>6, <2>3, <3>1
  <2> QED
    BY <2>2, <2>3
<1>9. Indices'
  <2>1. ASSUME NEW i \in Index, i > last
        PROVE  i \notin Devices
    BY <1>1, <2>1 DEF TypeOK, Devices, Addr, Index
  <2> QED
    BY <1>1, <1>2, <1>6, <2>1 DEF Indices
<1> QED
  BY <1>7, <1>8, <1>9 DEF Inv

\* A frame, late or not, on an interface that is not in the table.
LEMMA FrameStep == ASSUME Inv, NEW i \in Index, Frame(i) PROVE Inv'
<1>1. TypeOK /\ KnownIsHeard /\ Indices
  BY DEF Inv
<1>2. PICK m : /\ ints' = [ints EXCEPT ![i] = m]
               /\ Sound(m)
               /\ m.up <=> \E n \in Name : dev[n] = i
  BY <1>1, CreateSound, SpecificSound DEF Frame
<1>3. /\ id' = [n \in Name |-> IF dev[n] \in {i} \ {0} THEN dev[n] ELSE id[n]]
      /\ dev' = dev /\ last' = last /\ addrs' = addrs
      /\ since' = 0 \/ since' = since
  BY DEF Frame, Found
<1>4. TypeOK'
  <2>1. ints' \in [Index -> Intnode] /\ \A j \in Index : ints'[j].up => ints'[j].name # NoName
    BY <1>1, <1>2 DEF TypeOK, Sound, int_find
  <2>2. id' \in [Name -> Addr] /\ \A n \in Name : id'[n] <= last
    BY <1>1, <1>3 DEF TypeOK
  <2> QED
    BY <1>1, <1>3, <2>1, <2>2, LimitAssumption DEF TypeOK, int_find
<1>5. KnownIsHeard'
  <2> SUFFICES ASSUME NEW n \in Name, dev[n] # 0, ints'[dev[n]].up
               PROVE  id'[n] = dev[n]
    BY <1>3 DEF KnownIsHeard, int_find
  <2>1. dev[n] \in Index
    BY <1>1, DevicesAreIndices DEF Devices
  <2> QED
    BY <1>1, <1>2, <1>3, <2>1 DEF KnownIsHeard, TypeOK, int_find
<1>6. Indices'
  <2>1. ASSUME NEW n \in Name, dev[n] = i
        PROVE  ~ (i > last)
    BY <1>1, <2>1 DEF TypeOK, Addr, Index
  <2> QED
    BY <1>1, <1>2, <1>3, <2>1 DEF Indices, TypeOK
<1> QED
  BY <1>4, <1>5, <1>6 DEF Inv

\* Every frame, update, failed send and change of the devices keeps the invariant.
LEMMA InterfaceStep == Inv /\ [Next]_vars => Inv'
<1> SUFFICES ASSUME Inv, [Next]_vars
             PROVE  Inv'
  OBVIOUS
<1>1. TypeOK /\ KnownIsHeard /\ Indices
  BY DEF Inv
<1>2. CASE UpdateFails
  BY <1>1, <1>2, LimitAssumption
  DEF UpdateFails, Inv, TypeOK, KnownIsHeard, Indices, int_find
<1>3. CASE Tick
  BY <1>1, <1>3, LimitAssumption DEF Tick, Inv, TypeOK, KnownIsHeard, Indices, int_find
<1>4. ASSUME NEW i \in Index, SendFails(i)
      PROVE  Inv'
  <2>1. Sound(ints[i])
    BY <1>1 DEF TypeOK, Sound, int_find
  <2>2. ints' = [ints EXCEPT ![i] = int_destroy(ints[i])]
    BY <1>4 DEF SendFails
  <2>3. Sound(int_destroy(ints[i])) /\ ~ int_destroy(ints[i]).up
    BY <2>1, DestroySound
  <2>4. /\ ints' \in [Index -> Intnode]
        /\ \A j \in Index : ints'[j].up => ints[j].up /\ ints'[j].name # NoName
    BY <1>1, <2>2, <2>3 DEF TypeOK, Sound, int_find
  <2>5. \A n \in Name : dev[n] # 0 => dev[n] \in Index
    BY <1>1, DevicesAreIndices DEF Devices
  <2> QED
    BY <1>1, <1>4, <2>4, <2>5 DEF SendFails, Inv, TypeOK, KnownIsHeard, Indices, int_find
<1>5. ASSUME NEW i \in Index, NEW kind \in Family, Address(i, kind)
      PROVE  Inv'
  BY <1>1, <1>5 DEF Address, Inv, TypeOK, KnownIsHeard, Indices, int_find
<1>6. ASSUME NEW n \in Name, Appear(n)
      PROVE  Inv'
  <2>1. last + 1 \in Index /\ last + 1 \in Addr /\ ~ ints[last + 1].up
    BY <1>1, <1>6, IndexAssumption DEF Appear, TypeOK, Indices, Addr, Index
  <2>2. dev' = [dev EXCEPT ![n] = last + 1] /\ last' = last + 1
    BY <1>6 DEF Appear
  <2>3. TypeOK'
    BY <1>1, <1>6, <2>1, <2>2, IndexAssumption DEF Appear, TypeOK, Addr, int_find
  <2>4. KnownIsHeard'
    BY <1>1, <1>6, <2>1, <2>2 DEF Appear, TypeOK, KnownIsHeard, int_find
  <2>5. Indices'
    BY <1>1, <1>6, <2>1, <2>2 DEF Appear, TypeOK, Indices, Addr, Index
  <2> QED
    BY <2>3, <2>4, <2>5 DEF Inv
<1>7. ASSUME NEW n \in Name, Vanish(n)
      PROVE  Inv'
  <2>1. 0 \in Addr
    BY IndexAssumption DEF Addr
  <2>2. TypeOK'
    <3>1. addrs' \in [Index -> SUBSET Family]
      BY <1>1, <1>7 DEF Vanish, TypeOK
    <3>2. dev' \in [Name -> Addr] /\ \A m \in Name : dev'[m] <= last
      BY <1>1, <1>7, <2>1 DEF Vanish, TypeOK, Addr
    <3> QED
      BY <1>1, <1>7, <3>1, <3>2 DEF Vanish, TypeOK, int_find
  <2>3. KnownIsHeard'
    BY <1>1, <1>7 DEF Vanish, TypeOK, KnownIsHeard, int_find
  <2>4. Indices'
    BY <1>1, <1>7 DEF Vanish, TypeOK, Indices
  <2> QED
    BY <2>2, <2>3, <2>4 DEF Inv
<1>8. CASE UNCHANGED vars
  BY <1>1, <1>8 DEF vars, Inv, TypeOK, KnownIsHeard, Indices, int_find
<1> QED
  BY <1>2, <1>3, <1>4, <1>5, <1>6, <1>7, <1>8, UpdateStep, FrameStep DEF Next

\* The table of interfaces stays well typed and every interface in use has a name,
\* however often the devices come and go and however late their frames are read.
THEOREM InterfaceTypeCorrect == Spec => []TypeOK
<1>1. Spec => []Inv
  BY InterfaceInit, InterfaceStep, PTL DEF Spec
<1> QED
  BY <1>1, PTL DEF Inv

\* The frames of every device that is in the table are handled: its id follows the
\* device to every new index.
THEOREM KnownAreHeard == Spec => []KnownIsHeard
<1>1. Spec => []Inv
  BY InterfaceInit, InterfaceStep, PTL DEF Spec
<1> QED
  BY <1>1, PTL DEF Inv
=============================================================================
