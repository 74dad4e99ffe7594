------------------------ MODULE KernelRoutingProofs ------------------------
(***************************************************************************)
(* Proofs about kernel forwarding, for every set of streams and every      *)
(* length of the kernel's queue.                                           *)
(***************************************************************************)
EXTENDS KernelRouting, SequenceTheorems, TLAPS

\* What RemoveAt returns: the sequence without its i-th element.
LEMMA RemoveAtFacts ==
  ASSUME NEW S, NEW s \in Seq(S), NEW i \in 1..Len(s)
  PROVE  /\ RemoveAt(s, i) \in Seq(S)
         /\ Len(RemoveAt(s, i)) = Len(s) - 1
         /\ \A j \in 1..(Len(s) - 1) :
              RemoveAt(s, i)[j] = IF j < i THEN s[j] ELSE s[j + 1]
<1> DEFINE a == SubSeq(s, 1, i - 1)
           b == SubSeq(s, i + 1, Len(s))
<1>1. a \in Seq(S) /\ Len(a) = i - 1 /\ \A j \in 1..(i - 1) : a[j] = s[j]
  OBVIOUS
<1>2. b \in Seq(S) /\ Len(b) = Len(s) - i /\ \A j \in 1..(Len(s) - i) : b[j] = s[i + j]
  OBVIOUS
<1>3. RemoveAt(s, i) = a \o b
  BY DEF RemoveAt
<1> HIDE DEF a, b
<1>4. Len(s) \in Nat /\ Len(a) + Len(b) = Len(s) - 1
  BY <1>1, <1>2
<1>5. /\ a \o b \in Seq(S)
      /\ Len(a \o b) = Len(a) + Len(b)
      /\ \A j \in 1..(Len(a) + Len(b)) :
           (a \o b)[j] = IF j <= Len(a) THEN a[j] ELSE b[j - Len(a)]
  BY <1>1, <1>2, ConcatProperties
<1>6. ASSUME NEW j \in 1..(Len(s) - 1)
      PROVE  (a \o b)[j] = IF j < i THEN s[j] ELSE s[j + 1]
  <2>1. CASE j < i
    BY <1>1, <1>4, <1>5, <2>1
  <2>2. CASE ~ (j < i)
    <3>1. j - Len(a) \in 1..(Len(s) - i) /\ i + (j - Len(a)) = j + 1 /\ ~ (j <= Len(a))
      BY <1>1, <1>4, <2>2
    <3>2. (a \o b)[j] = b[j - Len(a)]
      BY <1>4, <1>5, <3>1
    <3>3. b[j - Len(a)] = s[i + (j - Len(a))]
      BY <1>2, <3>1
    <3> QED
      BY <2>2, <3>1, <3>2, <3>3
  <2> QED
    BY <2>1, <2>2
<1> QED
  BY <1>3, <1>4, <1>5, <1>6

\* The elements of a sequence, and that no two of them are the same.
Elements(s) == {s[j] : j \in 1..Len(s)}
Distinct(s) == \A i, j \in 1..Len(s) : s[i] = s[j] => i = j

\* Of a sequence without repetition exactly one element is removed.
LEMMA RemoveDistinct ==
  ASSUME NEW S, NEW s \in Seq(S), NEW n \in 1..Len(s), Distinct(s)
  PROVE  /\ Distinct(RemoveAt(s, n))
         /\ Elements(RemoveAt(s, n)) = Elements(s) \ {s[n]}
<1> DEFINE t == RemoveAt(s, n)
<1>1. /\ Len(s) \in Nat /\ Len(t) = Len(s) - 1
      /\ \A j \in 1..Len(t) : t[j] = IF j < n THEN s[j] ELSE s[j + 1]
  BY RemoveAtFacts
<1> HIDE DEF t
<1>2. Distinct(t)
  <2> SUFFICES ASSUME NEW i \in 1..Len(t), NEW j \in 1..Len(t), t[i] = t[j]
               PROVE  i = j
    BY DEF Distinct
  <2> DEFINE p(x) == IF x < n THEN x ELSE x + 1
  <2>1. p(i) \in 1..Len(s) /\ p(j) \in 1..Len(s)
    BY <1>1
  <2>2. t[i] = s[p(i)] /\ t[j] = s[p(j)]
    BY <1>1
  <2>3. p(i) = p(j) => i = j
    BY <1>1
  <2> HIDE DEF p
  <2> QED
    BY <2>1, <2>2, <2>3 DEF Distinct
<1>3. ASSUME NEW j \in 1..Len(s), j # n
      PROVE  \E l \in 1..Len(t) : t[l] = s[j]
  <2>1. CASE j < n
    <3>1. j \in 1..Len(t) /\ t[j] = s[j]
      BY <1>1, <2>1
    <3> QED
      BY <3>1
  <2>2. CASE j > n
    <3>1. j - 1 \in 1..Len(t) /\ ~ (j - 1 < n) /\ (j - 1) + 1 = j
      BY <1>1, <2>2
    <3>2. t[j - 1] = s[j]
      BY <1>1, <3>1
    <3> QED
      BY <3>1, <3>2
  <2> QED
    BY <1>1, <1>3, <2>1, <2>2
<1>4. ASSUME NEW j \in 1..Len(t)
      PROVE  \E l \in 1..Len(s) : l # n /\ t[j] = s[l]
  <2>1. CASE j < n
    <3>1. j \in 1..Len(s) /\ j # n /\ t[j] = s[j]
      BY <1>1, <2>1
    <3> QED
      BY <3>1
  <2>2. CASE ~ (j < n)
    <3>1. j + 1 \in 1..Len(s) /\ j + 1 # n /\ t[j] = s[j + 1]
      BY <1>1, <2>2
    <3> QED
      BY <3>1
  <2> QED
    BY <2>1, <2>2
<1>5. \A j \in 1..Len(s) : j # n => s[j] # s[n]
  BY DEF Distinct
<1>6. Elements(t) \subseteq Elements(s) \ {s[n]}
  BY <1>4, <1>5 DEF Elements
<1>7. Elements(s) \ {s[n]} \subseteq Elements(t)
  BY <1>3 DEF Elements
<1>8. Elements(t) = Elements(s) \ {s[n]}
  BY <1>6, <1>7
<1> QED
  BY <1>2, <1>8 DEF t

\* A new element at the end of a sequence without repetition.
LEMMA AppendDistinct ==
  ASSUME NEW S, NEW s \in Seq(S), NEW x \in S, Distinct(s), x \notin Elements(s)
  PROVE  /\ Append(s, x) \in Seq(S) /\ Len(Append(s, x)) = Len(s) + 1
         /\ Distinct(Append(s, x))
         /\ Elements(Append(s, x)) = Elements(s) \cup {x}
<1> DEFINE t == Append(s, x)
<1>1. /\ t \in Seq(S) /\ Len(s) \in Nat /\ Len(t) = Len(s) + 1
      /\ \A j \in 1..Len(s) : t[j] = s[j] /\ s[j] # x
      /\ t[Len(t)] = x
  BY DEF Elements
<1>2. 1..Len(t) = 1..Len(s) \cup {Len(t)}
  BY <1>1
<1> HIDE DEF t
<1>3. Distinct(t)
  BY <1>1, <1>2 DEF Distinct
<1>4. Elements(t) = Elements(s) \cup {x}
  BY <1>1, <1>2 DEF Elements
<1> QED
  BY <1>1, <1>3, <1>4 DEF t

-----------------------------------------------------------------------------
\* Types and mirror, which are inductive together.
Inv == TypeOK /\ Mirrors

\* The mirror in terms of elements.
LEMMA MirrorFacts == Mirrors <=> mfc = Elements(routes) /\ Distinct(routes)
BY DEF Mirrors, Elements, Distinct

\* The daemon starts with an empty list and an empty cache.
LEMMA RoutingInit == Init => Inv
BY DEF Init, Inv, TypeOK, Mirrors

\* The removal of routes[at] and of its entry in the kernel keep the list and
\* the kernel in step.
LEMMA DeleteMirrors ==
  ASSUME Inv, DeleteRoute
  PROVE  Inv'
<1>1. routes \in Seq(Route) /\ at \in 1..Len(routes) /\ Len(routes) \in Nat
  BY DEF Inv, TypeOK, DeleteRoute
<1>2. /\ routes' = RemoveAt(routes, at) /\ mfc' = mfc \ {routes[at]}
      /\ routes' \in Seq(Route) /\ Len(routes') = Len(routes) - 1
  BY <1>1, RemoveAtFacts DEF DeleteRoute
<1>3. TypeOK'
  BY <1>1, <1>2 DEF Inv, TypeOK, DeleteRoute
<1>4. mfc = Elements(routes) /\ Distinct(routes)
  BY MirrorFacts DEF Inv
<1>5. mfc' = Elements(routes') /\ Distinct(routes')
  BY <1>1, <1>2, <1>4, RemoveDistinct
<1>6. Mirrors'
  BY <1>5 DEF Mirrors, Elements, Distinct
<1> QED
  BY <1>3, <1>6 DEF Inv

\* Saving a route that is not on the list keeps them in step as well.
LEMMA AddMirrors ==
  ASSUME Inv, HandleSocket
  PROVE  Inv'
<1> DEFINE u == Head(upcalls)
<1>1. /\ routes \in Seq(Route) /\ Len(routes) \in Nat /\ mfc \subseteq Route
      /\ upcalls \in Seq([mif : Mif, route : Route]) /\ upcalls # <<>>
      /\ upcalls' = Tail(upcalls) /\ at = 0 /\ UNCHANGED <<wanted, at, passes>>
      /\ AddRoute(u) \/ IgnoreUpcall(u)
  BY DEF Inv, TypeOK, HandleSocket
<1>2. u \in [mif : Mif, route : Route] /\ upcalls' \in Seq([mif : Mif, route : Route])
  BY <1>1, HeadTailProperties
<1> HIDE DEF u
<1>3. CASE IgnoreUpcall(u)
  BY <1>1, <1>2, <1>3 DEF IgnoreUpcall, Inv, TypeOK, Mirrors
<1>4. CASE AddRoute(u) /\ have_route(u.route)
  <2>1. u.route \in mfc
    BY <1>4 DEF Inv, Mirrors, have_route
  <2>2. UNCHANGED <<mfc, routes>>
    BY <1>4, <2>1 DEF AddRoute
  <2> QED
    BY <1>1, <1>2, <2>2 DEF Inv, TypeOK, Mirrors
<1>5. CASE AddRoute(u) /\ ~ have_route(u.route)
  <2>1. routes' = Append(routes, u.route) /\ mfc' = mfc \cup {u.route}
    BY <1>5 DEF AddRoute, save_route
  <2>2. u.route \in Route /\ u.route \notin Elements(routes)
    BY <1>2, <1>5 DEF have_route, Elements
  <2>3. mfc = Elements(routes) /\ Distinct(routes)
    BY MirrorFacts DEF Inv
  <2>4. /\ routes' \in Seq(Route) /\ Len(routes') = Len(routes) + 1
        /\ Distinct(routes') /\ mfc' = Elements(routes')
    BY <1>1, <2>1, <2>2, <2>3, AppendDistinct
  <2>5. TypeOK'
    BY <1>1, <1>2, <2>1, <2>2, <2>4 DEF Inv, TypeOK
  <2>6. Mirrors'
    BY <2>4 DEF Mirrors, Elements, Distinct
  <2> QED
    BY <2>5, <2>6 DEF Inv
<1> QED
  BY <1>1, <1>3, <1>4, <1>5

\* Every step of kernel forwarding keeps types and mirror.
LEMMA RoutingStep == Inv /\ [Next]_vars => Inv'
<1> SUFFICES ASSUME Inv, [Next]_vars
             PROVE  Inv'
  OBVIOUS
<1>1. routes \in Seq(Route) /\ Len(routes) \in Nat
  BY DEF Inv, TypeOK
<1>2. ASSUME NEW w \in SUBSET Route, Report(w) \/ Expire(w) \/ Lapse(w)
      PROVE  Inv'
  BY <1>1, <1>2 DEF Report, Expire, Lapse, Inv, TypeOK, Mirrors
<1>3. ASSUME NEW mif \in Mif, NEW r \in Route, Upcall(mif, r)
      PROVE  Inv'
  <2>1. upcalls' \in Seq([mif : Mif, route : Route])
    BY <1>3 DEF Upcall, Inv, TypeOK
  <2> QED
    BY <1>3, <2>1 DEF Upcall, Inv, TypeOK, Mirrors
<1>4. CASE KeepRoute
  BY <1>1, <1>4 DEF KeepRoute, Inv, TypeOK, Mirrors
<1>5. CASE EndPass
  BY <1>1, <1>5 DEF EndPass, Inv, TypeOK, Mirrors
<1>6. CASE UNCHANGED vars
  BY <1>6 DEF vars, Inv, TypeOK, Mirrors
<1> QED
  BY <1>2, <1>3, <1>4, <1>5, <1>6, AddMirrors, DeleteMirrors
  DEF Next, Activity, expire_routes

\* The list routes and the kernel's cache never come apart, whatever the kernel
\* asks and whatever the memberships do: every route the kernel has is on the
\* list once, where expire_routes will find it.
THEOREM RoutesMirrorKernel == Spec => [](TypeOK /\ Mirrors)
<1>1. Spec => []Inv
  BY RoutingInit, RoutingStep, PTL DEF Spec
<1> QED
  BY <1>1, PTL DEF Inv

\* The place of expire_routes in the list is a node of it or its end, for any set
\* of streams, also after it deleted one.
THEOREM RoutingTypeCorrect == Spec => []TypeOK
BY RoutesMirrorKernel, PTL

\* Upcalls and passes implement the abstract cache (its safety part): what is
\* added is wanted, what is deleted is not.
THEOREM RoutingRefinesCache == Spec => Cache!Spec
<1>1. Init => Cache!Init
  BY DEF Init, Cache!Init
<1>2. Inv /\ [Next]_vars => [Cache!Next]_(Cache!vars)
  <2> SUFFICES ASSUME Inv, [Next]_vars
               PROVE  [Cache!Next]_(Cache!vars)
    OBVIOUS
  <2>1. ASSUME NEW w \in SUBSET Route, Report(w) \/ Expire(w) \/ Lapse(w)
        PROVE  Cache!Change
    BY <2>1 DEF Report, Expire, Lapse, Cache!Change
  <2>2. CASE HandleSocket
    <3> DEFINE u == Head(upcalls)
    <3>1. u.route \in Route
      <4>1. upcalls \in Seq([mif : Mif, route : Route]) /\ upcalls # <<>>
        BY <2>2 DEF HandleSocket, Inv, TypeOK
      <4>2. u \in [mif : Mif, route : Route]
        BY <4>1, HeadTailProperties
      <4> HIDE DEF u
      <4> QED
        BY <4>2
    <3>2. AddRoute(u) \/ IgnoreUpcall(u)
      BY <2>2 DEF HandleSocket
    <3>3. wanted' = wanted
      BY <2>2 DEF HandleSocket
    <3> HIDE DEF u
    <3>4. CASE AddRoute(u)
      BY <3>1, <3>3, <3>4 DEF AddRoute, Cache!Next, Cache!Add
    <3>5. CASE IgnoreUpcall(u)
      BY <3>3, <3>5 DEF IgnoreUpcall, Cache!vars
    <3> QED
      BY <3>2, <3>4, <3>5
  <2>3. CASE DeleteRoute
    <3>1. routes[at] \in Route /\ routes[at] \in mfc
      BY <2>3 DEF DeleteRoute, Inv, TypeOK, Mirrors
    <3>2. Cache!Remove(routes[at])
      BY <2>3, <3>1 DEF DeleteRoute, Cache!Remove
    <3> QED
      BY <3>1, <3>2 DEF Cache!Next
  <2>4. CASE KeepRoute \/ EndPass \/ UNCHANGED vars
    BY <2>4 DEF KeepRoute, EndPass, vars, Cache!vars
  <2>5. ASSUME NEW mif, NEW r, Upcall(mif, r)
        PROVE  UNCHANGED Cache!vars
    BY <2>5 DEF Upcall, Cache!vars
  <2> QED
    BY <2>1, <2>2, <2>3, <2>4, <2>5 DEF Next, Activity, expire_routes, Cache!Next
<1>3. Spec => []Inv
  BY RoutingInit, RoutingStep, PTL DEF Spec
<1> QED
  BY <1>1, <1>2, <1>3, PTL DEF Spec, Cache!Spec
=============================================================================
