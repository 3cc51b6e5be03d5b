--------------------------- MODULE CampaignProofs ---------------------------
(***************************************************************************)
(* Proofs about the patrol and the security graph, for any number of       *)
(* surfaces and conditions, any assessment, any graph and any depth, and   *)
(* about the firm's assessments, for any number of calls, snapshots and    *)
(* targets.                                                                *)
(*                                                                         *)
(* The path query is a recursive function of the depth.  Nothing here      *)
(* takes an operator as a parameter: the induction is over a set of        *)
(* depths, from the least depth that is not in it.                         *)
(***************************************************************************)
EXTENDS Campaign, FirmAssessment, WellFoundedInduction, TLAPS

(* Induction over a set of numbers *)

\* A set of numbers up to N that has zero, and the successor of each of its
\* elements, has all of them.
LEMMA UpTo ==
    ASSUME NEW N \in Nat, NEW T, 0 \in T, \A n \in 1..N : n - 1 \in T => n \in T
    PROVE  \A n \in 0..N : n \in T
<1> DEFINE R == {ss \in Nat \X Nat : ss[1] < ss[2]}
           U == {n \in 0..N : n \notin T}
<1> SUFFICES ASSUME U # {} PROVE FALSE
  OBVIOUS
<1>1. IsWellFoundedOn(R, Nat)
  BY NatLessThanWellFounded, Zenon DEF OpToRel
<1>2. U \in SUBSET Nat
  OBVIOUS
<1> HIDE DEF R
<1>3. PICK m \in U : \A k \in U : ~(<<k, m>> \in R)
  BY <1>1, <1>2, WFMin
<1>4. m \in 1..N /\ m - 1 \in 0..N /\ m \in Nat /\ m - 1 \in Nat /\ m - 1 < m
  OBVIOUS
<1>5. m - 1 \in U
  BY <1>4
<1>6. <<m - 1, m>> \in Nat \X Nat /\ <<m - 1, m>>[1] = m - 1 /\ <<m - 1, m>>[2] = m
  BY <1>4
<1>7. <<m - 1, m>> \in R
  BY <1>4, <1>6, Zenon DEF R
<1> QED
  BY <1>3, <1>5, <1>7

-----------------------------------------------------------------------------
(* The path query *)

\* The nodes queued one depth after the nodes of X.
After(g, X, d) == UNION {Targets(g, n) : n \in X \ (IF d = 1 THEN {} ELSE g.ends)}

\* The equations of the breadth-first loop up to depth n.
IsFrontier(g, s, n, h) == h = [d \in 0..n |-> IF d = 0 THEN {s} ELSE After(g, h[d - 1], d)]

\* They have a solution at every depth.
LEMMA FrontierExists ==
    ASSUME NEW g, NEW s, NEW N \in Nat
    PROVE  \E h : IsFrontier(g, s, N, h)
<1> DEFINE T == {n \in 0..N : \E h : IsFrontier(g, s, n, h)}
<1>1. 0 \in T
  <2>1. IsFrontier(g, s, 0, [d \in 0..0 |-> {s}])
    BY DEF IsFrontier
  <2> QED
    BY <2>1
<1>2. ASSUME NEW n \in 1..N, n - 1 \in T
      PROVE  n \in T
  <2>1. PICK h : IsFrontier(g, s, n - 1, h)
    BY <1>2
  <2> DEFINE k == [d \in 0..n |-> IF d = n THEN After(g, h[n - 1], n) ELSE h[d]]
  <2>2. ASSUME NEW d \in 0..n
        PROVE  k[d] = IF d = 0 THEN {s} ELSE After(g, k[d - 1], d)
    <3>1. CASE d = n
      <4>1. k[d] = After(g, h[n - 1], n) /\ k[n - 1] = h[n - 1] /\ d # 0
        BY <3>1
      <4> QED
        BY <3>1, <4>1
    <3>2. CASE d # n /\ d # 0
      <4>1. d \in 0..(n - 1) /\ d - 1 \in 0..n /\ d - 1 # n
        BY <3>2
      <4>2. h[d] = After(g, h[d - 1], d)
        BY <2>1, <3>2, <4>1 DEF IsFrontier
      <4>3. k[d] = h[d] /\ k[d - 1] = h[d - 1]
        BY <3>2, <4>1
      <4> QED
        BY <3>2, <4>2, <4>3
    <3>3. CASE d = 0
      <4>1. 0 \in 0..(n - 1) /\ n # 0
        OBVIOUS
      <4>2. h[0] = {s}
        BY <2>1, <4>1 DEF IsFrontier
      <4> QED
        BY <3>3, <4>1, <4>2
    <3> QED
      BY <3>1, <3>2, <3>3
  <2>3. k = [d \in 0..n |-> k[d]]
    OBVIOUS
  <2> HIDE DEF k
  <2>4. IsFrontier(g, s, n, k)
    BY <2>2, <2>3 DEF IsFrontier
  <2> QED
    BY <2>4
<1> HIDE DEF T
<1>3. \A n \in 0..N : n \in T
  BY <1>1, <1>2, UpTo
<1> QED
  BY <1>3 DEF T

\* paths_between: what the loop queues at each depth.
LEMMA FrontierEquations ==
    ASSUME NEW g, NEW s
    PROVE  /\ Frontier(g, s)[0] = {s}
           /\ \A d \in 1..MaxDepth : Frontier(g, s)[d] = After(g, Frontier(g, s)[d - 1], d)
<1> DEFINE f == Frontier(g, s)
<1>1. f = CHOOSE h : IsFrontier(g, s, MaxDepth, h)
  BY DEF Frontier, IsFrontier, After
<1>2. \E h : IsFrontier(g, s, MaxDepth, h)
  BY FrontierExists, GraphAssumption
<1>3. IsFrontier(g, s, MaxDepth, f)
  BY <1>1, <1>2
<1> HIDE DEF f
<1>4. f[0] = {s} /\ \A d \in 1..MaxDepth : f[d] = After(g, f[d - 1], d)
  <2> DEFINE b == [d \in 0..MaxDepth |-> IF d = 0 THEN {s} ELSE After(g, f[d - 1], d)]
  <2>1. f = b
    BY <1>3 DEF IsFrontier
  <2>2. \A d \in 0..MaxDepth : b[d] = IF d = 0 THEN {s} ELSE After(g, f[d - 1], d)
    OBVIOUS
  <2>3. 0 \in 0..MaxDepth /\ \A d \in 1..MaxDepth : d \in 0..MaxDepth /\ d # 0
    BY GraphAssumption
  <2> HIDE DEF b
  <2>4. \A d \in 0..MaxDepth : f[d] = IF d = 0 THEN {s} ELSE After(g, f[d - 1], d)
    <3> SUFFICES ASSUME NEW d \in 0..MaxDepth
                 PROVE  f[d] = IF d = 0 THEN {s} ELSE After(g, f[d - 1], d)
      OBVIOUS
    <3>1. f[d] = b[d]
      BY <2>1, Zenon
    <3> QED
      BY <2>2, <3>1, Zenon
  <2> QED
    BY <2>3, <2>4
<1> QED
  BY <1>4 DEF f

\* A walk of n edges from s, of which the property's Walks tells the end.
IsWalk(g, s, e, n, w) ==
    /\ w \in [0..n -> g.nodes]
    /\ w[0] = s /\ w[n] = e
    /\ \A i \in 1..n : <<w[i - 1], w[i]>> \in g.edges
    /\ \A i \in 1..(n - 1) : w[i] \notin g.ends

\* A walk goes on to a neighbour, unless it stands on an end other than its
\* start.
LEMMA LongerWalk ==
    ASSUME NEW g, ValidGraph(g), NEW s, NEW n \in Nat \ {0}, NEW m \in g.nodes, NEW e \in g.nodes,
           Walks(g, s, m, n - 1), <<m, e>> \in g.edges, n = 1 \/ m \notin g.ends
    PROVE  Walks(g, s, e, n)
<1>1. PICK v \in [0..(n - 1) -> g.nodes] : IsWalk(g, s, m, n - 1, v)
  BY DEF Walks, IsWalk
<1> DEFINE w == [i \in 0..n |-> IF i = n THEN e ELSE v[i]]
<1>2. n - 1 \in Nat /\ n - 1 \in 0..(n - 1) /\ 0 \in 0..(n - 1)
  OBVIOUS
<1>3. w \in [0..n -> g.nodes] /\ w[n] = e /\ \A i \in 0..(n - 1) : w[i] = v[i]
  OBVIOUS
<1> HIDE DEF w
<1>4. w[0] = s /\ w[n - 1] = m
  BY <1>1, <1>2, <1>3 DEF IsWalk
<1>5. ASSUME NEW i \in 1..n
      PROVE  <<w[i - 1], w[i]>> \in g.edges
  <2>1. CASE i = n
    BY <1>3, <1>4, <2>1
  <2>2. CASE i # n
    <3>1. i \in 1..(n - 1) /\ i \in 0..(n - 1) /\ i - 1 \in 0..(n - 1)
      BY <2>2
    <3>2. w[i] = v[i] /\ w[i - 1] = v[i - 1]
      BY <1>3, <3>1
    <3> QED
      BY <1>1, <3>1, <3>2 DEF IsWalk
  <2> QED
    BY <2>1, <2>2
<1>6. ASSUME NEW i \in 1..(n - 1)
      PROVE  w[i] \notin g.ends
  <2>1. CASE i = n - 1
    BY <1>4, <1>6, <2>1
  <2>2. CASE i # n - 1
    <3>1. i \in 1..((n - 1) - 1) /\ i \in 0..(n - 1)
      BY <2>2
    <3> QED
      BY <1>1, <1>3, <3>1 DEF IsWalk
  <2> QED
    BY <2>1, <2>2
<1> QED
  BY <1>3, <1>4, <1>5, <1>6 DEF Walks

\* A walk without its last edge.
LEMMA ShorterWalk ==
    ASSUME NEW g, NEW s, NEW n \in Nat \ {0}, NEW e, Walks(g, s, e, n)
    PROVE  \E m \in g.nodes : Walks(g, s, m, n - 1) /\ <<m, e>> \in g.edges /\ (n = 1 \/ m \notin g.ends)
<1>1. PICK w \in [0..n -> g.nodes] : IsWalk(g, s, e, n, w)
  BY DEF Walks, IsWalk
<1> DEFINE v == [i \in 0..(n - 1) |-> w[i]]
           m == w[n - 1]
<1>2. /\ n - 1 \in 0..n /\ n - 1 \in 0..(n - 1) /\ 0 \in 0..(n - 1) /\ n \in 1..n
      /\ n = 1 \/ n - 1 \in 1..(n - 1)
      /\ \A i \in 1..(n - 1) : i \in 1..n /\ i \in 0..(n - 1) /\ i - 1 \in 0..(n - 1)
      /\ \A i \in 1..((n - 1) - 1) : i \in 1..(n - 1)
      /\ \A i \in 0..(n - 1) : i \in 0..n
  OBVIOUS
<1>3. v \in [0..(n - 1) -> g.nodes] /\ \A i \in 0..(n - 1) : v[i] = w[i]
  BY <1>2
<1>4. m \in g.nodes /\ <<m, e>> \in g.edges /\ (n = 1 \/ m \notin g.ends)
  BY <1>1, <1>2 DEF IsWalk
<1> HIDE DEF v, m
<1>5. v[0] = s /\ v[n - 1] = m
  BY <1>1, <1>2, <1>3 DEF IsWalk, m
<1>6. \A i \in 1..(n - 1) : <<v[i - 1], v[i]>> \in g.edges
  BY <1>1, <1>2, <1>3 DEF IsWalk
<1>7. \A i \in 1..((n - 1) - 1) : v[i] \notin g.ends
  BY <1>1, <1>2, <1>3 DEF IsWalk
<1>8. Walks(g, s, m, n - 1)
  BY <1>3, <1>5, <1>6, <1>7 DEF Walks
<1> QED
  BY <1>4, <1>8

\* The breadth-first loop has at depth n exactly the nodes at the end of a walk
\* of n edges.
LEMMA FrontierIsWalks ==
    ASSUME NEW g, ValidGraph(g), NEW s \in g.nodes
    PROVE  \A n \in 0..MaxDepth : Frontier(g, s)[n] = {e \in g.nodes : Walks(g, s, e, n)}
<1> DEFINE f    == Frontier(g, s)
           W(n) == {e \in g.nodes : Walks(g, s, e, n)}
           T    == {n \in 0..MaxDepth : f[n] = W(n)}
<1>e. f[0] = {s} /\ \A d \in 1..MaxDepth : f[d] = After(g, f[d - 1], d)
  BY FrontierEquations, Zenon
<1> HIDE DEF f
<1>1. 0 \in T
  <2>1. ASSUME NEW e \in g.nodes
        PROVE  Walks(g, s, e, 0) <=> e = s
    <3>1. Walks(g, s, e, 0) => e = s
      BY DEF Walks
    <3>2. ASSUME e = s
          PROVE  Walks(g, s, e, 0)
      <4> DEFINE w == [i \in 0..0 |-> s]
      <4>1. w \in [0..0 -> g.nodes] /\ w[0] = s /\ 1..0 = {} /\ 1..(0 - 1) = {}
        OBVIOUS
      <4> QED
        BY <3>2, <4>1 DEF Walks
    <3> QED
      BY <3>1, <3>2
  <2>2. W(0) = {s}
    BY <2>1
  <2> QED
    BY <1>e, <2>2, GraphAssumption
<1>2. ASSUME NEW n \in 1..MaxDepth, n - 1 \in T
      PROVE  n \in T
  <2>1. f[n - 1] = W(n - 1) /\ f[n] = After(g, f[n - 1], n) /\ n \in Nat \ {0} /\ n \in 0..MaxDepth
    BY <1>2, <1>e, GraphAssumption
  <2>2. ASSUME NEW e \in After(g, W(n - 1), n)
        PROVE  e \in W(n)
    <3>1. PICK m \in g.nodes : /\ Walks(g, s, m, n - 1) /\ e \in Targets(g, m)
                               /\ n = 1 \/ m \notin g.ends
      BY <2>2 DEF After
    <3>2. e \in g.nodes /\ <<m, e>> \in g.edges
      BY <3>1 DEF Targets
    <3> QED
      BY <2>1, <3>1, <3>2, LongerWalk
  <2>3. ASSUME NEW e \in W(n)
        PROVE  e \in After(g, W(n - 1), n)
    <3>1. PICK m \in g.nodes : Walks(g, s, m, n - 1) /\ <<m, e>> \in g.edges /\ (n = 1 \/ m \notin g.ends)
      BY <2>1, <2>3, ShorterWalk
    <3>2. e \in Targets(g, m)
      BY <2>3, <3>1 DEF Targets
    <3> QED
      BY <3>1, <3>2 DEF After
  <2>4. After(g, W(n - 1), n) = W(n)
    BY <2>2, <2>3
  <2> HIDE DEF W
  <2> QED
    BY <2>1, <2>4
<1> HIDE DEF T
<1>3. \A n \in 0..MaxDepth : n \in T
  BY <1>1, <1>2, UpTo, GraphAssumption
<1> QED
  BY <1>3 DEF T, f

\* paths_between answers for every graph that can be saved.
LEMMA QueryIsExact ==
    ASSUME NEW g \in Graphs, NEW s \in g.starts, NEW e \in g.ends, NEW n \in 1..MaxDepth
    PROVE  Walks(g, s, e, n) <=> <<s, e, n>> \in PathsBetween(g)
<1>1. ValidGraph(g) /\ s \in g.nodes /\ e \in g.nodes /\ n \in 0..MaxDepth
  BY GraphAssumption DEF ValidGraph
<1>2. Frontier(g, s)[n] = {x \in g.nodes : Walks(g, s, x, n)}
  BY <1>1, FrontierIsWalks
<1>3. <<s, e, n>> \in PathsBetween(g) <=> e \in Frontier(g, s)[n]
  <2> DEFINE p == <<s, e, n>>
  <2>1. p \in g.starts \X g.ends \X (1..MaxDepth) /\ p[1] = s /\ p[2] = e /\ p[3] = n
    OBVIOUS
  <2> HIDE DEF p
  <2>2. p \in PathsBetween(g) <=> p[2] \in Frontier(g, p[1])[p[3]]
    BY <2>1 DEF PathsBetween
  <2> QED
    BY <2>1, <2>2 DEF p
<1> QED
  BY <1>1, <1>2, <1>3

-----------------------------------------------------------------------------
(* The patrol *)

\* What the store says of a condition follows a snapshot.
Follows(c, snapshot) ==
    /\ c \in Adjudicated(snapshot, SurfaceOf[c]) => findings[c] \in Unresolved
    /\ snapshot[SurfaceOf[c]] = Absent /\ Candidates(snapshot, SurfaceOf[c]) = {}
         => findings[c] \notin Unresolved

\* While a run that raised waits to be repeated, what has not changed since
\* the baseline is as it was.
PatrolInv ==
    /\ TypeOK
    /\ \A c \in Conditions :
         SurfaceOf[c] \in looked /\ (~retry \/ baseline[SurfaceOf[c]] = current[SurfaceOf[c]])
           => Follows(c, baseline)

\* diff_snapshots: a surface that says the same has no delta, and only a key
\* that is gone, of which there is no candidate, is RESOLVED.
LEMMA DeltaStates ==
    ASSUME NEW s \in Surfaces
    PROVE  /\ baseline[s] = current[s] => DeltaState(s) = "UNCHANGED"
           /\ DeltaState(s) \in {"UNCHANGED", "NEW", "CHANGED", "RESOLVED"}
           /\ DeltaState(s) = "RESOLVED" => current[s] = Absent /\ Candidates(current, s) = {}
           /\ DeltaState(s) = "NEW" => current[s] # Absent
<1>1. s \in Surfaces \ Wholes => DOMAIN Assess[s, Absent] = {}
  BY PatrolAssumption, Zenon
<1> QED
  BY <1>1 DEF DeltaState, KeyDelta, Get, Candidates

\* Conditions are about surfaces, which are numbers.
LEMMA SurfacesAreNumbered ==
    /\ NSurfaces \in Nat
    /\ \A c \in Conditions : SurfaceOf[c] \in Surfaces /\ SurfaceOf[c] \in Nat /\ SurfaceOf[c] <= NSurfaces
<1>1. NSurfaces \in Nat /\ SurfaceOf \in [Conditions -> Surfaces]
  BY PatrolAssumption, Zenon
<1> QED
  BY <1>1 DEF Surfaces

\* upsert, resolve_surface: what a delta does to a finding, done twice, is what
\* it does once.
LEMMA TreatedOnce ==
    ASSUME NEW c \in Conditions, NEW x
    PROVE  Resolved(Resolved(x)) = Resolved(x) /\ Reassessed(c, Reassessed(c, x)) = Reassessed(c, x)
<1>1. \A y : Resolved(Resolved(y)) = Resolved(y)
  BY DEF Resolved, Unresolved
<1> QED
  BY <1>1 DEF Reassessed

\* run: what the loop has done of a store up to surface k, by condition.
LEMMA PatrolledAt ==
    ASSUME NEW c \in Conditions, NEW k \in Nat, NEW store
    PROVE  Patrolled(store, k)[c] =
             IF SurfaceOf[c] > k \/ DeltaState(SurfaceOf[c]) = "UNCHANGED" THEN store[c]
             ELSE IF DeltaState(SurfaceOf[c]) = "RESOLVED" THEN Resolved(store[c])
             ELSE Reassessed(c, store[c])
<1> DEFINE s == SurfaceOf[c]
           u == store[c]
           v == Resolved(store[c])
           r == Reassessed(c, store[c])
           d == DeltaState(s)
<1>1. s \in Nat
  BY SurfacesAreNumbered
<1>2. Patrolled(store, k)[c] = CASE s > k \/ d = "UNCHANGED" -> u
                                 [] s =< k /\ d = "RESOLVED" -> v
                                 [] OTHER -> r
  BY DEF Patrolled
<1> HIDE DEF s, u, v, r, d
<1>3. (CASE s > k \/ d = "UNCHANGED" -> u [] s =< k /\ d = "RESOLVED" -> v [] OTHER -> r)
        = IF s > k \/ d = "UNCHANGED" THEN u ELSE IF d = "RESOLVED" THEN v ELSE r
  BY <1>1
<1> QED
  BY <1>2, <1>3 DEF s, u, v, r, d

\* run, repeated after it raised anywhere, on any store.
LEMMA RepeatedRun ==
    ASSUME NEW k \in 0..NSurfaces, NEW store
    PROVE  Patrolled(Patrolled(store, k), NSurfaces) = Patrolled(store, NSurfaces)
<1> DEFINE once == Patrolled(store, k)
<1>n. k \in Nat /\ NSurfaces \in Nat /\ k <= NSurfaces
  BY SurfacesAreNumbered
<1>1. ASSUME NEW c \in Conditions
      PROVE  Patrolled(once, NSurfaces)[c] = Patrolled(store, NSurfaces)[c]
  <2>1. SurfaceOf[c] \in Nat /\ SurfaceOf[c] <= NSurfaces
    BY SurfacesAreNumbered
  <2>2. once[c] = IF SurfaceOf[c] > k \/ DeltaState(SurfaceOf[c]) = "UNCHANGED" THEN store[c]
                  ELSE IF DeltaState(SurfaceOf[c]) = "RESOLVED" THEN Resolved(store[c])
                  ELSE Reassessed(c, store[c])
    BY <1>n, PatrolledAt
  <2>3. \A x : Patrolled(x, NSurfaces)[c] =
                 IF SurfaceOf[c] > NSurfaces \/ DeltaState(SurfaceOf[c]) = "UNCHANGED" THEN x[c]
                 ELSE IF DeltaState(SurfaceOf[c]) = "RESOLVED" THEN Resolved(x[c])
                 ELSE Reassessed(c, x[c])
    BY <1>n, PatrolledAt
  <2> HIDE DEF once
  <2> QED
    BY <1>n, <2>1, <2>2, <2>3, TreatedOnce
<1>2. \A x : Patrolled(x, NSurfaces) = [c \in Conditions |-> Patrolled(x, NSurfaces)[c]]
  BY DEF Patrolled
<1> HIDE DEF once
<1>3. Patrolled(once, NSurfaces) = Patrolled(store, NSurfaces)
  BY <1>1, <1>2
<1> QED
  BY <1>3 DEF once

\* A store that has been patrolled keeps its type.
LEMMA PatrolledType ==
    ASSUME NEW k \in Nat, NEW store \in [Conditions -> FindingStates \cup {None}]
    PROVE  Patrolled(store, k) \in [Conditions -> FindingStates \cup {None}]
<1>1. ASSUME NEW c \in Conditions
      PROVE  Patrolled(store, k)[c] \in FindingStates \cup {None}
  <2>1. store[c] \in FindingStates \cup {None}
    OBVIOUS
  <2>2. Resolved(store[c]) \in FindingStates \cup {None} /\ Reassessed(c, store[c]) \in FindingStates \cup {None}
    BY <2>1 DEF Resolved, Reassessed, FindingStates
  <2> QED
    BY <2>1, <2>2, PatrolledAt
<1>2. Patrolled(store, k) = [c \in Conditions |-> Patrolled(store, k)[c]]
  BY DEF Patrolled
<1> QED
  BY <1>1, <1>2

\* One step of the campaign and the invariant.
LEMMA PatrolStep ==
    ASSUME PatrolInv, [Next]_vars
    PROVE  PatrolInv'
<1>t. PatrolTypeOK /\ GraphTypeOK /\ NSurfaces \in Nat
  BY PatrolAssumption DEF PatrolInv, TypeOK
<1>s. \A c \in Conditions : SurfaceOf[c] \in Surfaces /\ SurfaceOf[c] \in Nat /\ SurfaceOf[c] <= NSurfaces
  BY SurfacesAreNumbered
<1>1. ASSUME NEW t \in Snapshots, Observe(t), UNCHANGED graphs
      PROVE  PatrolInv'
  <2>1. TypeOK'
    BY <1>1, <1>t DEF Observe, TypeOK, PatrolTypeOK, GraphTypeOK
  <2> QED
    BY <1>1, <2>1 DEF Observe, PatrolInv, Follows, Adjudicated, Candidates
<1>2. CASE Run /\ UNCHANGED graphs
  <2>1. TypeOK'
    BY <1>2, <1>t, PatrolledType DEF Run, TypeOK, PatrolTypeOK, GraphTypeOK
  <2>2. ASSUME NEW c \in Conditions, SurfaceOf[c] \in looked'
        PROVE  Follows(c, baseline)'
    <3> DEFINE s == SurfaceOf[c]
    <3>1. s \in Surfaces /\ ~(s > NSurfaces)
      BY <1>s, <1>t
    <3>2. findings'[c] = IF DeltaState(s) = "UNCHANGED" THEN findings[c]
                         ELSE IF DeltaState(s) = "RESOLVED" THEN Resolved(findings[c])
                         ELSE Reassessed(c, findings[c])
      BY <1>2, <1>t, <3>1, PatrolledAt DEF Run
    <3>3. /\ c \in Adjudicated(current, s) => findings'[c] \in Unresolved
          /\ current[s] = Absent /\ Candidates(current, s) = {} => findings'[c] \notin Unresolved
      <4>1. CASE DeltaState(s) = "UNCHANGED"
        <5>1. s \in looked /\ baseline[s] = current[s]
          BY <1>2, <2>2, <4>1 DEF Run
        <5>2. Follows(c, baseline)
          BY <5>1 DEF PatrolInv
        <5> QED
          BY <3>2, <4>1, <5>1, <5>2 DEF Follows, Adjudicated, Candidates
      <4>2. CASE DeltaState(s) = "RESOLVED"
        <5>1. Candidates(current, s) = {} /\ findings'[c] = Resolved(findings[c])
          BY <3>1, <3>2, <4>2, DeltaStates
        <5> QED
          BY <5>1 DEF Adjudicated, Resolved, Unresolved
      <4>3. CASE DeltaState(s) = "NEW"
        <5>1. current[s] # Absent /\ findings'[c] = Reassessed(c, findings[c])
          BY <3>1, <3>2, <4>3, DeltaStates
        <5> QED
          BY <4>3, <5>1 DEF Reassessed, Unresolved
      <4>4. CASE DeltaState(s) = "CHANGED"
        <5>1. findings'[c] = Reassessed(c, findings[c])
          BY <3>2, <4>4
        <5> QED
          BY <4>4, <5>1 DEF Reassessed, Adjudicated, Resolved, Unresolved
      <4> QED
        BY <3>1, <4>1, <4>2, <4>3, <4>4, DeltaStates
    <3>4. baseline' = current
      BY <1>2 DEF Run
    <3> QED
      BY <3>3, <3>4 DEF Follows, Adjudicated, Candidates
  <2> QED
    BY <2>1, <2>2 DEF PatrolInv
<1>3. ASSUME NEW k \in Surfaces, RunRaises(k), UNCHANGED graphs
      PROVE  PatrolInv'
  <2>1. k - 1 \in Nat
    BY <1>t DEF Surfaces
  <2>2. TypeOK'
    BY <1>3, <1>t, <2>1, PatrolledType DEF RunRaises, TypeOK, PatrolTypeOK, GraphTypeOK
  <2>3. ASSUME NEW c \in Conditions, baseline[SurfaceOf[c]] = current[SurfaceOf[c]]
        PROVE  findings'[c] = findings[c]
    <3>1. DeltaState(SurfaceOf[c]) = "UNCHANGED"
      BY <1>s, <2>3, DeltaStates
    <3>2. findings' = Patrolled(findings, k - 1)
      BY <1>3 DEF RunRaises
    <3> QED
      BY <2>1, <3>1, <3>2, PatrolledAt
  <2>4. UNCHANGED <<baseline, current, looked>> /\ retry' = TRUE
    BY <1>3 DEF RunRaises
  <2> QED
    BY <2>2, <2>3, <2>4 DEF PatrolInv, Follows, Adjudicated, Candidates
<1>4. ASSUME NEW i \in SnapshotIds, NEW p \in Scopes, NEW g \in Graphs, Save(i, p, g), UNCHANGED patrolVars
      PROVE  PatrolInv'
  <2>1. [scope |-> p, graph |-> g] \in GraphRow
    BY DEF GraphRow
  <2>2. TypeOK'
    BY <1>4, <1>t, <2>1 DEF Save, TypeOK, PatrolTypeOK, GraphTypeOK, patrolVars
  <2> QED
    BY <1>4, <2>2 DEF patrolVars, PatrolInv, Follows, Adjudicated, Candidates
<1>5. CASE UNCHANGED vars
  BY <1>5 DEF vars, patrolVars, PatrolInv, TypeOK, PatrolTypeOK, GraphTypeOK, Follows, Adjudicated, Candidates
<1> QED
  BY <1>1, <1>2, <1>3, <1>4, <1>5 DEF Next

LEMMA PatrolAlways ==
    Spec => []PatrolInv
<1>1. ASSUME Init PROVE PatrolInv
  <2>1. TypeOK
    BY <1>1 DEF Init, PatrolInit, GraphInit, TypeOK, PatrolTypeOK, GraphTypeOK
  <2>2. looked = {}
    BY <1>1 DEF Init, PatrolInit
  <2> QED
    BY <2>1, <2>2 DEF PatrolInv
<1>2. PatrolInv /\ [Next]_vars => PatrolInv'
  BY PatrolStep
<1> QED
  BY <1>1, <1>2, PTL DEF Spec

-----------------------------------------------------------------------------
\* run, upsert, resolve_surface: between runs the findings follow the patrolled
\* snapshot on every surface that came to its state through a delta, however
\* often conditions go and come back and runs raise.
THEOREM FindingsFollowTheTargetAlways ==
    Spec => []FindingsFollowTheTarget
<1>1. PatrolInv => FindingsFollowTheTarget
  BY DEF PatrolInv, FindingsFollowTheTarget, Follows
<1> QED
  BY PatrolAlways, <1>1, PTL

\* run: repeated with the same snapshots after it raised at any surface, it
\* leaves the findings of one undisturbed run.
THEOREM RunIsRepeatableAlways ==
    Spec => []RunIsRepeatable
<1>1. RunIsRepeatable
  BY RepeatedRun DEF RunIsRepeatable
<1> QED
  BY <1>1, PTL

\* paths_between: on every stored graph the query returns exactly the ends that
\* a walk within max_depth reaches first.
THEOREM QueryFindsEveryExposureAlways ==
    Spec => []QueryFindsEveryExposure
<1>1. ASSUME PatrolInv PROVE QueryFindsEveryExposure
  <2> SUFFICES ASSUME NEW i \in SnapshotIds, graphs[i] # Unsaved
               PROVE  LET g == graphs[i].graph
                      IN  \A s \in g.starts, e \in g.ends, n \in 1..MaxDepth :
                              Walks(g, s, e, n) <=> <<s, e, n>> \in PathsBetween(g)
    BY DEF QueryFindsEveryExposure
  <2>1. graphs[i].graph \in Graphs
    BY <1>1 DEF PatrolInv, TypeOK, GraphTypeOK, GraphRow
  <2> QED
    BY <2>1, QueryIsExact
<1> QED
  BY PatrolAlways, <1>1, PTL

-----------------------------------------------------------------------------
(* The firm's assessments *)

\* The services of a snapshot: they do not depend on the target or the call.
Routed(s) == Selected(ContentOf[s], ScopeNamesAgents)

\* A decided match, as the property wants it.
SoundDecision ==
    {d \in [decision : [priority : Priorities, severity : {"HIGH", "MEDIUM", "LOW"},
                        confidence : {"HIGH", "MEDIUM", "UNKNOWN"}],
            current : BOOLEAN] : d.decision.priority = "URGENT" => d.current}

\* A call works on a request, has decided soundly, and has saved rows of its
\* own services only.
SoundCall(x) ==
    /\ DOMAIN x = {"stage", "request", "feed", "stores", "decided", "seen", "saved"}
    /\ x.request \in Requests /\ x.feed \in FeedStates
    /\ x.decided \in Seq(SoundDecision)
    /\ x.saved \subseteq Routed(x.request.snapshot)

CallsInv ==
    /\ DOMAIN calls = Calls
    /\ \A c \in Calls : calls[c] # Idle => SoundCall(calls[c])

\* What is stored of a snapshot is of one assessment, by the services routed
\* for it.
RowsInv ==
    /\ DOMAIN plans \subseteq ContentIds
    /\ DOMAIN runs = {k \in ContentIds \X Services : k[1] \in DOMAIN plans /\ k[2] \in Routed(k[1])}
    /\ \A s \in DOMAIN plans : plans[s].payload.services = Routed(s)
    /\ \A k \in DOMAIN runs : runs[k] = plans[k[1]].payload
    /\ \A s \in DOMAIN plans : <<plans[s].payload.target, s>> \in profiles

\* What an assessment says of its target and its services.
LEMMA AssessmentNames ==
    ASSUME NEW t, NEW s, NEW c, NEW b, NEW a, NEW d
    PROVE  /\ Assessment(t, s, c, b, a, d).services = Selected(c, b)
           /\ Assessment(t, s, c, b, a, d).target = t
BY DEF Assessment

\* priority: urgent only where every source was fresh and the catalogue lists
\* the match.
LEMMA PriorityIsSound ==
    ASSUME NEW a, NEW feed \in FeedStates, NEW kev \in KevAnswers, NEW epss \in EpssAnswers(a)
    PROVE  [decision |-> Priority(a, Enrich(a, feed, kev, epss)),
            current  |-> /\ feed = "FRESH" /\ a.provenance # "incomplete"
                         /\ "KEV" \in Feeds => kev = [state |-> "FRESH", matched |-> TRUE]
                         /\ "EPSS" \in Feeds => epss = "FRESH"] \in SoundDecision
<1> DEFINE record == Enrich(a, feed, kev, epss)
           fresh == /\ feed = "FRESH" /\ a.provenance # "incomplete"
                    /\ "KEV" \in Feeds => kev = [state |-> "FRESH", matched |-> TRUE]
                    /\ "EPSS" \in Feeds => epss = "FRESH"
           p == Priority(a, record)
<1>1. p \in [priority : Priorities, severity : {"HIGH", "MEDIUM", "LOW"}, confidence : {"HIGH", "MEDIUM", "UNKNOWN"}]
  BY DEF Priority, Priorities
<1>2. p.priority = "URGENT" => record.kev /\ ~record.unknown /\ record.freshness = "FRESH"
  BY DEF Priority
<1>3. record.freshness = "FRESH" /\ record.kev => fresh
  <2> DEFINE states == {Effective(a, feed)}
                         \cup (IF "KEV" \in Feeds THEN {kev.state} ELSE {})
                         \cup (IF "EPSS" \in Feeds THEN {epss} ELSE {})
  <2>1. record.freshness = Freshness(states) /\ record.kev = IF "KEV" \in Feeds /\ kev.state # "UNAVAILABLE" THEN kev.matched ELSE a.kev
    BY DEF Enrich
  <2>2. Freshness(states) = "FRESH" => "UNAVAILABLE" \notin states /\ "STALE" \notin states /\ "NOT_RUN" \notin states
    BY DEF Freshness
  <2>3. Effective(a, feed) \in FeedStates /\ epss \in FeedStates /\ kev.state \in FeedStates
    BY DEF Effective, FeedStates, EpssAnswers, KevAnswers
  <2>4. Freshness(states) = "FRESH" => Effective(a, feed) = "FRESH"
                                    /\ ("KEV" \in Feeds => kev.state = "FRESH") /\ ("EPSS" \in Feeds => epss = "FRESH")
    BY <2>2, <2>3 DEF FeedStates
  <2>5. Effective(a, feed) = "FRESH" => feed = "FRESH" /\ a.provenance # "incomplete"
    BY DEF Effective
  <2>6. kev.state = "FRESH" /\ kev.matched => kev = [state |-> "FRESH", matched |-> TRUE]
    BY DEF KevAnswers
  <2> QED
    BY <2>1, <2>4, <2>5, <2>6
<1>4. fresh \in BOOLEAN
  OBVIOUS
<1> HIDE DEF p, fresh, record
<1>5. [decision |-> p, current |-> fresh] \in SoundDecision
  BY <1>1, <1>2, <1>3, <1>4 DEF SoundDecision
<1> QED
  BY <1>5 DEF p, fresh, record

\* A set of numbers that is not empty has its minimum.
LEMMA MinIsMember ==
    ASSUME NEW X \in SUBSET Nat, X # {}
    PROVE  Min(X) \in X
<1> DEFINE R == {ss \in Nat \X Nat : ss[1] < ss[2]}
<1>1. IsWellFoundedOn(R, Nat)
  BY NatLessThanWellFounded, Zenon DEF OpToRel
<1> HIDE DEF R
<1>2. PICK m \in X : \A k \in X : ~(<<k, m>> \in R)
  BY <1>1, WFMin
<1>3. ASSUME NEW k \in X PROVE m <= k
  <2>1. <<k, m>> \in Nat \X Nat /\ <<k, m>>[1] = k /\ <<k, m>>[2] = m
    OBVIOUS
  <2>2. ~(k < m)
    BY <1>2, <2>1, Zenon DEF R
  <2> QED
    BY <2>2
<1> QED
  BY <1>3 DEF Min

\* A step that moves one call, from the same request, and leaves the rows.
LEMMA CallMoves ==
    ASSUME CallsInv, NEW c \in Calls, DOMAIN calls' = Calls, \A d \in Calls \ {c} : calls'[d] = calls[d],
           calls'[c] # Idle => SoundCall(calls'[c])
    PROVE  CallsInv'
BY DEF CallsInv, SoundCall, Routed, Idle

\* A step of a call before its commit.
LEMMA CallStep ==
    ASSUME CallsInv, NEW c \in Calls,
           \/ RunServices(c) \/ Inspect(c) \/ AssessIntelligence(c)
           \/ DecideMatch(c) \/ ReturnResult(c) \/ ComposeReport(c)
           \/ ReadProfile(c) \/ FlushProfile(c) \/ ReadPlan(c) \/ FlushPlan(c)
           \/ SaveRun(c) \/ CallDies(c)
    PROVE  CallsInv' /\ UNCHANGED <<profiles, plans, runs>>
<1>1. UNCHANGED <<profiles, plans, runs>>
  BY DEF RunServices, Inspect, AssessIntelligence, Begin, DecideMatch, ReturnResult, ComposeReport,
     ReadProfile, FlushProfile, ReadPlan, FlushPlan, SaveRun, CallDies
<1>2. \E x : calls' = [calls EXCEPT ![c] = x] /\ (x # Idle => SoundCall(x))
  <2>i. Idle.stage = "idle"
    BY DEF Idle
  <2>s. calls[c].stage # "idle" => SoundCall(calls[c])
    BY <2>i DEF CallsInv
  <2>1. CASE RunServices(c) \/ Inspect(c) \/ AssessIntelligence(c)
    <3>1. PICK r \in Requests, feed \in FeedStates, stores \in BOOLEAN : Begin(c, r, feed, stores)
      BY <2>1 DEF RunServices, Inspect, AssessIntelligence, FeedStates
    <3> DEFINE x == [stage |-> "intel", request |-> r, feed |-> feed, stores |-> stores,
                     decided |-> <<>>, seen |-> Missing, saved |-> {}]
    <3>2. SoundCall(x)
      BY DEF SoundCall
    <3>3. calls' = [calls EXCEPT ![c] = x]
      BY <3>1 DEF Begin
    <3> QED
      BY <3>2, <3>3
  <2>2. CASE DecideMatch(c)
    <3>1. SoundCall(calls[c])
      BY <2>2, <2>s DEF DecideMatch
    <3> DEFINE a == CallMatches(c)[Len(calls[c].decided) + 1][1]
               e(kev, epss) == [decision |-> Priority(a, Enrich(a, calls[c].feed, kev, epss)),
                                current  |-> /\ calls[c].feed = "FRESH" /\ a.provenance # "incomplete"
                                             /\ "KEV" \in Feeds => kev = [state |-> "FRESH", matched |-> TRUE]
                                             /\ "EPSS" \in Feeds => epss = "FRESH"]
    <3>2. PICK kev \in KevAnswers, epss \in EpssAnswers(a) :
              calls' = [calls EXCEPT ![c].decided = Append(@, e(kev, epss))]
      BY <2>2, Zenon DEF DecideMatch
    <3>3. e(kev, epss) \in SoundDecision
      BY <3>1, PriorityIsSound DEF SoundCall
    <3> HIDE DEF e, a
    <3> DEFINE x == [calls[c] EXCEPT !.decided = Append(calls[c].decided, e(kev, epss))]
    <3>4. SoundCall(x)
      BY <3>1, <3>3 DEF SoundCall
    <3>5. calls' = [calls EXCEPT ![c] = x]
      BY <3>2
    <3> QED
      BY <3>4, <3>5
  <2>3. CASE ReturnResult(c) \/ CallDies(c)
    BY <2>3 DEF ReturnResult, CallDies
  <2>4. CASE SaveRun(c)
    <3>1. SoundCall(calls[c])
      BY <2>4, <2>s DEF SaveRun
    <3>2. PICK i \in DOMAIN ServiceOrder :
              IsNextRun(c, i) /\ calls' = [calls EXCEPT ![c].saved = @ \cup {ServiceOrder[i]}]
      BY <2>4, Zenon DEF SaveRun
    <3>3. ServiceOrder[i] \in Routed(calls[c].request.snapshot)
      BY <3>2, AssessmentNames DEF IsNextRun, UnsavedServices, Assessed, Routed
    <3> DEFINE x == [calls[c] EXCEPT !.saved = calls[c].saved \cup {ServiceOrder[i]}]
    <3>4. SoundCall(x)
      BY <3>1, <3>3 DEF SoundCall
    <3>5. calls' = [calls EXCEPT ![c] = x]
      BY <3>2
    <3> QED
      BY <3>4, <3>5
  <2>5. CASE ComposeReport(c) \/ ReadProfile(c) \/ FlushProfile(c) \/ ReadPlan(c) \/ FlushPlan(c)
    <3>1. SoundCall(calls[c])
      BY <2>5, <2>s DEF ComposeReport, IntelDone, ReadProfile, FlushProfile, ReadPlan, FlushPlan
    <3>2. \E stage, seen : \/ calls' = [calls EXCEPT ![c] = Idle]
                           \/ calls' = [calls EXCEPT ![c] = [calls[c] EXCEPT !.stage = stage]]
                           \/ calls' = [calls EXCEPT ![c] = [calls[c] EXCEPT !.stage = stage, !.seen = seen]]
      <4>1. CASE ComposeReport(c)
        BY <4>1 DEF ComposeReport, Goto
      <4>2. CASE ReadProfile(c)
        BY <4>2 DEF ReadProfile
      <4>3. CASE FlushProfile(c)
        BY <4>3, Zenon DEF FlushProfile
      <4>4. CASE ReadPlan(c)
        BY <4>4 DEF ReadPlan
      <4>5. CASE FlushPlan(c)
        BY <4>5, Zenon DEF FlushPlan
      <4> QED
        BY <2>5, <4>1, <4>2, <4>3, <4>4, <4>5
    <3>3. \A stage, seen : /\ SoundCall([calls[c] EXCEPT !.stage = stage])
                           /\ SoundCall([calls[c] EXCEPT !.stage = stage, !.seen = seen])
      BY <3>1 DEF SoundCall
    <3> QED
      BY <3>2, <3>3
  <2> QED
    BY <2>1, <2>2, <2>3, <2>4, <2>5
<1>3. PICK x : calls' = [calls EXCEPT ![c] = x] /\ (x # Idle => SoundCall(x))
  BY <1>2
<1>4. DOMAIN calls' = Calls /\ calls'[c] = x /\ \A d \in Calls \ {c} : calls'[d] = calls[d]
  BY <1>3 DEF CallsInv
<1> QED
  BY <1>1, <1>3, <1>4, CallMoves

\* The commit stores the whole of an assessment over the whole of an earlier
\* one: both are by the services routed for the snapshot.
LEMMA CommitStep ==
    ASSUME CallsInv, RowsInv, NEW c \in Calls, Commit(c)
    PROVE  CallsInv' /\ RowsInv'
<1> DEFINE s == calls[c].request.snapshot
           a == Assessed(c)
<1>1. SoundCall(calls[c])
  <2>1. Idle.stage = "idle"
    BY DEF Idle
  <2> QED
    BY <2>1 DEF Commit, CallsInv
<1>2. CallsInv'
  <2>1. calls' = [calls EXCEPT ![c] = Idle]
    BY DEF Commit
  <2>2. DOMAIN calls' = Calls /\ calls'[c] = Idle /\ \A d \in Calls \ {c} : calls'[d] = calls[d]
    BY <2>1 DEF CallsInv
  <2> QED
    BY <2>2, CallMoves
<1>3. s \in ContentIds
  BY <1>1, RequestsAssumption DEF SoundCall, ContentIds
<1>4. a.services = Routed(s) /\ a.target = calls[c].request.target
  BY AssessmentNames DEF Assessed, Routed
<1>5. calls[c].saved = Routed(s)
  BY <1>1, <1>4 DEF Commit, UnsavedServices, SoundCall
<1>6. Routed(s) \subseteq Services
  BY DEF Routed, Selected, Services
<1> DEFINE rows == {s} \X Routed(s)
<1>7. /\ profiles' = profiles \cup {<<a.target, s>>}
      /\ DOMAIN plans' = DOMAIN plans \cup {s}
      /\ plans'[s].payload = a
      /\ \A x \in DOMAIN plans \ {s} : plans'[x] = plans[x]
      /\ DOMAIN runs' = DOMAIN runs \cup rows
      /\ \A k \in DOMAIN runs' : runs'[k] = IF k \in rows THEN a ELSE runs[k]
  <2>1. Store(c, Routed(s))
    BY <1>5 DEF Commit
  <2> HIDE DEF a
  <2> QED
    BY <2>1, <1>4 DEF Store, PlanId, ProfileId, a
<1> HIDE DEF s, a
<1>8. DOMAIN plans' \subseteq ContentIds
  BY <1>3, <1>7 DEF RowsInv
<1>9. DOMAIN runs' = {k \in ContentIds \X Services : k[1] \in DOMAIN plans' /\ k[2] \in Routed(k[1])}
  BY <1>3, <1>6, <1>7 DEF RowsInv
<1>10. \A x \in DOMAIN plans' : plans'[x].payload.services = Routed(x)
  BY <1>4, <1>7 DEF RowsInv
<1>11. ASSUME NEW k \in DOMAIN runs' PROVE runs'[k] = plans'[k[1]].payload
  <2>1. CASE k \in rows
    BY <1>7, <2>1
  <2>2. CASE k \notin rows
    <3>1. k \in DOMAIN runs /\ k[1] \in DOMAIN plans /\ k[1] # s
      BY <1>7, <2>2 DEF RowsInv
    <3> QED
      BY <1>7, <2>2, <3>1 DEF RowsInv
  <2> QED
    BY <2>1, <2>2
<1>12. \A x \in DOMAIN plans' : <<plans'[x].payload.target, x>> \in profiles'
  BY <1>7 DEF RowsInv
<1> QED
  BY <1>2, <1>8, <1>9, <1>10, <1>11, <1>12 DEF RowsInv, Routed, ContentIds, Services

LEMMA FirmInvAlways ==
    FirmSpec => [](CallsInv /\ RowsInv)
<1>1. FirmInit => CallsInv /\ RowsInv
  BY DEF FirmInit, CallsInv, RowsInv, Idle
<1>2. CallsInv /\ RowsInv /\ [FirmNext]_firmVars => (CallsInv /\ RowsInv)'
  <2> SUFFICES ASSUME CallsInv, RowsInv, [FirmNext]_firmVars PROVE CallsInv' /\ RowsInv'
    OBVIOUS
  <2>1. ASSUME UNCHANGED <<profiles, plans, runs>> PROVE RowsInv'
    BY <2>1 DEF RowsInv, Routed, ContentIds
  <2>2. ASSUME UNCHANGED calls PROVE CallsInv'
    BY <2>2 DEF CallsInv, SoundCall, Routed, Idle
  <2>3. CASE UNCHANGED firmVars \/ EngagementMoves
    BY <2>1, <2>2, <2>3 DEF firmVars, EngagementMoves
  <2>4. CASE \E c \in Calls : Commit(c)
    BY <2>4, CommitStep
  <2> QED
    BY <2>1, <2>3, <2>4, CallStep DEF FirmNext
<1> QED
  BY <1>1, <1>2, PTL DEF FirmSpec

\* The rows of the plan, of the services and of the chain are one assessment.
LEMMA RowsAreWhole ==
    ASSUME RowsInv
    PROVE  CommittedAssessmentIsWhole
<1>1. \A s \in ContentIds : Routed(s) \subseteq Services /\ ChainRow(s)[2] \in Routed(s)
  BY DEF Routed, Selected, Services, ChainRow
<1>2. DOMAIN runs = UNION {{s} \X plans[s].payload.services : s \in DOMAIN plans}
  BY <1>1 DEF RowsInv
<1>3. ASSUME NEW s \in ContentIds
      PROVE  /\ ChainRow(s) \in ContentIds \X Services /\ ChainRow(s)[1] = s
             /\ ChainRow(s) \in DOMAIN runs <=> s \in DOMAIN plans
  <2>1. ChainRow(s) \in ContentIds \X Services /\ ChainRow(s)[1] = s
    BY DEF ChainRow, Services
  <2> QED
    BY <1>1, <2>1 DEF RowsInv
<1>4. Chains = DOMAIN plans
  BY <1>3 DEF Chains, RowsInv
<1>5. ASSUME DOMAIN plans # {} PROVE \E s \in DOMAIN plans : AssessmentChain = plans[s].payload
  <2> DEFINE ranks == {RunIdRank[t] : t \in Chains}
  <2>1. ranks \in SUBSET Nat /\ ranks # {}
    BY <1>4, <1>5, RequestsAssumption DEF RowsInv, ContentIds
  <2>2. Min(ranks) \in ranks
    BY <2>1, MinIsMember
  <2>3. \E s \in Chains : RunIdRank[s] = Min(ranks)
    BY <2>2
  <2>4. FirstChain \in Chains
    BY <2>3 DEF FirstChain
  <2> HIDE DEF ranks
  <2>5. /\ FirstChain \in ContentIds /\ FirstChain \in DOMAIN plans
        /\ ChainRow(FirstChain) \in DOMAIN runs /\ ChainRow(FirstChain)[1] = FirstChain
    BY <1>3, <1>4, <2>4 DEF RowsInv
  <2>6. runs[ChainRow(FirstChain)] = plans[FirstChain].payload
    BY <2>5 DEF RowsInv
  <2> QED
    BY <2>5, <2>6 DEF AssessmentChain
<1> QED
  BY <1>2, <1>4, <1>5 DEF RowsInv, CommittedAssessmentIsWhole

\* FirmSecurityServices.run: what is stored of a snapshot is one whole
\* assessment, for any calls, targets and contents, although targets with equal
\* content write the same rows.
THEOREM CommittedAssessmentIsWholeAlways ==
    FirmSpec => []CommittedAssessmentIsWhole
BY FirmInvAlways, RowsAreWhole, PTL

\* priority: a match is URGENT only when the call's feed and every configured
\* feed answered fresh for it and the catalogue lists it.
THEOREM UrgentIsCurrentAlways ==
    FirmSpec => []UrgentIsCurrent
<1>1. CallsInv => UrgentIsCurrent
  <2> SUFFICES ASSUME CallsInv, NEW c \in Calls, calls[c] # Idle, NEW i \in DOMAIN calls[c].decided,
                      calls[c].decided[i].decision.priority = "URGENT"
               PROVE  calls[c].decided[i].current
    BY DEF UrgentIsCurrent
  <2>1. calls[c].decided[i] \in SoundDecision
    BY DEF CallsInv, SoundCall
  <2> QED
    BY <2>1 DEF SoundDecision
<1> QED
  BY <1>1, FirmInvAlways, PTL
=============================================================================
