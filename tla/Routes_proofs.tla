--------------------------- MODULE Routes_proofs ---------------------------
(***************************************************************************)
(* Proofs about Routes, for any segments, patterns, calls and queries, and *)
(* any number of routes.  Chain and At are recursive functions: that they  *)
(* satisfy their equations, and what is shown from each route's parent to  *)
(* the route, rests on LeastNatural.                                       *)
(***************************************************************************)
EXTENDS Routes, SequenceTheorems, FiniteSetTheorems, TLAPS

-----------------------------------------------------------------------------
(* Induction *)

(* Every set of naturals has a least element. *)
LEMMA LeastNatural ==
  ASSUME NEW S \in SUBSET Nat, S /= {}
  PROVE  \E m \in S : \A n \in S : m <= n
<1> DEFINE R == StrictSubsetOrdering(Nat)
           F == FiniteSubsetsOf(Nat)
           T == {0 .. n : n \in S}
<1>1. IsWellFoundedOn(R, F)
  BY FS_StrictSubsetOrderingWellFounded
<1>2. T \subseteq F
  <2> SUFFICES ASSUME NEW n \in S PROVE 0 .. n \in F
    OBVIOUS
  <2>1. IsFiniteSet(0 .. n)
    BY FS_Interval
  <2>2. 0 .. n \in SUBSET Nat
    OBVIOUS
  <2> QED
    BY <2>1, <2>2 DEF FiniteSubsetsOf
<1>3. T /= {}
  OBVIOUS
<1> HIDE DEF R, F, T
<1>4. PICK x \in T : \A y \in T : <<y, x>> \notin R
  BY <1>1, <1>2, <1>3, WFMin
<1> USE DEF R, F, T
<1>5. PICK m \in S : x = 0 .. m
  BY DEF T
<1>6. ASSUME NEW n \in S, n < m PROVE FALSE
  <2>1. 0 .. n \in T
    OBVIOUS
  <2>2. 0 .. n \subseteq 0 .. m /\ 0 .. n /= 0 .. m
    <3>1. m \in 0 .. m /\ m \notin 0 .. n
      BY <1>6
    <3> QED
      BY <1>6, <3>1
  <2>3. <<0 .. n, 0 .. m>> \in (SUBSET Nat) \X (SUBSET Nat)
    OBVIOUS
  <2>4. <<0 .. n, 0 .. m>> \in R
    BY <2>2, <2>3 DEF StrictSubsetOrdering
  <2> QED
    BY <1>4, <1>5, <2>1, <2>4
<1> QED
  BY <1>6

(* Induction from each route's parent to the route. *)
LEMMA DownTheTree ==
  ASSUME NEW n \in Nat, NEW par, \A r \in 1 .. n : par[r] \in 0 .. (r - 1),
         NEW S, \A r \in 1 .. n : par[r] = 0 \/ par[r] \in S => r \in S
  PROVE  1 .. n \subseteq S
<1> DEFINE T == {r \in 1 .. n : r \notin S}
<1> SUFFICES ASSUME T /= {} PROVE FALSE
  OBVIOUS
<1>1. T \in SUBSET Nat
  OBVIOUS
<1>2. PICK m \in T : \A r \in T : m <= r
  BY <1>1, LeastNatural
<1>3. par[m] /= 0 /\ par[m] \notin S /\ par[m] \in 0 .. (m - 1)
  OBVIOUS
<1>4. par[m] \in T
  BY <1>3
<1> QED
  BY <1>2, <1>3, <1>4

(* What is defined of each route from what it is of its parent, is defined. *)
Recursion(n, par, T, base, step) ==
  \E f \in [1 .. n -> T] :
    \A r \in 1 .. n : f[r] = IF par[r] = 0 THEN base[r] ELSE step[r][f[par[r]]]

(* It is, for numbered routes. *)
LEMMA RecursionExists ==
  ASSUME NEW n \in Nat, NEW par, \A r \in 1 .. n : par[r] \in 0 .. (r - 1),
         NEW T, NEW base \in [1 .. n -> T], NEW step \in [1 .. n -> [T -> T]]
  PROVE  Recursion(n, par, T, base, step)
<1> DEFINE Defined(k) ==
      \E f \in [1 .. k -> T] :
        \A r \in 1 .. k : f[r] = IF par[r] = 0 THEN base[r] ELSE step[r][f[par[r]]]
<1> DEFINE U == {k \in 0 .. n : ~Defined(k)}
<1>1. Defined(0)
  <2>1. [r \in 1 .. 0 |-> base[r]] \in [1 .. 0 -> T]
    OBVIOUS
  <2>2. \A r \in 1 .. 0 : FALSE
    OBVIOUS
  <2> QED
    BY <2>1, <2>2
<1>2. ASSUME NEW k \in 1 .. n, Defined(k - 1) PROVE Defined(k)
  <2>1. PICK f \in [1 .. (k - 1) -> T] :
          \A r \in 1 .. (k - 1) : f[r] = IF par[r] = 0 THEN base[r] ELSE step[r][f[par[r]]]
    BY <1>2
  <2> DEFINE new_k == IF par[k] = 0 THEN base[k] ELSE step[k][f[par[k]]]
             g == [r \in 1 .. k |-> IF r = k THEN new_k ELSE f[r]]
  <2>2. new_k \in T
    <3>1. CASE par[k] = 0
      BY <3>1
    <3>2. CASE par[k] /= 0
      <4>1. par[k] \in 1 .. (k - 1)
        BY <3>2
      <4>2. f[par[k]] \in T
        BY <4>1
      <4> QED
        BY <3>2, <4>2
    <3> QED
      BY <3>1, <3>2
  <2>3. \A r \in 1 .. (k - 1) : f[r] \in T
    OBVIOUS
  <2>4. \A r \in 1 .. k : r /= k => r \in 1 .. (k - 1)
    OBVIOUS
  <2>5. g \in [1 .. k -> T]
    BY <2>2, <2>3, <2>4
  <2>6. ASSUME NEW r \in 1 .. k
        PROVE  g[r] = IF par[r] = 0 THEN base[r] ELSE step[r][g[par[r]]]
    <3>1. par[r] /= 0 => par[r] \in 1 .. (k - 1)
      BY par[r] \in 0 .. (r - 1)
    <3>2. par[r] /= 0 => g[par[r]] = f[par[r]]
      BY <3>1
    <3>3. CASE r = k
      BY <3>2, <3>3
    <3>4. CASE r /= k
      <4>1. r \in 1 .. (k - 1) /\ g[r] = f[r]
        BY <3>4
      <4> HIDE DEF g
      <4> QED
        BY <2>1, <3>2, <4>1
    <3> QED
      BY <3>3, <3>4
  <2> HIDE DEF g
  <2> QED
    BY <2>5, <2>6
<1> HIDE DEF Defined
<1> SUFFICES ASSUME U /= {} PROVE FALSE
  <2>1. n \in 0 .. n
    OBVIOUS
  <2>2. Defined(n)
    BY <2>1
  <2> QED
    BY <2>2 DEF Defined, Recursion
<1>3. U \in SUBSET Nat
  OBVIOUS
<1>4. PICK k \in U : \A j \in U : k <= j
  BY <1>3, LeastNatural
<1>5. k /= 0
  BY <1>1
<1>6. k - 1 \in 0 .. n /\ k - 1 \notin U
  BY <1>4, <1>5
<1> QED
  BY <1>2, <1>5, <1>6

-----------------------------------------------------------------------------
(* Chain and At *)

(* Parents have lower numbers. *)
TreeShape == parent \in [Ids -> 0 .. MaxRoutes] /\ \A r \in Ids : parent[r] \in 0 .. (r - 1)

(* The equation of Chain, ... *)
ChainIs ==
  /\ Chain \in [Ids -> Seq(Segments)]
  /\ \A r \in Ids :
       Chain[r] = IF parent[r] = 0 THEN <<pattern[r]>> ELSE Append(Chain[parent[r]], pattern[r])

(* There is a function that satisfies the equation of Chain, ... *)
LEMMA ChainDefined ==
  ASSUME NEW par \in [Ids -> 0 .. MaxRoutes], NEW pat \in [Ids -> Segments],
         \A r \in Ids : par[r] \in 0 .. (r - 1)
  PROVE  \E f : f = [r \in Ids |-> IF par[r] = 0 THEN <<pat[r]>> ELSE Append(f[par[r]], pat[r])]
<1> DEFINE base == [r \in Ids |-> <<pat[r]>>]
           step == [r \in Ids |-> [p \in Seq(Segments) |-> Append(p, pat[r])]]
<1>1. MaxRoutes \in Nat /\ Ids = 1 .. MaxRoutes
  BY RoutesAssumption DEF Ids
<1>2. base \in [Ids -> Seq(Segments)]
  OBVIOUS
<1>3. step \in [Ids -> [Seq(Segments) -> Seq(Segments)]]
  BY AppendProperties
<1>4. PICK f \in [Ids -> Seq(Segments)] :
        \A r \in Ids : f[r] = IF par[r] = 0 THEN base[r] ELSE step[r][f[par[r]]]
  <2> HIDE DEF base, step
  <2>1. MaxRoutes \in Nat /\ \A r \in 1 .. MaxRoutes : par[r] \in 0 .. (r - 1)
    BY <1>1
  <2>2. base \in [1 .. MaxRoutes -> Seq(Segments)]
    BY <1>1, <1>2
  <2>3. step \in [1 .. MaxRoutes -> [Seq(Segments) -> Seq(Segments)]]
    BY <1>1, <1>3
  <2>4. Recursion(MaxRoutes, par, Seq(Segments), base, step)
    BY <2>1, <2>2, <2>3, RecursionExists
  <2> QED
    BY <1>1, <2>4 DEF Recursion
<1>5. ASSUME NEW r \in Ids
      PROVE  f[r] = IF par[r] = 0 THEN <<pat[r]>> ELSE Append(f[par[r]], pat[r])
  <2>1. par[r] /= 0 => par[r] \in Ids
    BY <1>1
  <2>2. par[r] /= 0 => step[r][f[par[r]]] = Append(f[par[r]], pat[r])
    BY <2>1
  <2> QED
    BY <1>4, <2>2
<1>6. f = [r \in Ids |-> f[r]]
  OBVIOUS
<1>7. f = [r \in Ids |-> IF par[r] = 0 THEN <<pat[r]>> ELSE Append(f[par[r]], pat[r])]
  BY <1>5, <1>6
<1> QED
  BY <1>7

(* ... so Chain does. *)
LEMMA ChainEquation ==
  TreeShape /\ pattern \in [Ids -> Segments] => ChainIs
<1> SUFFICES ASSUME TreeShape, pattern \in [Ids -> Segments] PROVE ChainIs
  OBVIOUS
<1> DEFINE Def(f) ==
      f = [r \in Ids |-> IF parent[r] = 0 THEN <<pattern[r]>> ELSE Append(f[parent[r]], pattern[r])]
<1>1. \E f : Def(f)
  BY ChainDefined DEF TreeShape
<1>2. Chain = CHOOSE f : Def(f)
  BY DEF Chain
<1>3. Def(Chain)
  <2> HIDE DEF Def
  <2> QED
    BY <1>1, <1>2, Zenon
<1>4. \A r \in Ids :
        Chain[r] = IF parent[r] = 0 THEN <<pattern[r]>> ELSE Append(Chain[parent[r]], pattern[r])
  BY <1>3
<1> DEFINE S == {r \in Ids : Chain[r] \in Seq(Segments)}
<1>5. MaxRoutes \in Nat /\ Ids = 1 .. MaxRoutes
  BY RoutesAssumption DEF Ids
<1>6. ASSUME NEW r \in Ids, parent[r] = 0 \/ parent[r] \in S PROVE r \in S
  <2>1. CASE parent[r] = 0
    <3>1. Chain[r] = <<pattern[r]>>
      BY <1>4, <2>1
    <3>2. pattern[r] \in Segments
      OBVIOUS
    <3>3. <<pattern[r]>> \in Seq(Segments)
      BY <3>2
    <3> QED
      BY <3>1, <3>3
  <2>2. CASE parent[r] /= 0
    <3>1. Chain[r] = Append(Chain[parent[r]], pattern[r])
      BY <1>4, <2>2
    <3>2. Chain[parent[r]] \in Seq(Segments)
      BY <1>6, <2>2
    <3>3. pattern[r] \in Segments
      OBVIOUS
    <3>4. Append(Chain[parent[r]], pattern[r]) \in Seq(Segments)
      BY <3>2, <3>3, AppendProperties
    <3> QED
      BY <3>1, <3>4
  <2> QED
    BY <2>1, <2>2
<1>7. Ids \subseteq S
  <2> HIDE DEF S
  <2> QED
    BY <1>5, <1>6, DownTheTree DEF TreeShape
<1>8. Chain = [r \in Ids |-> Chain[r]]
  BY <1>3
<1>9. Chain \in [Ids -> Seq(Segments)]
  BY <1>7, <1>8
<1> QED
  BY <1>4, <1>9 DEF ChainIs

(* ... and that of At. *)
AtIs ==
  /\ At \in [Ids -> 1 .. Len(query.path)]
  /\ \A r \in Ids :
       At[r] = IF parent[r] = 0 THEN 1
               ELSE IF r \in inverted \/ At[parent[r]] = Len(query.path) THEN At[parent[r]]
               ELSE At[parent[r]] + 1

(* So does At, when there is a request. *)
LEMMA AtEquation == TreeShape /\ Len(query.path) \in Nat \ {0} => AtIs
<1> SUFFICES ASSUME TreeShape, Len(query.path) \in Nat \ {0} PROVE AtIs
  OBVIOUS
<1> DEFINE len == Len(query.path)
           base == [r \in Ids |-> 1]
           step == [r \in Ids |-> [k \in 1 .. len |-> IF r \in inverted \/ k = len THEN k ELSE k + 1]]
           Def(f) ==
             f = [r \in Ids |-> IF parent[r] = 0 THEN 1
                                ELSE IF r \in inverted \/ f[parent[r]] = Len(query.path) THEN f[parent[r]]
                                ELSE f[parent[r]] + 1]
<1>1. MaxRoutes \in Nat /\ Ids = 1 .. MaxRoutes
  BY RoutesAssumption DEF Ids
<1>2. base \in [Ids -> 1 .. len] /\ step \in [Ids -> [1 .. len -> 1 .. len]]
  OBVIOUS
<1>3. Recursion(MaxRoutes, parent, 1 .. len, base, step)
  <2> HIDE DEF base, step, len
  <2>1. base \in [1 .. MaxRoutes -> 1 .. len] /\ step \in [1 .. MaxRoutes -> [1 .. len -> 1 .. len]]
    BY <1>1, <1>2
  <2>2. \A r \in 1 .. MaxRoutes : parent[r] \in 0 .. (r - 1)
    BY <1>1 DEF TreeShape
  <2> QED
    BY <1>1, <2>1, <2>2, RecursionExists
<1>4. PICK f \in [Ids -> 1 .. len] :
        \A r \in Ids : f[r] = IF parent[r] = 0 THEN base[r] ELSE step[r][f[parent[r]]]
  BY <1>1, <1>3 DEF Recursion
<1>5. Def(f)
  <2>1. ASSUME NEW r \in Ids, parent[r] /= 0 PROVE f[parent[r]] \in 1 .. len
    <3>1. parent[r] \in Ids
      BY <1>1, <2>1 DEF TreeShape
    <3> HIDE DEF len
    <3> QED
      BY <3>1
  <2>2. \A r \in Ids : f[r] = IF parent[r] = 0 THEN 1
                              ELSE IF r \in inverted \/ f[parent[r]] = len THEN f[parent[r]]
                              ELSE f[parent[r]] + 1
    BY <1>4, <2>1
  <2>3. f = [r \in Ids |-> f[r]]
    OBVIOUS
  <2> QED
    BY <2>2, <2>3
<1>6. At = CHOOSE g : Def(g)
  BY DEF At
<1>7. Def(At)
  <2> HIDE DEF Def
  <2> QED
    BY <1>5, <1>6, Zenon
<1>8. \A r \in Ids :
        At[r] = IF parent[r] = 0 THEN 1
                ELSE IF r \in inverted \/ At[parent[r]] = len THEN At[parent[r]]
                ELSE At[parent[r]] + 1
  BY <1>7
<1> DEFINE S == {r \in Ids : At[r] \in 1 .. len}
<1>9. ASSUME NEW r \in Ids, parent[r] = 0 \/ parent[r] \in S PROVE r \in S
  BY <1>8, <1>9
<1>10. Ids \subseteq S
  <2> HIDE DEF S
  <2> QED
    BY <1>1, <1>9, DownTheTree DEF TreeShape
<1>11. At = [r \in Ids |-> At[r]]
  BY <1>7
<1>12. At \in [Ids -> 1 .. len]
  BY <1>10, <1>11
<1> QED
  BY <1>8, <1>12 DEF AtIs

(* Routes and what they hang on stay as they are. *)
Kept ==
  /\ made' \in Ids /\ made <= made'
  /\ \A r \in 1 .. made :
       parent'[r] = parent[r] /\ pattern'[r] = pattern[r] /\ (r \in inverted' <=> r \in inverted)

(* What is above a route stays, ... *)
LEMMA ChainStays ==
  ASSUME made \in Ids, TreeShape, ChainIs, ChainIs', Kept, NEW r \in 1 .. made
  PROVE  Chain'[r] = Chain[r]
<1> DEFINE S == {k \in 1 .. made : Chain'[k] = Chain[k]}
<1>1. made \in Nat /\ 1 .. made \subseteq Ids /\ Ids' = Ids
  BY RoutesAssumption DEF Ids
<1>2. ASSUME NEW k \in 1 .. made, parent[k] = 0 \/ parent[k] \in S PROVE k \in S
  <2>1. /\ parent'[k] = parent[k] /\ pattern'[k] = pattern[k]
        /\ parent[k] /= 0 => Chain'[parent[k]] = Chain[parent[k]]
    BY <1>2 DEF Kept
  <2>2. Chain[k] = IF parent[k] = 0 THEN <<pattern[k]>> ELSE Append(Chain[parent[k]], pattern[k])
    BY <1>1 DEF ChainIs
  <2>3. Chain'[k] = IF parent'[k] = 0 THEN <<pattern'[k]>> ELSE Append(Chain'[parent'[k]], pattern'[k])
    BY <1>1 DEF ChainIs
  <2>4. Chain'[k] = Chain[k]
    BY <2>1, <2>2, <2>3
  <2> QED
    BY <2>4
<1>3. 1 .. made \subseteq S
  <2>1. \A k \in 1 .. made : parent[k] \in 0 .. (k - 1)
    BY <1>1 DEF TreeShape
  <2> HIDE DEF S
  <2> QED
    BY <1>1, <1>2, <2>1, DownTheTree
<1> QED
  BY <1>3

(* ... so does where it looks. *)
LEMMA AtStays ==
  ASSUME made \in Ids, TreeShape, AtIs, AtIs', Kept, query'.path = query.path, NEW r \in 1 .. made
  PROVE  At'[r] = At[r]
<1> DEFINE S == {k \in 1 .. made : At'[k] = At[k]}
<1>1. made \in Nat /\ 1 .. made \subseteq Ids /\ Ids' = Ids
  BY RoutesAssumption DEF Ids
<1>2. ASSUME NEW k \in 1 .. made, parent[k] = 0 \/ parent[k] \in S PROVE k \in S
  <2>1. /\ parent'[k] = parent[k] /\ (k \in inverted' <=> k \in inverted)
        /\ parent[k] /= 0 => At'[parent[k]] = At[parent[k]]
    BY <1>2 DEF Kept
  <2>2. At[k] = IF parent[k] = 0 THEN 1
                ELSE IF k \in inverted \/ At[parent[k]] = Len(query.path) THEN At[parent[k]]
                ELSE At[parent[k]] + 1
    BY <1>1 DEF AtIs
  <2>3. At'[k] = IF parent'[k] = 0 THEN 1
                 ELSE IF k \in inverted' \/ At'[parent'[k]] = Len(query'.path) THEN At'[parent'[k]]
                 ELSE At'[parent'[k]] + 1
    BY <1>1 DEF AtIs
  <2>4. At'[k] = At[k]
    BY <2>1, <2>2, <2>3
  <2> QED
    BY <2>4
<1>3. 1 .. made \subseteq S
  <2>1. \A k \in 1 .. made : parent[k] \in 0 .. (k - 1)
    BY <1>1 DEF TreeShape
  <2> HIDE DEF S
  <2> QED
    BY <1>1, <1>2, <2>1, DownTheTree
<1> QED
  BY <1>3

-----------------------------------------------------------------------------
(* Types *)

(* Routes are numbered from 1. *)
LEMMA NumbersOK == MaxRoutes \in Nat \ {0} /\ Ids = 1 .. MaxRoutes /\ 1 \in Ids
  BY RoutesAssumption DEF Ids

(* The rest of a path is one. *)
LEMMA RestIsSeq ==
  ASSUME NEW p \in Seq(Segments), p /= <<>>
  PROVE  Head(p) \in Segments /\ RestOf(p) \in Seq(Segments)
  BY HeadTailProperties DEF RestOf

(* A request never runs out of segments. *)
LEMMA RequestIsSeq ==
  ASSUME NEW p \in Seq(Segments) \ {<<>>}
  PROVE  FromRequest(p) \in Seq(Segments) \ {<<>>}
<1>1. CASE Len(p) <= 1
  BY <1>1 DEF FromRequest
<1>2. CASE ~(Len(p) <= 1)
  <2>1. FromRequest(p) = Tail(p) /\ Len(p) \in Nat
    BY <1>2 DEF FromRequest
  <2>2. Tail(p) \in Seq(Segments) /\ Len(Tail(p)) = Len(p) - 1
    BY HeadTailProperties
  <2> DEFINE t == Tail(p)
  <2>3. Len(t) /= 0
    BY <1>2, <2>1, <2>2
  <2> HIDE DEF t
  <2>4. t /= <<>>
    BY <2>3
  <2> QED
    BY <2>1, <2>2, <2>4 DEF t
<1> QED
  BY <1>1, <1>2

(* Tree, calls and request are typed apart. *)
TreeType ==
  /\ made \in Ids
  /\ parent \in [Ids -> 0 .. MaxRoutes]
  /\ pattern \in [Ids -> Segments]
  /\ inverted \subseteq 2 .. made
  /\ childRoutes \in [Ids -> [Segments -> 0 .. made]]

NewType ==
  new \in [Registrars -> [pc : {"none", "looking", "inserting", "done"},
                          at : 1 .. made, left : Seq(Segments)]]

FindType ==
  find \in [Finders -> [pc : {"none", "looking", "done"}, at : 0 .. made, left : Seq(Segments),
                        path : Seq(Segments), known : SUBSET Registrars]]

RequestType ==
  /\ query \in [path : Seq(Segments), known : SUBSET Registrars, found : SUBSET (1 .. made)]
  /\ pending \subseteq (1 .. made) \X (Seq(Segments) \ {<<>>})
  /\ received \subseteq 1 .. made
  /\ rejected \subseteq 1 .. made
  /\ failure \in BOOLEAN /\ packed \in BOOLEAN

(* The two ways to state the types are the same. *)
LEMMA TypeParts ==
  /\ TypeOK <=> TreeType /\ NewType /\ overlapped \subseteq Registrars /\ FindType /\ RequestType
  /\ TypeOK' <=> TreeType' /\ NewType' /\ overlapped' \subseteq Registrars /\ FindType' /\ RequestType'
  BY DEF TypeOK, TreeType, NewType, FindType, RequestType

(* The first state is well typed. *)
LEMMA InitTypeOK == Init => TypeOK
<1> SUFFICES ASSUME Init PROVE TypeOK
  OBVIOUS
<1>1. Root \in Segments /\ <<>> \in Seq(Segments) /\ \A g \in Registrars : Path[g] \in Seq(Segments)
  BY RoutesAssumption
<1>2. TreeType
  BY <1>1, NumbersOK DEF Init, TreeType
<1>3. NewType
  BY <1>1 DEF Init, NewType
<1>4. FindType
  BY <1>1 DEF Init, FindType
<1>5. RequestType
  BY <1>1 DEF Init, RequestType
<1> QED
  BY <1>2, <1>3, <1>4, <1>5, TypeParts DEF Init

(* What is typed by the routes made stays so when more are made. *)
LEMMA MoreRoutes ==
  ASSUME TypeOK, made' \in Ids, made <= made'
  PROVE  /\ UNCHANGED new => NewType'
         /\ UNCHANGED find => FindType'
         /\ UNCHANGED request => RequestType'
         /\ UNCHANGED childRoutes => childRoutes' \in [Ids -> [Segments -> 0 .. made']]
         /\ inverted \subseteq 2 .. made'
<1>1. made \in Nat /\ made' \in Nat /\ 1 .. made \subseteq 1 .. made' /\ 0 .. made \subseteq 0 .. made'
  <2>1. made \in Ids
    BY DEF TypeOK
  <2>2. made \in Nat /\ made' \in Nat
    BY <2>1, NumbersOK
  <2> QED
    BY <2>2
<1>2. UNCHANGED new => NewType'
  BY <1>1, TypeParts DEF NewType
<1>3. UNCHANGED find => FindType'
  BY <1>1, TypeParts DEF FindType
<1>4. UNCHANGED request => RequestType'
  BY <1>1, TypeParts DEF RequestType, request
<1>5. UNCHANGED childRoutes => childRoutes' \in [Ids -> [Segments -> 0 .. made']]
  BY <1>1, TypeParts DEF TreeType
<1>6. inverted \subseteq 2 .. made'
  BY <1>1, TypeParts DEF TreeType
<1> QED
  BY <1>2, <1>3, <1>4, <1>5, <1>6

(* A route more is well typed, ... *)
LEMMA SubscribeType ==
  ASSUME TypeOK, NEW r \in Ids, NEW s \in Segments, Subscribe(r, s)
  PROVE  /\ made' \in Ids /\ made <= made'
         /\ parent' \in [Ids -> 0 .. MaxRoutes] /\ pattern' \in [Ids -> Segments]
<1>1. /\ made \in Nat /\ made < MaxRoutes /\ made' = made + 1
      /\ parent \in [Ids -> 0 .. MaxRoutes] /\ pattern \in [Ids -> Segments]
  BY NumbersOK DEF TypeOK, Subscribe
<1>2. made' \in Ids /\ made <= made'
  BY <1>1, NumbersOK
<1>3. r \in 0 .. MaxRoutes
  BY NumbersOK
<1> QED
  BY <1>1, <1>2, <1>3 DEF Subscribe

(* ... and no route more too. *)
LEMMA TreeStays ==
  ASSUME TypeOK, UNCHANGED tree PROVE TreeType' /\ made' \in Ids /\ made <= made'
<1>1. made \in Ids /\ made' = made
  BY DEF TypeOK, tree
<1>2. made <= made'
  BY <1>1, NumbersOK
<1> QED
  BY <1>1, <1>2, TypeParts DEF TreeType, tree

(* Each step keeps the types: those of New, ... *)
LEMMA NewTypeOK ==
  ASSUME TypeOK, NEW g \in Registrars,
         NewCall(g) \/ Descend(g) \/ FromRoute(g) \/ Insert(g) \/ NewReturns(g)
  PROVE  TypeOK'
<1> DEFINE pcs == {"none", "looking", "inserting", "done"}
<1>1. /\ new[g].at \in 1 .. made /\ new[g].left \in Seq(Segments)
      /\ made \in Ids
  BY DEF TypeOK
<1>2. 1 .. made \subseteq Ids
  BY <1>1, NumbersOK
<1>3. CASE NewCall(g)
  <2>1. TreeType' /\ made' \in Ids /\ made <= made'
    BY <1>3, TreeStays DEF NewCall
  <2>2. NewType'
    BY <1>3, TypeParts DEF NewCall, NewType, tree
  <2>3. overlapped' \subseteq Registrars
    BY <1>3, TypeParts DEF NewCall
  <2> QED
    BY <1>3, <2>1, <2>2, <2>3, MoreRoutes, TypeParts DEF NewCall
<1>4. CASE Descend(g)
  <2>1. TreeType' /\ made' \in Ids /\ made <= made'
    BY <1>4, TreeStays DEF Descend
  <2>2. Head(new[g].left) \in Segments /\ RestOf(new[g].left) \in Seq(Segments)
    BY <1>1, <1>4, RestIsSeq DEF Descend, Looking
  <2>3. Lookup(new[g]) \in 1 .. made
    <3>1. Lookup(new[g]) \in 0 .. made
      BY <1>1, <1>2, <2>2, TypeParts DEF Lookup, TreeType
    <3>2. Lookup(new[g]) /= 0 /\ made \in Nat
      BY <1>1, <1>4, NumbersOK DEF Descend
    <3> QED
      BY <3>1, <3>2
  <2>4. NewType'
    BY <1>4, <2>2, <2>3, TypeParts DEF Descend, NewType, tree
  <2> QED
    BY <1>4, <2>1, <2>4, MoreRoutes, TypeParts DEF Descend
<1>5. CASE FromRoute(g)
  <2>1. Head(new[g].left) \in Segments /\ RestOf(new[g].left) \in Seq(Segments)
    BY <1>1, <1>5, RestIsSeq DEF FromRoute, Looking
  <2>2. /\ made' \in Ids /\ made <= made'
        /\ parent' \in [Ids -> 0 .. MaxRoutes] /\ pattern' \in [Ids -> Segments]
    BY <1>1, <1>2, <1>5, <2>1, SubscribeType DEF FromRoute
  <2>3. TreeType'
    BY <1>5, <2>2, MoreRoutes DEF TreeType, FromRoute, Subscribe
  <2>4. NewType'
    <3>1. made + 1 \in 1 .. made' /\ 1 .. made \subseteq 1 .. made'
      BY <1>1, <1>5, NumbersOK DEF FromRoute, Subscribe
    <3> QED
      BY <1>5, <2>1, <3>1, TypeParts DEF FromRoute, NewType
  <2> QED
    BY <1>5, <2>2, <2>3, <2>4, MoreRoutes, TypeParts DEF FromRoute
<1>6. CASE Insert(g)
  <2>1. made' = made
    BY <1>6 DEF Insert
  <2>2. TreeType'
    <3>1. UnderName(new[g].at) \in Segments
      BY <1>1, <1>2, TypeParts DEF TreeType, UnderName
    <3>2. new[g].at \in 0 .. made
      BY <1>1, NumbersOK
    <3>3. childRoutes' \in [Ids -> [Segments -> 0 .. made]]
      BY <1>6, <3>1, <3>2, TypeParts DEF Insert, TreeType
    <3> QED
      BY <1>6, <2>1, <3>3, TypeParts DEF Insert, TreeType
  <2>3. NewType'
    BY <1>6, <2>1, TypeParts DEF Insert, NewType
  <2>4. made' \in Ids /\ made <= made'
    BY <1>1, <2>1, NumbersOK
  <2> QED
    BY <1>6, <2>2, <2>3, <2>4, MoreRoutes, TypeParts DEF Insert
<1>7. CASE NewReturns(g)
  <2>1. TreeType' /\ made' \in Ids /\ made <= made'
    BY <1>7, TreeStays DEF NewReturns
  <2>2. NewType'
    BY <1>7, TypeParts DEF NewReturns, NewType, tree
  <2> QED
    BY <1>7, <2>1, <2>2, MoreRoutes, TypeParts DEF NewReturns
<1> QED
  BY <1>3, <1>4, <1>5, <1>6, <1>7

(* ... of InvertRoute, ... *)
LEMMA InvertTypeOK ==
  ASSUME TypeOK, NEW r \in Ids, NEW s \in Diverts, InvertRoute(r, s)
  PROVE  TypeOK'
<1>1. /\ made' \in Ids /\ made <= made'
      /\ parent' \in [Ids -> 0 .. MaxRoutes] /\ pattern' \in [Ids -> Segments]
  BY SubscribeType, RoutesAssumption DEF InvertRoute
<1>2. inverted' \subseteq 2 .. made'
  <2>1. made' = made + 1 /\ made \in Nat /\ made >= 1
    BY NumbersOK DEF InvertRoute, Subscribe, TypeOK
  <2>2. made + 1 \in 2 .. made'
    BY <2>1
  <2> QED
    BY <1>1, <2>2, MoreRoutes DEF InvertRoute
<1>3. TreeType'
  BY <1>1, <1>2, MoreRoutes DEF TreeType, InvertRoute, Subscribe
<1> QED
  BY <1>1, <1>3, MoreRoutes, TypeParts DEF InvertRoute, calls

(* ... of Child, ... *)
LEMMA ChildTypeOK ==
  ASSUME TypeOK, NEW f \in Finders, find[f].at = 0 => find[f].pc = "done",
         ChildNext(f) \/ ChildReturns(f) \/ \E g \in Registrars : ChildCall(f, Path[g])
  PROVE  TypeOK'
<1>1. /\ find[f].left \in Seq(Segments) /\ find[f].at \in 0 .. made
      /\ made \in Ids /\ 1 \in 0 .. made
  <2>1. made \in Ids /\ 1 \in 0 .. made
    BY TypeParts, NumbersOK DEF TreeType
  <2>2. find[f].left \in Seq(Segments) /\ find[f].at \in 0 .. made
    BY TypeParts DEF FindType
  <2> QED
    BY <2>1, <2>2
<1>2. UNCHANGED <<tree, new, overlapped, request>>
  BY DEF ChildNext, ChildReturns, ChildCall
<1>3. TreeType' /\ made' \in Ids /\ made <= made' /\ made' = made
  BY <1>2, TreeStays DEF tree
<1>4. CASE ChildNext(f)
  <2>1. Looking(find[f])
    BY <1>4 DEF ChildNext
  <2>2. Head(find[f].left) \in Segments /\ RestOf(find[f].left) \in Seq(Segments)
    BY <1>1, <2>1, RestIsSeq DEF Looking
  <2>3. Lookup(find[f]) \in 0 .. made
    <3>1. find[f].at \in Ids
      BY <1>1, <2>1, NumbersOK DEF Looking
    <3> QED
      BY <2>2, <3>1, TypeParts DEF TreeType, Lookup
  <2> DEFINE d == Lookup(find[f])
             q == RestOf(find[f].left)
             s == IF d = 0 THEN "done" ELSE find[f].pc
  <2>4. /\ find' = [find EXCEPT ![f] = [@ EXCEPT !.at = d, !.left = q, !.pc = s]]
        /\ s \in {"none", "looking", "done"}
    <3>1. FindType
      BY TypeParts
    <3> QED
      BY <1>4, <3>1 DEF ChildNext, FindType
  <2> HIDE DEF d, q, s
  <2>5. d \in 0 .. made /\ q \in Seq(Segments)
    BY <2>2, <2>3 DEF d, q
  <2>6. FindType'
    <3> DEFINE R == [pc : {"none", "looking", "done"}, at : 0 .. made, left : Seq(Segments),
                     path : Seq(Segments), known : SUBSET Registrars]
               e == [find[f] EXCEPT !.at = d, !.left = q, !.pc = s]
    <3>1. find \in [Finders -> R] /\ made' = made
      BY <1>3, TypeParts DEF FindType
    <3>2. e \in R
      BY <2>4, <2>5, <3>1
    <3>3. find' = [find EXCEPT ![f] = e]
      BY <2>4
    <3> HIDE DEF e, R
    <3>4. find' \in [Finders -> R]
      BY <3>1, <3>2, <3>3
    <3> QED
      BY <3>1, <3>4 DEF FindType, R
  <2> QED
    BY <1>2, <1>3, <2>6, MoreRoutes, TypeParts
<1>5. CASE ChildReturns(f)
  <2>1. FindType /\ made' = made /\ find' = [find EXCEPT ![f].pc = "done"]
    BY <1>3, <1>5, TypeParts DEF ChildReturns
  <2>2. FindType'
    BY <2>1 DEF FindType
  <2> QED
    BY <1>2, <1>3, <2>2, MoreRoutes, TypeParts
<1>6. ASSUME NEW g \in Registrars, ChildCall(f, Path[g]) PROVE TypeOK'
  <2>1. Path[g] \in Seq(Segments) /\ Returned \ overlapped \in SUBSET Registrars
    BY RoutesAssumption DEF Returned
  <2>2. FindType'
    BY <1>1, <1>3, <1>6, <2>1, TypeParts DEF ChildCall, FindType
  <2> QED
    BY <1>2, <1>3, <2>2, MoreRoutes, TypeParts
<1> QED
  BY <1>4, <1>5, <1>6

(* ... of a request, ... *)
LEMMA RequestTypeOK ==
  ASSUME TypeOK,
         \/ \E p \in Queries : Serve(p)
         \/ \E m \in pending : Valid(m[1], m[2]) \/ Invalid(m[1], m[2])
  PROVE  TypeOK'
<1>1. UNCHANGED <<tree, calls>> /\ made' = made
  BY DEF Serve, Valid, Invalid, tree
<1>2. TreeType' /\ made' \in Ids /\ made <= made' /\ made \in Nat /\ 1 \in 1 .. made
  <2>1. made \in Ids
    BY DEF TypeOK
  <2>2. made \in Nat /\ 1 \in 1 .. made
    BY <2>1, NumbersOK
  <2> QED
    BY <1>1, <2>2, TreeStays
<1>3. ASSUME NEW p \in Queries, Serve(p) PROVE RequestType'
  <2>1. p \in Seq(Segments) \ {<<>>}
    BY RoutesAssumption
  <2>2. Returned \in SUBSET Registrars
    BY DEF Returned
  <2>3. Found \in SUBSET (1 .. made)
    BY <1>2, TypeParts DEF Found, FindType
  <2>4. <<1, p>> \in (1 .. made) \X (Seq(Segments) \ {<<>>})
    BY <1>2, <2>1
  <2> QED
    BY <1>1, <1>3, <2>1, <2>2, <2>3, <2>4, TypeParts DEF Serve, RequestType
<1>4. ASSUME NEW m \in pending, Valid(m[1], m[2]) PROVE RequestType'
  <2>1. m[1] \in 1 .. made /\ m[2] \in Seq(Segments) \ {<<>>}
    BY DEF TypeOK
  <2>2. \A c \in Subscribed(m[1]) :
          <<c, FromRequest(m[2])>> \in (1 .. made) \X (Seq(Segments) \ {<<>>})
    BY <1>2, <2>1, RequestIsSeq DEF Subscribed
  <2>3. pending' \subseteq (1 .. made) \X (Seq(Segments) \ {<<>>})
    BY <1>4, <2>2 DEF Valid, TypeOK
  <2> QED
    BY <1>1, <1>4, <2>1, <2>3, TypeParts DEF Valid, Pack, RequestType
<1>5. ASSUME NEW m \in pending, Invalid(m[1], m[2]) PROVE RequestType'
  <2>1. m[1] \in 1 .. made /\ m[2] \in Seq(Segments) \ {<<>>}
    BY DEF TypeOK
  <2>2. \A c \in Diverted(m[1]) : <<c, m[2]>> \in (1 .. made) \X (Seq(Segments) \ {<<>>})
    BY <1>2, <2>1 DEF Diverted
  <2>3. pending' \subseteq (1 .. made) \X (Seq(Segments) \ {<<>>})
    BY <1>5, <2>2 DEF Invalid, TypeOK
  <2> QED
    BY <1>1, <1>5, <2>1, <2>3, TypeParts DEF Invalid, Pack, RequestType
<1> QED
  BY <1>1, <1>2, <1>3, <1>4, <1>5, MoreRoutes, TypeParts DEF calls

(* ... all of them. *)
LEMMA NextTypeOK ==
  ASSUME TypeOK, [Next]_vars, \A f \in Finders : find[f].at = 0 => find[f].pc = "done"
  PROVE  TypeOK'
<1>1. CASE UNCHANGED vars
  BY <1>1 DEF vars, tree, calls, request, TypeOK
<1> QED
  BY <1>1, NewTypeOK, InvertTypeOK, ChildTypeOK, RequestTypeOK DEF Next

-----------------------------------------------------------------------------
(* The tree *)

(* Routes are made after the one they hang on; what hangs on a route that   *)
(* takes what others accept is no rejection's; childRoutes[r][s] was made   *)
(* for s under r.                                                           *)
TreeOK ==
  /\ parent[1] = 0 /\ pattern[1] = Root
  /\ \A r \in 2 .. made : parent[r] \in 1 .. (r - 1)
  /\ \A r \in Ids : r > made => parent[r] = 0
  /\ \A r \in 2 .. made : r \notin inverted => parent[r] \notin inverted
  /\ \A r \in Ids, s \in Segments :
       LET c == childRoutes[r][s] IN
       c /= 0 => c \notin inverted /\ parent[c] = r /\ pattern[c] = s

(* New and Child stay on such routes. *)
Upright ==
  /\ \A g \in Registrars :
       /\ new[g].at \notin inverted
       /\ new[g].pc = "inserting" => new[g].at /= 1
  /\ \A f \in Finders :
       /\ find[f].at \notin inverted
       /\ find[f].at = 0 => find[f].pc = "done"

(* The root alone is such a tree. *)
LEMMA InitTree == Init => TreeOK /\ Upright
<1> SUFFICES ASSUME Init PROVE TreeOK /\ Upright
  OBVIOUS
<1>1. \A r \in 2 .. made : FALSE
  BY DEF Init
<1> QED
  BY <1>1, NumbersOK DEF Init, TreeOK, Upright

(* Parents were made before their children. *)
LEMMA ShapeOK == TypeOK /\ TreeOK => TreeShape
<1> SUFFICES ASSUME TypeOK, TreeOK, NEW r \in Ids PROVE parent[r] \in 0 .. (r - 1)
  BY DEF TypeOK, TreeShape
<1>1. made \in 1 .. MaxRoutes /\ r \in 1 .. MaxRoutes /\ MaxRoutes \in Nat
  BY NumbersOK DEF TypeOK
<1>2. CASE r = 1
  BY <1>2 DEF TreeOK
<1>3. CASE r \in 2 .. made
  <2>1. parent[r] \in 1 .. (r - 1)
    BY <1>3 DEF TreeOK
  <2> QED
    BY <2>1
<1>4. CASE r > made
  BY <1>1, <1>4 DEF TreeOK
<1> QED
  BY <1>1, <1>2, <1>3, <1>4

(* A new route changes nothing for the others. *)
LEMMA SubscribeKeeps ==
  ASSUME TypeOK, NEW r \in Ids, NEW s \in Segments, Subscribe(r, s),
         inverted' \in {inverted, inverted \cup {made + 1}}
  PROVE  Kept
<1>1. /\ made \in Nat /\ made' = made + 1 /\ made < MaxRoutes
      /\ parent' = [parent EXCEPT ![made + 1] = r] /\ pattern' = [pattern EXCEPT ![made + 1] = s]
      /\ parent \in [Ids -> 0 .. MaxRoutes] /\ pattern \in [Ids -> Segments]
  <2>1. made \in Ids /\ parent \in [Ids -> 0 .. MaxRoutes] /\ pattern \in [Ids -> Segments]
    BY DEF TypeOK
  <2>2. made \in Nat
    BY <2>1, NumbersOK
  <2> QED
    BY <2>1, <2>2 DEF Subscribe
<1>2. made' \in Ids /\ made <= made'
  BY <1>1, NumbersOK
<1>3. ASSUME NEW k \in 1 .. made
      PROVE  parent'[k] = parent[k] /\ pattern'[k] = pattern[k] /\ (k \in inverted' <=> k \in inverted)
  <2>1. k /= made + 1 /\ k \in Ids
    BY <1>1, NumbersOK
  <2> QED
    BY <1>1, <2>1
<1> QED
  BY <1>2, <1>3 DEF Kept

(* Nor does any other step. *)
LEMMA NextKeeps == ASSUME TypeOK, [Next]_vars PROVE Kept
<1>1. CASE UNCHANGED <<made, parent, pattern, inverted>>
  BY <1>1, NumbersOK DEF TypeOK, Kept
<1>2. ASSUME NEW g \in Registrars, FromRoute(g) PROVE Kept
  <2>1. new[g].at \in Ids /\ Head(new[g].left) \in Segments
    BY <1>2, RestIsSeq, NumbersOK DEF TypeOK, FromRoute, Looking
  <2> QED
    BY <1>2, <2>1, SubscribeKeeps DEF FromRoute
<1>3. ASSUME NEW r \in Ids, NEW s \in Diverts, InvertRoute(r, s) PROVE Kept
  BY <1>3, SubscribeKeeps, RoutesAssumption DEF InvertRoute
<1>4. ASSUME NEW g \in Registrars, NewCall(g) \/ Descend(g) \/ Insert(g) \/ NewReturns(g) PROVE Kept
  BY <1>1, <1>4 DEF NewCall, Descend, Insert, NewReturns, tree
<1>5. ASSUME NEW f \in Finders,
             ChildNext(f) \/ ChildReturns(f) \/ \E g \in Registrars : ChildCall(f, Path[g]) PROVE Kept
  BY <1>1, <1>5 DEF ChildNext, ChildReturns, ChildCall, tree
<1>6. ASSUME \/ \E p \in Queries : Serve(p)
             \/ \E m \in pending : Valid(m[1], m[2]) \/ Invalid(m[1], m[2]) PROVE Kept
  BY <1>1, <1>6 DEF Serve, Valid, Invalid, tree
<1>7. CASE UNCHANGED vars
  BY <1>1, <1>7 DEF vars, tree
<1> QED
  BY <1>2, <1>3, <1>4, <1>5, <1>6, <1>7 DEF Next

(* A new route, made + 1, hangs on one that was there. *)
LEMMA SubscribeTree ==
  ASSUME TypeOK, TreeOK, NEW r \in 1 .. made, NEW s \in Segments, Subscribe(r, s), Kept,
         \/ inverted' = inverted /\ r \notin inverted
         \/ inverted' = inverted \cup {made + 1}
  PROVE  TreeOK'
<1>1. /\ made \in Nat /\ made >= 1 /\ made' = made + 1 /\ made < MaxRoutes /\ MaxRoutes \in Nat
      /\ parent' = [parent EXCEPT ![made + 1] = r] /\ pattern' = [pattern EXCEPT ![made + 1] = s]
      /\ parent \in [Ids -> 0 .. MaxRoutes] /\ pattern \in [Ids -> Segments]
      /\ childRoutes' = childRoutes
      /\ inverted \subseteq 2 .. made
  BY NumbersOK DEF TypeOK, Subscribe
<1>2. made + 1 \in Ids
  BY <1>1, NumbersOK
<1>3. parent'[1] = 0 /\ pattern'[1] = Root
  BY <1>1 DEF TreeOK, Kept
<1>4. ASSUME NEW k \in 2 .. made'
      PROVE  parent'[k] \in 1 .. (k - 1) /\ (k \notin inverted' => parent'[k] \notin inverted')
  <2>1. CASE k = made + 1
    <3>1. parent'[k] = r
      BY <1>1, <1>2, <2>1
    <3> QED
      BY <1>1, <2>1, <3>1
  <2>2. CASE k \in 2 .. made
    <3>1. parent'[k] = parent[k] /\ (k \in inverted' <=> k \in inverted)
      BY <1>1, <2>2 DEF Kept
    <3>2. parent[k] \in 1 .. (k - 1) /\ (k \notin inverted => parent[k] \notin inverted)
      BY <2>2 DEF TreeOK
    <3>3. parent[k] /= made + 1
      BY <1>1, <2>2, <3>2
    <3> QED
      BY <3>1, <3>2, <3>3
  <2> QED
    BY <1>1, <2>1, <2>2
<1>5. ASSUME NEW k \in Ids, k > made' PROVE parent'[k] = 0
  <2>1. k > made /\ k /= made + 1
    BY <1>1, <1>5, NumbersOK
  <2> QED
    BY <1>1, <2>1 DEF TreeOK
<1>6. ASSUME NEW k \in Ids, NEW t \in Segments, childRoutes[k][t] /= 0
      PROVE  LET c == childRoutes[k][t] IN c \notin inverted' /\ parent'[c] = k /\ pattern'[c] = t
  <2> DEFINE c == childRoutes[k][t]
  <2>1. c \in 1 .. made
    <3>1. c \in 0 .. made
      BY DEF TypeOK
    <3> QED
      BY <1>1, <1>6, <3>1
  <2>2. c \notin inverted /\ parent[c] = k /\ pattern[c] = t
    BY <1>6 DEF TreeOK
  <2> HIDE DEF c
  <2>3. c \notin inverted' /\ parent'[c] = k /\ pattern'[c] = t
    BY <2>1, <2>2 DEF Kept
  <2> QED
    BY <2>3 DEF c
<1> QED
  BY <1>1, <1>3, <1>4, <1>5, <1>6 DEF TreeOK

(* An entry is made under the name of the route. *)
LEMMA InsertTree ==
  ASSUME TypeOK, TreeOK, Upright, NEW g \in Registrars, Insert(g)
  PROVE  TreeOK'
<1> DEFINE n == new[g].at
<1>1. n \in Ids /\ n /= 1 /\ n \in 2 .. made /\ n \notin inverted /\ made \in Nat
  <2>1. n /= 1 /\ n \notin inverted
    BY DEF Upright, Insert
  <2>2. n \in 1 .. made
    BY TypeParts DEF NewType
  <2>3. made \in Nat /\ made \in Ids
    BY TypeParts, NumbersOK DEF TreeType
  <2> QED
    BY <2>1, <2>2, <2>3, NumbersOK
<1>2. parent[n] \in Ids /\ pattern[n] \in Segments
  <2>1. parent[n] \in 1 .. (n - 1) /\ made \in Ids
    BY <1>1, TypeParts DEF TreeOK, TreeType
  <2>2. parent[n] \in Ids
    BY <1>1, <2>1, NumbersOK
  <2> QED
    BY <1>1, <2>2, TypeParts DEF TreeType
<1>3. childRoutes' = [childRoutes EXCEPT ![parent[n]][pattern[n]] = n]
  BY DEF Insert, UnderName
<1>4. UNCHANGED <<made, parent, pattern, inverted>>
  BY DEF Insert
<1>5. ASSUME NEW r \in Ids, NEW s \in Segments, childRoutes'[r][s] /= 0
      PROVE  LET c == childRoutes'[r][s] IN c \notin inverted /\ parent[c] = r /\ pattern[c] = s
  <2>1. CASE r = parent[n] /\ s = pattern[n]
    <3>1. childRoutes'[r][s] = n
      BY <1>2, <1>3, <2>1 DEF TypeOK
    <3> QED
      BY <1>1, <2>1, <3>1
  <2>2. CASE ~(r = parent[n] /\ s = pattern[n])
    <3>1. childRoutes'[r][s] = childRoutes[r][s]
      BY <1>2, <1>3, <2>2 DEF TypeOK
    <3> QED
      BY <1>5, <3>1 DEF TreeOK
  <2> QED
    BY <2>1, <2>2
<1> QED
  BY <1>4, <1>5 DEF TreeOK

(* Entries are of routes below the root. *)
LEMMA EntryOK ==
  ASSUME TypeOK, TreeOK, NEW r \in Ids, NEW s \in Segments
  PROVE  /\ childRoutes[r][s] \notin inverted
         /\ childRoutes[r][s] /= 0 => childRoutes[r][s] \in 2 .. made
<1> DEFINE c == childRoutes[r][s]
<1>1. c \in 0 .. made /\ 0 \notin inverted /\ made \in Nat /\ r /= 0
  <2>1. TreeType
    BY TypeParts
  <2>2. childRoutes[r] \in [Segments -> 0 .. made]
    BY <2>1 DEF TreeType
  <2>3. c \in 0 .. made
    BY <2>2
  <2>4. 0 \notin inverted /\ made \in Nat /\ r /= 0
    BY <2>1, NumbersOK DEF TreeType
  <2> QED
    BY <2>3, <2>4
<1>2. c /= 0 => c \notin inverted /\ parent[c] = r /\ c /= 1
  BY <1>1 DEF TreeOK
<1> QED
  BY <1>1, <1>2

(* Each step keeps the tree: those of New, ... *)
LEMMA NewTree ==
  ASSUME TypeOK, TreeOK, Upright, Kept, NEW g \in Registrars,
         NewCall(g) \/ Descend(g) \/ FromRoute(g) \/ Insert(g) \/ NewReturns(g)
  PROVE  TreeOK' /\ Upright'
<1>1. new[g].at \in 1 .. made /\ new[g].at \in Ids /\ new[g].left \in Seq(Segments)
  <2>1. new[g].at \in 1 .. made /\ new[g].left \in Seq(Segments)
    BY TypeParts DEF NewType
  <2>2. made \in 1 .. MaxRoutes
    BY TypeParts, NumbersOK DEF TreeType
  <2> QED
    BY <2>1, <2>2, NumbersOK
<1>2. CASE UNCHANGED tree /\ (NewCall(g) \/ Descend(g) \/ NewReturns(g))
  <2>1. TreeOK'
    BY <1>2 DEF TreeOK, tree
  <2>2. CASE NewCall(g) \/ NewReturns(g)
    <3>1. \/ new' = [new EXCEPT ![g].pc = "looking"]
          \/ new' = [new EXCEPT ![g].pc = "done"]
      BY <2>2 DEF NewCall, NewReturns
    <3>2. new \in [Registrars -> [pc : {"none", "looking", "inserting", "done"},
                                 at : 1 .. made, left : Seq(Segments)]]
      BY DEF TypeOK
    <3>3. \A h \in Registrars : new'[h].at = new[h].at /\ (new'[h].pc = "inserting" => new[h].pc = "inserting")
      BY <3>1, <3>2, SMTT(30)
    <3> QED
      BY <1>2, <2>1, <2>2, <3>3 DEF NewCall, NewReturns, Upright, tree
  <2>3. CASE Descend(g)
    <3>1. Lookup(new[g]) \notin inverted
      BY <1>1, <2>3, RestIsSeq, EntryOK DEF Descend, Looking, Lookup
    <3>2. /\ \A h \in Registrars \ {g} : new'[h] = new[h]
          /\ new'[g].at = Lookup(new[g]) /\ new'[g].pc = "looking"
      BY <2>3 DEF Descend, Looking, TypeOK
    <3>3. \A h \in Registrars : new'[h].at \notin inverted /\ (new'[h].pc = "inserting" => new'[h].at /= 1)
      BY <3>1, <3>2 DEF Upright
    <3> QED
      BY <1>2, <2>1, <2>3, <3>3 DEF Descend, Upright, tree
  <2> QED
    BY <1>2, <2>2, <2>3
<1>3. CASE FromRoute(g)
  <2>1. Head(new[g].left) \in Segments
    BY <1>1, <1>3, RestIsSeq DEF FromRoute, Looking
  <2>2. TreeOK'
    BY <1>1, <1>3, <2>1, SubscribeTree DEF FromRoute, Upright
  <2>3. /\ \A h \in Registrars \ {g} : new'[h] = new[h]
        /\ new'[g].at = made + 1
    BY <1>3, TypeParts DEF FromRoute, NewType
  <2>4. made \in Nat /\ made >= 1 /\ made + 1 \notin inverted
    <3>1. TreeType
      BY TypeParts
    <3>2. made \in Nat /\ made >= 1 /\ inverted \subseteq 2 .. made
      BY <3>1, NumbersOK DEF TreeType
    <3> QED
      BY <3>2
  <2>5. \A h \in Registrars : new'[h].at \notin inverted /\ (new'[h].pc = "inserting" => new'[h].at /= 1)
    BY <2>3, <2>4 DEF Upright
  <2> QED
    BY <1>3, <2>2, <2>5 DEF FromRoute, Upright
<1>4. CASE Insert(g)
  <2>1. TreeOK'
    BY <1>4, InsertTree
  <2>2. \A h \in Registrars : new'[h].at = new[h].at /\ (new'[h].pc = "inserting" => new[h].pc = "inserting")
    BY <1>4 DEF Insert, TypeOK
  <2> QED
    BY <1>4, <2>1, <2>2 DEF Insert, Upright
<1> QED
  BY <1>2, <1>3, <1>4 DEF NewCall, Descend, NewReturns

(* ... of InvertRoute, ... *)
LEMMA InvertTree ==
  ASSUME TypeOK, TreeOK, Upright, Kept, NEW r \in Ids, NEW s \in Diverts, InvertRoute(r, s)
  PROVE  TreeOK' /\ Upright'
<1>1. r \in 1 .. made /\ s \in Segments /\ made \in Nat
  BY NumbersOK, RoutesAssumption DEF InvertRoute, TypeOK
<1>2. TreeOK'
  BY <1>1, SubscribeTree DEF InvertRoute
<1>3. \A k \in 0 .. made : k \notin inverted => k \notin inverted'
  BY <1>1 DEF InvertRoute
<1>4. /\ \A g \in Registrars : new[g].at \in 0 .. made
      /\ \A f \in Finders : find[f].at \in 0 .. made
  <2>1. \A g \in Registrars : new[g].at \in 0 .. made
    BY <1>1, TypeParts DEF NewType
  <2>2. \A f \in Finders : find[f].at \in 0 .. made
    BY TypeParts DEF FindType
  <2> QED
    BY <2>1, <2>2
<1> QED
  BY <1>2, <1>3, <1>4 DEF InvertRoute, Upright, calls

(* ... of Child, ... *)
LEMMA ChildTree ==
  ASSUME TypeOK, TreeOK, Upright, NEW f \in Finders,
         ChildNext(f) \/ ChildReturns(f) \/ \E g \in Registrars : ChildCall(f, Path[g])
  PROVE  TreeOK' /\ Upright'
<1>1. UNCHANGED <<tree, new>>
  BY DEF ChildNext, ChildReturns, ChildCall
<1>2. TreeOK'
  BY <1>1 DEF TreeOK, tree
<1>3. /\ \A h \in Finders \ {f} : find'[h] = find[h]
      /\ find'[f].at \notin inverted
      /\ find'[f].at = 0 => find'[f].pc = "done"
  <2>1. CASE ChildNext(f)
    <3>1. find[f].at \in Ids /\ Head(find[f].left) \in Segments
      BY <2>1, RestIsSeq, NumbersOK DEF ChildNext, Looking, Upright, TypeOK
    <3>2. Lookup(find[f]) \notin inverted
      BY <3>1, EntryOK DEF Lookup
    <3> QED
      BY <2>1, <3>2 DEF ChildNext, TypeOK
  <2>2. CASE ChildReturns(f)
    BY <2>2 DEF ChildReturns, Upright, TypeOK
  <2>3. ASSUME NEW g \in Registrars, ChildCall(f, Path[g])
        PROVE  /\ \A h \in Finders \ {f} : find'[h] = find[h]
               /\ find'[f].at = 1
    BY <2>3 DEF ChildCall, TypeOK
  <2>4. 1 \notin inverted
    BY DEF TypeOK
  <2> QED
    BY <2>1, <2>2, <2>3, <2>4
<1> QED
  BY <1>1, <1>2, <1>3 DEF Upright, tree

(* ... all of them. *)
LEMMA NextTree ==
  ASSUME TypeOK, TreeOK, Upright, [Next]_vars PROVE TreeOK' /\ Upright'
<1>1. CASE UNCHANGED <<tree, calls>>
  BY <1>1 DEF TreeOK, Upright, tree, calls
<1>2. ASSUME \/ \E p \in Queries : Serve(p)
             \/ \E m \in pending : Valid(m[1], m[2]) \/ Invalid(m[1], m[2])
      PROVE  TreeOK' /\ Upright'
  BY <1>1, <1>2 DEF Serve, Valid, Invalid
<1>3. CASE UNCHANGED vars
  BY <1>1, <1>3 DEF vars
<1> QED
  BY <1>2, <1>3, NextKeeps, NewTree, InvertTree, ChildTree DEF Next

-----------------------------------------------------------------------------
(* Where calls are *)

AtServed == query.path /= <<>> => AtIs

(* In such a tree Chain and At are what their equations say. *)
LEMMA TreeFacts ==
  TypeOK /\ TreeOK => TreeShape /\ ChainIs /\ AtServed
<1> SUFFICES ASSUME TypeOK, TreeOK
             PROVE  TreeShape /\ ChainIs /\ AtServed
  OBVIOUS
<1>1. TreeShape
  BY ShapeOK
<1>2. ChainIs
  BY <1>1, ChainEquation DEF TypeOK
<1>3. query.path /= <<>> => Len(query.path) \in Nat \ {0}
  <2>1. query.path \in Seq(Segments)
    BY DEF TypeOK
  <2> QED
    BY <2>1, EmptySeq
<1> QED
  BY <1>1, <1>2, <1>3, AtEquation DEF AtServed

(* A segment goes from what is left to what is done. *)
LEMMA MoveOver ==
  ASSUME NEW p \in Seq(Segments), NEW q \in Seq(Segments), q /= <<>>
  PROVE  /\ Append(p, Head(q)) \in Seq(Segments)
         /\ Append(p, Head(q)) \o RestOf(q) = p \o q
<1>1. Head(q) \in Segments /\ Tail(q) \in Seq(Segments) /\ <<Head(q)>> \in Seq(Segments)
  BY HeadTailProperties
<1>2. Append(p, Head(q)) = p \o <<Head(q)>>
  BY <1>1, AppendIsConcat
<1>3. <<Head(q)>> \o Tail(q) = q
  <2>1. /\ Len(q) \in Nat \ {0} /\ Len(Tail(q)) = Len(q) - 1
        /\ \A i \in 1 .. Len(Tail(q)) : Tail(q)[i] = q[i + 1]
    BY HeadTailProperties, EmptySeq
  <2> DEFINE s == <<Head(q)>> \o Tail(q)
  <2>2. s \in Seq(Segments) /\ Len(s) = 1 + Len(Tail(q))
    BY <1>1, ConcatProperties
  <2>3. \A i \in 1 .. Len(s) : s[i] = IF i <= 1 THEN Head(q) ELSE Tail(q)[i - 1]
    BY <1>1, <2>1, <2>2, ConcatProperties
  <2> HIDE DEF s
  <2>4. \A i \in 1 .. Len(s) : s[i] = q[i]
    <3> SUFFICES ASSUME NEW i \in 1 .. Len(s) PROVE s[i] = q[i]
      OBVIOUS
    <3>1. CASE i = 1
      BY <2>3, <3>1
    <3>2. CASE i /= 1
      <4>1. i - 1 \in 1 .. Len(Tail(q)) /\ (i - 1) + 1 = i
        BY <2>1, <2>2, <3>2
      <4>2. s[i] = Tail(q)[i - 1]
        BY <2>2, <2>3, <3>2
      <4> QED
        BY <2>1, <4>1, <4>2
    <3> QED
      BY <3>1, <3>2
  <2>5. s = q
    BY <2>1, <2>2, <2>4, SeqEqual
  <2> QED
    BY <2>5 DEF s
<1> QED
  BY <1>1, <1>2, <1>3, AppendProperties, ConcatAssociative DEF RestOf

(* What a call has behind it and what it has left make up its path. *)
NewOnWay(g) ==
  /\ Chain[new[g].at] \o new[g].left = <<Root>> \o Path[g]
  /\ new[g].pc = "done" => new[g].left = <<>>

FindOnWay(f) ==
  /\ find[f].at /= 0 => Chain[find[f].at] \o find[f].left = <<Root>> \o find[f].path
  /\ find[f].pc = "done" /\ find[f].at /= 0 => find[f].left = <<>>

OnTheWay ==
  /\ \A g \in Registrars : NewOnWay(g)
  /\ \A f \in Finders : FindOnWay(f)

(* Every way starts at the root. *)
LEMMA RootChain == ASSUME ChainIs, TreeOK PROVE Chain[1] = <<Root>>
  BY NumbersOK DEF ChainIs, TreeOK

(* Calls start there. *)
LEMMA InitOnTheWay == Init => OnTheWay
<1> SUFFICES ASSUME Init PROVE OnTheWay
  OBVIOUS
<1>1. Chain[1] = <<Root>>
  BY InitTypeOK, InitTree, TreeFacts, RootChain
<1> QED
  BY <1>1 DEF Init, OnTheWay, NewOnWay, FindOnWay

(* A call goes on, over an entry of childRoutes. *)
LEMMA EntryChain ==
  ASSUME TypeOK, TreeOK, ChainIs, NEW r \in 1 .. made, NEW q \in Seq(Segments), q /= <<>>,
         childRoutes[r][Head(q)] /= 0
  PROVE  Chain[childRoutes[r][Head(q)]] \o RestOf(q) = Chain[r] \o q
<1> DEFINE c == childRoutes[r][Head(q)]
<1>1. r \in Ids /\ Head(q) \in Segments /\ made \in 1 .. MaxRoutes
  BY RestIsSeq, NumbersOK DEF TypeOK
<1>2. c \in 2 .. made
  BY <1>1, EntryOK
<1>3. c \in Ids
  BY <1>1, <1>2, NumbersOK
<1>4. parent[c] = r /\ pattern[c] = Head(q) /\ r /= 0
  BY <1>1, <1>2 DEF TreeOK
<1> HIDE DEF c
<1>5. Chain[c] = Append(Chain[r], Head(q)) /\ Chain[r] \in Seq(Segments)
  BY <1>1, <1>3, <1>4 DEF ChainIs
<1> QED
  BY <1>5, MoveOver DEF c

(* Calls that do not move stay on their way. *)
LEMMA WayStays ==
  ASSUME TypeOK, OnTheWay, \A r \in 1 .. made : Chain'[r] = Chain[r]
  PROVE  /\ \A g \in Registrars : new'[g] = new[g] => NewOnWay(g)'
         /\ \A f \in Finders : find'[f] = find[f] => FindOnWay(f)'
<1>1. ASSUME NEW g \in Registrars, new'[g] = new[g] PROVE NewOnWay(g)'
  <2>1. new[g].at \in 1 .. made
    BY TypeParts DEF NewType
  <2> QED
    BY <1>1, <2>1 DEF OnTheWay, NewOnWay
<1>2. ASSUME NEW f \in Finders, find'[f] = find[f] PROVE FindOnWay(f)'
  <2>1. find[f].at /= 0 => find[f].at \in 1 .. made
    <3>1. find[f].at \in 0 .. made /\ made \in 1 .. MaxRoutes
      BY TypeParts, NumbersOK DEF FindType, TreeType
    <3> QED
      BY <3>1
  <2> QED
    BY <1>2, <2>1 DEF OnTheWay, FindOnWay
<1> QED
  BY <1>1, <1>2

(* A New that steps stays on its way, ... *)
LEMMA NewWay ==
  ASSUME TypeOK, TypeOK', TreeOK, TreeOK', OnTheWay, ChainIs, ChainIs',
         \A r \in 1 .. made : Chain'[r] = Chain[r],
         NEW g \in Registrars,
         NewCall(g) \/ Descend(g) \/ FromRoute(g) \/ Insert(g) \/ NewReturns(g)
  PROVE  NewOnWay(g)'
<1>1. new[g].at \in 1 .. made /\ new[g].left \in Seq(Segments)
  BY TypeParts DEF NewType
<1>2. Chain[new[g].at] \o new[g].left = <<Root>> \o Path[g]
  BY DEF OnTheWay, NewOnWay
<1>3. CASE NewCall(g) \/ Insert(g) \/ NewReturns(g)
  <2>1. \/ new' = [new EXCEPT ![g].pc = "looking"]
        \/ new' = [new EXCEPT ![g].pc = "done"] /\ new[g].left = <<>>
    BY <1>3 DEF NewCall, Insert, NewReturns
  <2>2. new \in [Registrars -> [pc : {"none", "looking", "inserting", "done"},
                               at : 1 .. made, left : Seq(Segments)]]
    BY DEF TypeOK
  <2>3. /\ new'[g].at = new[g].at /\ new'[g].left = new[g].left
        /\ new'[g].pc = "done" => new[g].left = <<>>
    BY <2>1, <2>2
  <2>4. Chain'[new'[g].at] = Chain[new[g].at]
    BY <1>1, <2>3
  <2> QED
    BY <1>2, <2>3, <2>4 DEF NewOnWay
<1>4. CASE Descend(g)
  <2>1. /\ new'[g].at = Lookup(new[g]) /\ new'[g].left = RestOf(new[g].left)
        /\ new'[g].pc = "looking"
    BY <1>4 DEF Descend, Looking, TypeOK
  <2>2. Chain[Lookup(new[g])] \o RestOf(new[g].left) = <<Root>> \o Path[g]
    BY <1>1, <1>2, <1>4, EntryChain DEF Descend, Looking, Lookup
  <2>3. Lookup(new[g]) \in 1 .. made
    <3>1. new'[g].at \in 1 .. made'
      BY TypeParts DEF NewType
    <3> QED
      BY <1>4, <2>1, <3>1 DEF Descend, tree
  <2> QED
    BY <2>1, <2>2, <2>3 DEF NewOnWay
<1>5. CASE FromRoute(g)
  <2> DEFINE n == made + 1
             r == new[g].at
             q == new[g].left
  <2>1. /\ new'[g].at = n /\ new'[g].left = RestOf(q) /\ new'[g].pc = "inserting"
    BY <1>5 DEF FromRoute, TypeOK
  <2>2. Head(q) \in Segments /\ q /= <<>>
    BY <1>1, <1>5, RestIsSeq DEF FromRoute, Looking
  <2>3. n \in Ids /\ Ids' = Ids /\ parent'[n] = r /\ pattern'[n] = Head(q) /\ r /= 0
    <3>1. TreeType
      BY TypeParts
    <3>2. made \in 1 .. MaxRoutes /\ made < MaxRoutes /\ MaxRoutes \in Nat
      BY <1>5, <3>1, NumbersOK DEF TreeType, FromRoute, Subscribe
    <3>3. n \in Ids
      BY <3>2, NumbersOK
    <3>4. parent' = [parent EXCEPT ![n] = r] /\ pattern' = [pattern EXCEPT ![n] = Head(q)]
      BY <1>1, <1>5 DEF FromRoute, Subscribe
    <3>5. parent'[n] = r /\ pattern'[n] = Head(q)
      BY <3>1, <3>3, <3>4 DEF TreeType
    <3> QED
      BY <1>1, <3>3, <3>5 DEF Ids
  <2>4. r \in Ids
    BY <1>1, NumbersOK DEF TypeOK
  <2>5. Chain'[n] = Append(Chain[r], Head(q)) /\ Chain[r] \in Seq(Segments)
    <3>1. Chain'[n] = Append(Chain'[r], Head(q))
      BY <2>3 DEF ChainIs
    <3>2. Chain'[r] = Chain[r]
      BY <1>1
    <3> QED
      BY <2>4, <3>1, <3>2 DEF ChainIs
  <2> HIDE DEF n, r, q
  <2>6. Chain'[n] \o RestOf(q) = Chain[r] \o q
    BY <1>1, <2>2, <2>5, MoveOver DEF q
  <2> QED
    BY <1>2, <2>1, <2>6 DEF NewOnWay, r, q
<1> QED
  BY <1>3, <1>4, <1>5

(* ... and so does a Child. *)
LEMMA ChildWay ==
  ASSUME TypeOK, TypeOK', TreeOK, Upright, OnTheWay, ChainIs,
         \A r \in 1 .. made : Chain'[r] = Chain[r],
         NEW f \in Finders,
         ChildNext(f) \/ ChildReturns(f) \/ \E g \in Registrars : ChildCall(f, Path[g])
  PROVE  FindOnWay(f)'
<1>1. /\ find[f].at \in 0 .. made /\ find[f].left \in Seq(Segments)
      /\ made \in 1 .. MaxRoutes /\ MaxRoutes \in Nat
  BY TypeParts, NumbersOK DEF FindType, TreeType
<1>2. CASE ChildNext(f)
  <2>1. /\ find'[f].at = Lookup(find[f]) /\ find'[f].left = RestOf(find[f].left)
        /\ find'[f].path = find[f].path
        /\ find'[f].pc = "done" => Lookup(find[f]) = 0
    BY <1>2 DEF ChildNext, Looking, TypeOK
  <2>2. CASE Lookup(find[f]) /= 0
    <3>1. find[f].at /= 0
      BY <1>2 DEF ChildNext, Looking, Upright
    <3>2. find[f].at \in 1 .. made
      BY <1>1, <3>1
    <3>3. Chain[Lookup(find[f])] \o RestOf(find[f].left) = <<Root>> \o find[f].path
      BY <1>1, <1>2, <2>2, <3>1, <3>2, EntryChain DEF ChildNext, Looking, Lookup, OnTheWay, FindOnWay
    <3>4. Lookup(find[f]) \in 1 .. made
      <4>1. find'[f].at \in 0 .. made'
        BY TypeParts DEF FindType
      <4>2. made' = made
        BY <1>2 DEF ChildNext, tree
      <4> QED
        BY <1>1, <2>1, <2>2, <4>1, <4>2
    <3> QED
      BY <2>1, <2>2, <3>3, <3>4 DEF FindOnWay
  <2>3. CASE Lookup(find[f]) = 0
    BY <2>1, <2>3 DEF FindOnWay
  <2> QED
    BY <2>2, <2>3
<1>3. CASE ChildReturns(f)
  <2>1. /\ find'[f].at = find[f].at /\ find'[f].left = find[f].left
        /\ find'[f].path = find[f].path /\ find[f].left = <<>>
    BY <1>3 DEF ChildReturns, TypeOK
  <2>2. find[f].at /= 0 => find[f].at \in 1 .. made
    BY <1>1
  <2> QED
    BY <2>1, <2>2 DEF OnTheWay, FindOnWay
<1>4. ASSUME NEW g \in Registrars, ChildCall(f, Path[g]) PROVE FindOnWay(f)'
  <2>1. /\ find'[f].at = 1 /\ find'[f].left = Path[g]
        /\ find'[f].path = Path[g] /\ find'[f].pc = "looking"
    BY <1>4 DEF ChildCall, TypeOK
  <2>2. Chain'[1] = <<Root>>
    BY <1>1, RootChain
  <2> QED
    BY <2>1, <2>2 DEF FindOnWay
<1> QED
  BY <1>2, <1>3, <1>4

(* Every step keeps calls on their way. *)
LEMMA NextOnTheWay ==
  ASSUME TypeOK, TypeOK', TreeOK, TreeOK', Upright, OnTheWay, [Next]_vars
  PROVE  OnTheWay'
<1>1. TreeShape /\ ChainIs /\ ChainIs'
  BY TreeFacts, PTL
<1>2. \A r \in 1 .. made : Chain'[r] = Chain[r]
  BY <1>1, NextKeeps, ChainStays DEF TypeOK
<1>3. CASE UNCHANGED <<new, find>>
  BY <1>2, <1>3, WayStays DEF OnTheWay
<1>4. ASSUME NEW g \in Registrars,
             NewCall(g) \/ Descend(g) \/ FromRoute(g) \/ Insert(g) \/ NewReturns(g)
      PROVE  OnTheWay'
  <2>1. UNCHANGED find /\ \A h \in Registrars \ {g} : new'[h] = new[h]
    BY <1>4 DEF NewCall, Descend, FromRoute, Insert, NewReturns, TypeOK
  <2> QED
    BY <1>1, <1>2, <1>4, <2>1, NewWay, WayStays DEF OnTheWay
<1>5. ASSUME NEW f \in Finders,
             ChildNext(f) \/ ChildReturns(f) \/ \E g \in Registrars : ChildCall(f, Path[g])
      PROVE  OnTheWay'
  <2>1. UNCHANGED new /\ \A h \in Finders \ {f} : find'[h] = find[h]
    BY <1>5 DEF ChildNext, ChildReturns, ChildCall, TypeOK
  <2> QED
    BY <1>1, <1>2, <1>5, <2>1, ChildWay, WayStays DEF OnTheWay
<1>6. ASSUME \/ \E r \in Ids, s \in Diverts : InvertRoute(r, s)
             \/ \E p \in Queries : Serve(p)
             \/ \E m \in pending : Valid(m[1], m[2]) \/ Invalid(m[1], m[2])
      PROVE  OnTheWay'
  BY <1>3, <1>6 DEF InvertRoute, Serve, Valid, Invalid, calls
<1>7. CASE UNCHANGED vars
  BY <1>3, <1>7 DEF vars, calls
<1> QED
  BY <1>4, <1>5, <1>6, <1>7 DEF Next

-----------------------------------------------------------------------------
(* Ways that stay *)

(* An entry of childRoutes that stays as it is: no New is about to enter    *)
(* another route over it.                                                   *)
Settled(r, s) ==
  /\ childRoutes[r][s] /= 0
  /\ \A g \in Registrars :
       new[g].pc = "inserting" => parent[new[g].at] /= r \/ pattern[new[g].at] /= s

(* Settled entries lead from r along p to t. *)
Steps(w, p) == \A i \in 1 .. Len(p) : Settled(w[i], p[i]) /\ childRoutes[w[i]][p[i]] = w[i + 1]

Walk(r, p, t) ==
  \E w \in [1 .. Len(p) + 1 -> Ids] : w[1] = r /\ w[Len(p) + 1] = t /\ Steps(w, p)

Leads(r, p) == \E t \in Ids : Walk(r, p, t)

(* Settled entries stay, ... *)
LEMMA SettledStays ==
  ASSUME TypeOK, TreeOK, Upright, [Next]_vars, NEW r \in Ids, NEW s \in Segments, Settled(r, s)
  PROVE  childRoutes'[r][s] = childRoutes[r][s] /\ Settled(r, s)'
<1>1. Kept
  BY NextKeeps
<1>2. \A g \in Registrars :
        /\ new[g].at \in 1 .. made
        /\ parent'[new[g].at] = parent[new[g].at] /\ pattern'[new[g].at] = pattern[new[g].at]
  BY <1>1, TypeParts DEF Kept, NewType
<1>3. CASE childRoutes' = childRoutes /\ \A g \in Registrars : new'[g].pc = "inserting" => new'[g] = new[g]
  BY <1>2, <1>3 DEF Settled
<1>4. ASSUME NEW g \in Registrars, FromRoute(g)
      PROVE  childRoutes'[r][s] = childRoutes[r][s] /\ Settled(r, s)'
  <2> DEFINE n == made + 1
  <2>1. /\ \A h \in Registrars \ {g} : new'[h] = new[h]
        /\ new'[g].at = n /\ childRoutes' = childRoutes
    BY <1>4, TypeParts DEF FromRoute, Subscribe, NewType
  <2>2. parent'[n] = new[g].at /\ pattern'[n] = Head(new[g].left)
    <3>1. made \in 1 .. MaxRoutes /\ made < MaxRoutes /\ MaxRoutes \in Nat
      BY <1>4, TypeParts, NumbersOK DEF TreeType, FromRoute, Subscribe
    <3>2. n \in Ids
      BY <3>1, NumbersOK
    <3> QED
      BY <1>4, <3>2, TypeParts DEF FromRoute, Subscribe, TreeType
  <2>3. childRoutes[new[g].at][Head(new[g].left)] = 0
    BY <1>4 DEF FromRoute, Lookup
  <2> HIDE DEF n
  <2> QED
    BY <1>2, <2>1, <2>2, <2>3 DEF Settled
<1>5. ASSUME NEW g \in Registrars, Insert(g)
      PROVE  childRoutes'[r][s] = childRoutes[r][s] /\ Settled(r, s)'
  <2>1. childRoutes' = [childRoutes EXCEPT ![parent[new[g].at]][pattern[new[g].at]] = new[g].at]
    BY <1>5 DEF Insert, UnderName
  <2>2. parent[new[g].at] /= r \/ pattern[new[g].at] /= s
    BY <1>5 DEF Insert, Settled
  <2>3. childRoutes'[r][s] = childRoutes[r][s]
    BY <2>1, <2>2, TypeParts DEF TreeType
  <2>4. \A h \in Registrars : new'[h].at = new[h].at /\ (new'[h].pc = "inserting" => new[h].pc = "inserting")
    BY <1>5, TypeParts DEF Insert, NewType
  <2> QED
    BY <1>2, <2>3, <2>4 DEF Settled
<1>6. ASSUME NEW g \in Registrars, NewCall(g) \/ Descend(g) \/ NewReturns(g)
      PROVE  childRoutes'[r][s] = childRoutes[r][s] /\ Settled(r, s)'
  <2>1. childRoutes' = childRoutes /\ \A h \in Registrars \ {g} : new'[h] = new[h]
    BY <1>6, TypeParts DEF NewCall, Descend, NewReturns, tree, NewType
  <2>2. new'[g].pc /= "inserting"
    BY <1>6, TypeParts DEF NewCall, Descend, Looking, NewReturns, NewType
  <2> QED
    BY <1>3, <2>1, <2>2
<1>7. CASE UNCHANGED <<childRoutes, new>>
  BY <1>3, <1>7
<1>8. ASSUME NEW f \in Finders,
             ChildNext(f) \/ ChildReturns(f) \/ \E g \in Registrars : ChildCall(f, Path[g])
      PROVE  UNCHANGED <<childRoutes, new>>
  BY <1>8 DEF ChildNext, ChildReturns, ChildCall, tree
<1>9. ASSUME \/ \E k \in Ids, t \in Diverts : InvertRoute(k, t)
             \/ \E p \in Queries : Serve(p)
             \/ \E m \in pending : Valid(m[1], m[2]) \/ Invalid(m[1], m[2])
             \/ UNCHANGED vars
      PROVE  UNCHANGED <<childRoutes, new>>
  BY <1>9 DEF InvertRoute, Subscribe, Serve, Valid, Invalid, calls, tree, vars
<1> QED
  BY <1>4, <1>5, <1>6, <1>7, <1>8, <1>9 DEF Next

(* ... so ways over them do, ... *)
LEMMA WalkStays ==
  ASSUME TypeOK, TreeOK, Upright, [Next]_vars, NEW r, NEW p \in Seq(Segments), NEW t, Walk(r, p, t)
  PROVE  Walk(r, p, t)'
<1>1. PICK w \in [1 .. Len(p) + 1 -> Ids] : w[1] = r /\ w[Len(p) + 1] = t /\ Steps(w, p)
  BY DEF Walk
<1>2. ASSUME NEW i \in 1 .. Len(p)
      PROVE  Settled(w[i], p[i])' /\ childRoutes'[w[i]][p[i]] = w[i + 1]
  <2>1. Len(p) \in Nat /\ p[i] \in Segments
    BY ElementOfSeq, LenProperties
  <2>2. w[i] \in Ids
    BY <2>1
  <2> QED
    BY <1>1, <2>1, <2>2, SettledStays DEF Steps
<1>3. Steps(w, p)'
  BY <1>2 DEF Steps
<1>4. Ids' = Ids
  BY DEF Ids
<1> QED
  BY <1>1, <1>3, <1>4 DEF Walk

(* ... wherever they lead. *)
LEMMA LeadsStays ==
  ASSUME TypeOK, TreeOK, Upright, [Next]_vars, NEW r, NEW p \in Seq(Segments), Leads(r, p)
  PROVE  Leads(r, p)'
<1>1. Ids' = Ids
  BY DEF Ids
<1> QED
  BY <1>1, WalkStays DEF Leads

EmptyWalks == \A r \in Ids : Walk(r, <<>>, r)

(* Ways begin, ... *)
LEMMA WalkEmpty == EmptyWalks
<1> SUFFICES ASSUME NEW r \in Ids PROVE Walk(r, <<>>, r)
  BY DEF EmptyWalks
<1> DEFINE w == [i \in 1 .. 1 |-> r]
<1>1. Len(<<>>) = 0 /\ w \in [1 .. Len(<<>>) + 1 -> Ids]
  OBVIOUS
<1>2. Steps(w, <<>>)
  BY DEF Steps
<1>3. w[1] = r /\ w[Len(<<>>) + 1] = r
  OBVIOUS
<1> HIDE DEF w
<1> QED
  BY <1>1, <1>2, <1>3 DEF Walk

(* One entry more at the end of a way, ... *)
WalksGoOn ==
  \A r, t \in Ids, p \in Seq(Segments), s \in Segments :
    Walk(r, p, t) /\ Settled(t, s) /\ childRoutes[t][s] \in Ids
      => Walk(r, Append(p, s), childRoutes[t][s])

(* ... go on over a settled entry, ... *)
LEMMA WalkOn == WalksGoOn
<1> SUFFICES ASSUME NEW r \in Ids, NEW t \in Ids, NEW p \in Seq(Segments), NEW s \in Segments,
                    Walk(r, p, t), Settled(t, s), childRoutes[t][s] \in Ids
             PROVE  Walk(r, Append(p, s), childRoutes[t][s])
  BY DEF WalksGoOn
<1>1. PICK w \in [1 .. Len(p) + 1 -> Ids] : w[1] = r /\ w[Len(p) + 1] = t /\ Steps(w, p)
  BY DEF Walk
<1> DEFINE n == Len(p)
           q == Append(p, s)
           u == childRoutes[t][s]
           v == [i \in 1 .. n + 2 |-> IF i = n + 2 THEN u ELSE w[i]]
<1>2. /\ n \in Nat /\ Len(q) = n + 1
      /\ \A i \in 1 .. n : q[i] = p[i]
      /\ q[n + 1] = s
  BY LenProperties, AppendProperties
<1>3. v \in [1 .. Len(q) + 1 -> Ids] /\ v[1] = r /\ v[Len(q) + 1] = u
  BY <1>1, <1>2
<1>4. ASSUME NEW i \in 1 .. Len(q) PROVE Settled(v[i], q[i]) /\ childRoutes[v[i]][q[i]] = v[i + 1]
  <2>1. CASE i = n + 1
    <3>1. v[i] = t /\ v[i + 1] = u /\ q[i] = s
      BY <1>1, <1>2, <2>1
    <3> QED
      BY <3>1
  <2>2. CASE i \in 1 .. n
    <3>1. v[i] = w[i] /\ v[i + 1] = w[i + 1] /\ q[i] = p[i]
      BY <1>2, <2>2
    <3> HIDE DEF v, q
    <3> QED
      BY <1>1, <2>2, <3>1 DEF Steps
  <2> QED
    BY <1>2, <2>1, <2>2
<1> HIDE DEF v, q, u
<1>5. Steps(v, q)
  BY <1>4 DEF Steps
<1>6. Walk(r, q, u)
  BY <1>3, <1>5 DEF Walk
<1> QED
  BY <1>6 DEF q, u

(* ... one less at its beginning. *)
LEMMA WalkFirst ==
  ASSUME NEW r, NEW p \in Seq(Segments), p /= <<>>, Leads(r, p)
  PROVE  /\ childRoutes[r][Head(p)] /= 0
         /\ Leads(childRoutes[r][Head(p)], RestOf(p))
<1>1. PICK t \in Ids, w \in [1 .. Len(p) + 1 -> Ids] : w[1] = r /\ w[Len(p) + 1] = t /\ Steps(w, p)
  BY DEF Leads, Walk
<1> DEFINE n == Len(p)
           q == Tail(p)
           v == [i \in 1 .. n |-> w[i + 1]]
<1>2. /\ n \in Nat \ {0} /\ q \in Seq(Segments) /\ Len(q) = n - 1
      /\ \A i \in 1 .. Len(q) : q[i] = p[i + 1]
  BY HeadTailProperties, EmptySeq
<1>3. Head(p) = p[1]
  OBVIOUS
<1>4. Settled(w[1], p[1]) /\ childRoutes[w[1]][p[1]] = w[2]
  <2>1. 1 \in 1 .. n /\ 1 + 1 = 2
    BY <1>2
  <2> QED
    BY <1>1, <2>1 DEF Steps
<1>5. v \in [1 .. Len(q) + 1 -> Ids] /\ v[1] = w[2] /\ v[Len(q) + 1] = t
  BY <1>1, <1>2
<1>6. ASSUME NEW i \in 1 .. Len(q) PROVE Settled(v[i], q[i]) /\ childRoutes[v[i]][q[i]] = v[i + 1]
  <2>1. i + 1 \in 1 .. n /\ v[i] = w[i + 1] /\ v[i + 1] = w[(i + 1) + 1] /\ q[i] = p[i + 1]
    BY <1>2
  <2> HIDE DEF v, q
  <2> QED
    BY <1>1, <2>1 DEF Steps
<1> HIDE DEF v, q
<1>7. Steps(v, q)
  BY <1>6 DEF Steps
<1>8. Leads(w[2], q)
  BY <1>5, <1>7 DEF Leads, Walk
<1> QED
  BY <1>1, <1>3, <1>4, <1>8 DEF q, RestOf, Settled

-----------------------------------------------------------------------------
(* A New that runs alone *)

(* A New that has overlapped with no other runs alone, and from the root    *)
(* settled entries lead to where it is, in the end along all of its path;   *)
(* a Child is on such a way when that New had returned before it began.     *)
AloneOK(g) == Running(g) => \A h \in Registrars : Running(h) => h = g

NewLed(g) ==
  /\ new[g].pc = "none" => new[g].at = 1 /\ new[g].left = Path[g]
  /\ new[g].pc = "looking" =>
       \E p \in Seq(Segments) : Path[g] = p \o new[g].left /\ Walk(1, p, new[g].at)
  /\ new[g].pc = "inserting" =>
       LET r == parent[new[g].at]
           s == pattern[new[g].at] IN
       /\ childRoutes[r][s] = 0
       /\ \E p \in Seq(Segments) : Path[g] = Append(p, s) \o new[g].left /\ Walk(1, p, r)
  /\ new[g].pc = "done" => Leads(1, Path[g])

FindGoes(f) == find[f].at /= 0 /\ Leads(find[f].at, find[f].left)

FindLed(f, g) ==
  /\ new[g].pc = "done" /\ g \notin overlapped
  /\ find[f].path = Path[g] => FindGoes(f)

WaysOK ==
  /\ \A g \in Registrars : g \notin overlapped => AloneOK(g) /\ NewLed(g)
  /\ \A f \in Finders : \A g \in find[f].known : FindLed(f, g)

(* At first no New runs and no Child has begun. *)
LEMMA InitWays == Init => WaysOK
  BY DEF Init, WaysOK, AloneOK, Running, NewLed

(* Only those that call, and those that run then, become overlapped. *)
LEMMA AloneStays ==
  ASSUME TypeOK, [Next]_vars, NEW g \in Registrars, g \notin overlapped',
         g \notin overlapped => AloneOK(g)
  PROVE  /\ g \notin overlapped
         /\ AloneOK(g)'
<1>1. ASSUME NEW h \in Registrars, NewCall(h)
      PROVE  g \notin overlapped /\ AloneOK(g)'
  <2> DEFINE others == {k \in Registrars : Running(k)}
  <2>1. \A k \in Registrars : Running(k)' <=> (k = h \/ Running(k))
    BY <1>1 DEF NewCall, Running, TypeOK
  <2>2. CASE others = {}
    BY <1>1, <2>1, <2>2 DEF NewCall, AloneOK
  <2>3. CASE others /= {}
    <3>1. overlapped' = overlapped \cup others \cup {h}
      BY <1>1, <2>3 DEF NewCall
    <3> QED
      BY <2>1, <3>1 DEF AloneOK
  <2> QED
    BY <2>2, <2>3
<1>2. CASE UNCHANGED overlapped /\ \A k \in Registrars : Running(k)' => Running(k)
  BY <1>2 DEF AloneOK
<1>3. ASSUME NEW h \in Registrars, Descend(h) \/ FromRoute(h) \/ Insert(h) \/ NewReturns(h)
      PROVE  UNCHANGED overlapped /\ \A k \in Registrars : Running(k)' => Running(k)
  <2>1. UNCHANGED overlapped /\ \A k \in Registrars \ {h} : new'[k] = new[k]
    BY <1>3, TypeParts DEF Descend, FromRoute, Insert, NewReturns, NewType
  <2>2. Running(h)
    BY <1>3 DEF Descend, FromRoute, Insert, NewReturns, Looking, Running
  <2> QED
    BY <2>1, <2>2 DEF Running
<1>4. ASSUME NEW f \in Finders,
             ChildNext(f) \/ ChildReturns(f) \/ \E h \in Registrars : ChildCall(f, Path[h])
      PROVE  UNCHANGED <<new, overlapped>>
  BY <1>4 DEF ChildNext, ChildReturns, ChildCall
<1>5. ASSUME \/ \E r \in Ids, s \in Diverts : InvertRoute(r, s)
             \/ \E p \in Queries : Serve(p)
             \/ \E m \in pending : Valid(m[1], m[2]) \/ Invalid(m[1], m[2])
             \/ UNCHANGED vars
      PROVE  UNCHANGED <<new, overlapped>>
  BY <1>5 DEF InvertRoute, Serve, Valid, Invalid, calls, vars
<1>6. CASE UNCHANGED <<new, overlapped>>
  BY <1>2, <1>6 DEF Running
<1> QED
  BY <1>1, <1>2, <1>3, <1>4, <1>5, <1>6 DEF Next

(* Only Insert changes entries. *)
LEMMA EntriesStay ==
  ASSUME [Next]_vars
  PROVE  UNCHANGED childRoutes \/ \E h \in Registrars : Insert(h)
  BY DEF Next, vars, NewCall, Descend, FromRoute, NewReturns, InvertRoute, Subscribe,
         ChildCall, ChildNext, ChildReturns, Serve, Valid, Invalid, tree

(* The others stay on their way, ... *)
LEMMA LedStays ==
  ASSUME TypeOK, TreeOK, Upright, [Next]_vars, NEW g \in Registrars,
         AloneOK(g), NewLed(g), new'[g] = new[g]
  PROVE  NewLed(g)'
<1>1. /\ new[g].at \in 1 .. made /\ new[g].left \in Seq(Segments) /\ Path[g] \in Seq(Segments)
  BY TypeParts, RoutesAssumption DEF NewType
<1>2. parent'[new[g].at] = parent[new[g].at] /\ pattern'[new[g].at] = pattern[new[g].at]
  BY <1>1, NextKeeps DEF Kept
<1>3. CASE new[g].pc = "inserting"
  <2>0. PICK r, s : r = parent[new[g].at] /\ s = pattern[new[g].at]
    OBVIOUS
  <2>1. PICK p \in Seq(Segments) : Path[g] = Append(p, s) \o new[g].left /\ Walk(1, p, r)
    BY <1>3, <2>0 DEF NewLed
  <2>2. Walk(1, p, r)'
    BY <2>1, WalkStays
  <2>3. childRoutes'[r][s] = 0
    <3>1. ASSUME NEW h \in Registrars, Insert(h) PROVE FALSE
      <4>1. h = g
        BY <1>3, <3>1 DEF Insert, AloneOK, Running
      <4>2. new'[h].pc = "looking"
        BY <3>1, TypeParts DEF Insert, NewType
      <4> QED
        BY <1>3, <4>1, <4>2
    <3> QED
      BY <1>3, <2>0, <3>1, EntriesStay DEF NewLed
  <2> QED
    BY <1>2, <1>3, <2>0, <2>1, <2>2, <2>3 DEF NewLed
<1>4. CASE new[g].pc = "looking"
  <2>0. PICK r : r = new[g].at
    OBVIOUS
  <2>1. PICK p \in Seq(Segments) : Path[g] = p \o new[g].left /\ Walk(1, p, r)
    BY <1>4, <2>0 DEF NewLed
  <2>2. Walk(1, p, r)'
    BY <2>1, WalkStays
  <2> QED
    BY <1>4, <2>0, <2>1, <2>2 DEF NewLed
<1>5. CASE new[g].pc \in {"none", "done"}
  <2>1. new[g].pc = "done" => Leads(1, Path[g])'
    BY <1>1, LeadsStays DEF NewLed
  <2> QED
    BY <1>5, <2>1 DEF NewLed
<1> QED
  BY <1>3, <1>4, <1>5, TypeParts DEF NewType

(* ... and the one that steps, goes on on it. *)
LEMMA StepLed ==
  ASSUME TypeOK, TypeOK', TreeOK, Upright, [Next]_vars, NEW g \in Registrars,
         AloneOK(g), NewLed(g),
         NewCall(g) \/ Descend(g) \/ FromRoute(g) \/ Insert(g) \/ NewReturns(g)
  PROVE  NewLed(g)'
<1>0. PICK r, q : r = new[g].at /\ q = new[g].left
  OBVIOUS
<1>1. /\ r \in 1 .. made /\ q \in Seq(Segments) /\ Path[g] \in Seq(Segments)
      /\ made \in 1 .. MaxRoutes /\ MaxRoutes \in Nat
  BY <1>0, TypeParts, RoutesAssumption, NumbersOK DEF NewType, TreeType
<1>2. r \in Ids /\ 1 \in Ids /\ Ids' = Ids
  BY <1>1, NumbersOK DEF Ids
<1>3. q /= <<>> => Head(q) \in Segments /\ RestOf(q) \in Seq(Segments)
  BY <1>1, RestIsSeq
<1>4. CASE NewCall(g)
  <2>1. new'[g] = [pc |-> "looking", at |-> 1, left |-> Path[g]]
    <3>1. new[g].pc = "none" /\ r = 1 /\ q = Path[g] /\ new' = [new EXCEPT ![g].pc = "looking"]
      BY <1>0, <1>4 DEF NewCall, NewLed
    <3>2. NewType
      BY TypeParts
    <3> QED
      BY <1>0, <3>1, <3>2 DEF NewType
  <2>2. Walk(1, <<>>, 1)'
    <3>1. EmptyWalks'
      BY WalkEmpty, PTL
    <3> QED
      BY <1>2, <3>1 DEF EmptyWalks
  <2>3. Path[g] = <<>> \o Path[g] /\ <<>> \in Seq(Segments)
    BY <1>1, ConcatEmptySeq
  <2>4. \E p \in Seq(Segments) : Path[g] = p \o Path[g] /\ Walk(1, p, 1)'
    BY <2>2, <2>3, Zenon
  <2>5. new'[g].pc = "looking" /\ new'[g].at = 1 /\ new'[g].left = Path[g]
    BY <2>1
  <2> QED
    BY <2>4, <2>5 DEF NewLed
<1>5. CASE Descend(g)
  <2>0. PICK c : c = childRoutes[r][Head(q)]
    OBVIOUS
  <2>1. /\ new[g].pc = "looking" /\ q /= <<>> /\ c /= 0
        /\ new'[g].pc = "looking" /\ new'[g].at = c /\ new'[g].left = RestOf(q)
    <3>1. /\ new[g].pc = "looking" /\ new[g].left /= <<>> /\ Lookup(new[g]) /= 0
          /\ new'[g].pc = "looking" /\ new'[g].at = Lookup(new[g])
          /\ new'[g].left = RestOf(new[g].left)
      BY <1>5 DEF Descend, Looking, TypeOK
    <3> QED
      BY <1>0, <2>0, <3>1 DEF Lookup
  <2>2. PICK p \in Seq(Segments) : Path[g] = p \o q /\ Walk(1, p, r)
    BY <1>0, <2>1 DEF NewLed
  <2>3. Settled(r, Head(q))
    BY <2>0, <2>1 DEF AloneOK, Running, Settled
  <2>4. c \in Ids
    <3>1. c \in 2 .. made
      BY <1>2, <1>3, <2>0, <2>1, EntryOK
    <3> QED
      BY <1>1, <3>1, NumbersOK
  <2>5. Append(p, Head(q)) \in Seq(Segments) /\ Append(p, Head(q)) \o RestOf(q) = p \o q
    BY <1>1, <2>1, MoveOver
  <2>6. Walk(1, Append(p, Head(q)), c)
    BY <1>2, <1>3, <2>1, <2>2, <2>3, <2>4, <2>0, WalkOn DEF WalksGoOn
  <2>7. Walk(1, Append(p, Head(q)), c)'
    BY <2>5, <2>6, WalkStays
  <2> QED
    BY <2>1, <2>2, <2>5, <2>7 DEF NewLed
<1>6. CASE FromRoute(g)
  <2>0. PICK n : n = made + 1
    OBVIOUS
  <2>1. /\ new[g].pc = "looking" /\ q /= <<>> /\ childRoutes[r][Head(q)] = 0 /\ UNCHANGED childRoutes
        /\ new'[g].pc = "inserting" /\ new'[g].at = n /\ new'[g].left = RestOf(q)
    BY <1>0, <1>6, <2>0, TypeParts DEF FromRoute, Looking, Lookup, Subscribe, NewType
  <2>2. n \in Ids
    BY <1>1, <1>6, <2>0, NumbersOK DEF FromRoute, Subscribe
  <2>3. parent'[n] = r /\ pattern'[n] = Head(q)
    BY <1>0, <1>6, <2>0, <2>2, TypeParts DEF FromRoute, Subscribe, TreeType
  <2>4. PICK p \in Seq(Segments) : Path[g] = p \o q /\ Walk(1, p, r)
    BY <1>0, <2>1 DEF NewLed
  <2>5. Append(p, Head(q)) \o RestOf(q) = p \o q
    BY <1>1, <2>1, MoveOver
  <2>6. Walk(1, p, r)'
    BY <2>4, WalkStays
  <2> QED
    BY <2>1, <2>3, <2>4, <2>5, <2>6 DEF NewLed
<1>7. CASE Insert(g)
  <2>0. PICK k, s : k = parent[r] /\ s = pattern[r]
    OBVIOUS
  <2>1. /\ new[g].pc = "inserting" /\ UNCHANGED <<parent, pattern>>
        /\ new'[g].pc = "looking" /\ new'[g].at = r /\ new'[g].left = q
        /\ \A h \in Registrars \ {g} : new'[h] = new[h]
        /\ childRoutes' = [childRoutes EXCEPT ![k][s] = r]
    BY <1>0, <1>7, <2>0, TypeParts DEF Insert, UnderName, NewType
  <2>2. k \in Ids /\ s \in Segments
    <3>1. r /= 1
      BY <1>0, <2>1 DEF Upright
    <3>2. r \in 2 .. made
      BY <1>1, <3>1
    <3>3. k \in 1 .. (r - 1)
      BY <2>0, <3>2 DEF TreeOK
    <3>4. k \in 1 .. MaxRoutes
      BY <1>1, <3>3
    <3> QED
      BY <1>2, <2>0, <3>4, TypeParts, NumbersOK DEF TreeType
  <2>3. PICK p \in Seq(Segments) : Path[g] = Append(p, s) \o q /\ Walk(1, p, k)
    BY <1>0, <2>0, <2>1 DEF NewLed
  <2>4. childRoutes'[k][s] = r
    BY <2>1, <2>2, TypeParts DEF TreeType
  <2>5. Settled(k, s)'
    <3>1. \A h \in Registrars : new'[h].pc /= "inserting"
      BY <2>1 DEF AloneOK, Running
    <3>2. r /= 0
      BY <1>1
    <3> QED
      BY <2>2, <2>4, <3>1, <3>2 DEF Settled
  <2>6. Walk(1, p, k)'
    BY <2>3, WalkStays
  <2>7. WalksGoOn'
    BY WalkOn, PTL
  <2>8. Walk(1, Append(p, s), r)'
    BY <1>2, <2>2, <2>4, <2>5, <2>6, <2>7 DEF WalksGoOn
  <2>9. Append(p, s) \in Seq(Segments)
    BY <2>2, AppendProperties
  <2> QED
    BY <2>1, <2>3, <2>8, <2>9 DEF NewLed
<1>8. CASE NewReturns(g)
  <2>1. new[g].pc = "looking" /\ q = <<>> /\ new'[g].pc = "done"
    BY <1>0, <1>8, TypeParts DEF NewReturns, NewType
  <2>2. PICK p \in Seq(Segments) : Path[g] = p \o q /\ Walk(1, p, r)
    BY <1>0, <2>1 DEF NewLed
  <2>3. Path[g] = p
    BY <2>1, <2>2, ConcatEmptySeq
  <2>4. Leads(1, Path[g])
    BY <1>2, <2>2, <2>3 DEF Leads
  <2>5. Leads(1, Path[g])'
    BY <1>1, <2>4, LeadsStays
  <2> QED
    BY <2>1, <2>5 DEF NewLed
<1> QED
  BY <1>4, <1>5, <1>6, <1>7, <1>8

(* A New that has returned stays so, and is overlapped by no later one. *)
LEMMA DoneStays ==
  ASSUME TypeOK, [Next]_vars, NEW g \in Registrars, new[g].pc = "done"
  PROVE  /\ new'[g] = new[g]
         /\ g \notin overlapped => g \notin overlapped'
<1>1. ASSUME NEW h \in Registrars,
             NewCall(h) \/ Descend(h) \/ FromRoute(h) \/ Insert(h) \/ NewReturns(h)
      PROVE  new'[g] = new[g] /\ (g \notin overlapped => g \notin overlapped')
  <2>1. h /= g
    BY <1>1 DEF NewCall, Descend, FromRoute, Insert, NewReturns, Looking
  <2>2. new'[g] = new[g]
    BY <1>1, <2>1, TypeParts DEF NewCall, Descend, FromRoute, Insert, NewReturns, NewType
  <2>3. ~Running(g)
    BY DEF Running
  <2>4. CASE UNCHANGED overlapped
    BY <2>2, <2>4
  <2>5. CASE NewCall(h)
    BY <2>1, <2>2, <2>3, <2>5 DEF NewCall
  <2> QED
    BY <1>1, <2>4, <2>5 DEF Descend, FromRoute, Insert, NewReturns
<1>2. ASSUME NEW f \in Finders,
             ChildNext(f) \/ ChildReturns(f) \/ \E h \in Registrars : ChildCall(f, Path[h])
      PROVE  UNCHANGED <<new, overlapped>>
  BY <1>2 DEF ChildNext, ChildReturns, ChildCall
<1>3. ASSUME \/ \E r \in Ids, s \in Diverts : InvertRoute(r, s)
             \/ \E p \in Queries : Serve(p)
             \/ \E m \in pending : Valid(m[1], m[2]) \/ Invalid(m[1], m[2])
             \/ UNCHANGED vars
      PROVE  UNCHANGED <<new, overlapped>>
  BY <1>3 DEF InvertRoute, Serve, Valid, Invalid, calls, vars
<1> QED
  BY <1>1, <1>2, <1>3 DEF Next

(* A Child that does not step stays on a settled way, ... *)
LEMMA FindStays ==
  ASSUME TypeOK, TreeOK, Upright, [Next]_vars, NEW f \in Finders, NEW g \in Registrars,
         FindLed(f, g), find'[f] = find[f]
  PROVE  FindLed(f, g)'
<1>1. find[f].left \in Seq(Segments)
  BY TypeParts DEF FindType
<1>2. new'[g].pc = "done" /\ g \notin overlapped'
  BY DoneStays DEF FindLed
<1>3. ASSUME find[f].path = Path[g] PROVE FindGoes(f)'
  <2>0. PICK c, q : c = find[f].at /\ q = find[f].left
    OBVIOUS
  <2>1. c /= 0 /\ Leads(c, q)'
    BY <1>1, <1>3, <2>0, LeadsStays DEF FindLed, FindGoes
  <2> QED
    BY <2>0, <2>1 DEF FindGoes
<1> QED
  BY <1>2, <1>3 DEF FindLed

(* ... and one that does, too. *)
LEMMA FindSteps ==
  ASSUME TypeOK, TreeOK, Upright, WaysOK, [Next]_vars, NEW f \in Finders,
         ChildNext(f) \/ ChildReturns(f) \/ \E h \in Registrars : ChildCall(f, Path[h]),
         NEW g \in find'[f].known
  PROVE  FindLed(f, g)'
<1>1. find[f].left \in Seq(Segments) /\ find[f].known \subseteq Registrars
  BY TypeParts DEF FindType
<1>2. ASSUME NEW h \in Registrars, ChildCall(f, Path[h]) PROVE FindLed(f, g)'
  <2>1. /\ find'[f].at = 1 /\ find'[f].left = Path[h] /\ find'[f].path = Path[h]
        /\ g \in Registrars /\ new[g].pc = "done" /\ g \notin overlapped
    BY <1>2, TypeParts DEF ChildCall, Returned, FindType
  <2>2. Leads(1, Path[g]) /\ Path[g] \in Seq(Segments)
    BY <2>1, RoutesAssumption DEF WaysOK, NewLed
  <2>3. Leads(1, Path[g])'
    BY <2>2, LeadsStays
  <2>4. new'[g].pc = "done" /\ g \notin overlapped'
    BY <2>1, DoneStays
  <2> QED
    BY <2>1, <2>3, <2>4 DEF FindLed, FindGoes
<1>3. ASSUME ChildNext(f) \/ ChildReturns(f)
      PROVE  g \in find[f].known /\ find'[f].path = find[f].path
  <2>1. find \in [Finders -> [pc : {"none", "looking", "done"}, at : 0 .. made, left : Seq(Segments),
                             path : Seq(Segments), known : SUBSET Registrars]]
    BY DEF TypeOK
  <2>2. find'[f].known = find[f].known /\ find'[f].path = find[f].path
    BY <1>3, <2>1 DEF ChildNext, ChildReturns
  <2> QED
    BY <2>2
<1>4. CASE ChildNext(f)
  <2>1. /\ find[f].left /= <<>>
        /\ find'[f].at = childRoutes[find[f].at][Head(find[f].left)]
        /\ find'[f].left = RestOf(find[f].left)
    BY <1>4, TypeParts DEF ChildNext, Looking, Lookup, FindType
  <2>2. g \in Registrars /\ FindLed(f, g)
    BY <1>1, <1>3, <1>4 DEF WaysOK
  <2>3. ASSUME find[f].path = Path[g] PROVE FindGoes(f)'
    <3>0. PICK c, q : c = find'[f].at /\ q = find'[f].left
      OBVIOUS
    <3>1. c /= 0 /\ Leads(c, q)
      BY <1>1, <2>1, <2>2, <2>3, <3>0, WalkFirst DEF FindLed, FindGoes
    <3>2. q \in Seq(Segments)
      BY <1>1, <2>1, <3>0, RestIsSeq
    <3>3. Leads(c, q)'
      BY <3>1, <3>2, LeadsStays
    <3> QED
      BY <3>0, <3>1, <3>3 DEF FindGoes
  <2>4. new'[g].pc = "done" /\ g \notin overlapped'
    BY <2>2, DoneStays DEF FindLed
  <2> QED
    BY <1>3, <1>4, <2>3, <2>4 DEF FindLed
<1>5. CASE ChildReturns(f)
  <2>1. find'[f].at = find[f].at /\ find'[f].left = find[f].left
    BY <1>5, TypeParts DEF ChildReturns, FindType
  <2>2. g \in Registrars /\ FindLed(f, g)
    BY <1>1, <1>3, <1>5 DEF WaysOK
  <2>3. ASSUME find[f].path = Path[g] PROVE FindGoes(f)'
    <3>0. PICK c, q : c = find[f].at /\ q = find[f].left
      OBVIOUS
    <3>1. c /= 0 /\ Leads(c, q)'
      BY <1>1, <2>2, <2>3, <3>0, LeadsStays DEF FindLed, FindGoes
    <3> QED
      BY <2>1, <3>0, <3>1 DEF FindGoes
  <2>4. new'[g].pc = "done" /\ g \notin overlapped'
    BY <2>2, DoneStays DEF FindLed
  <2> QED
    BY <1>3, <1>5, <2>1, <2>3, <2>4 DEF FindLed
<1> QED
  BY <1>2, <1>4, <1>5

(* One call steps at a time. *)
LEMMA WhoSteps ==
  ASSUME TypeOK, [Next]_vars
  PROVE  /\ \/ UNCHANGED new
            \/ \E g \in Registrars :
                 /\ NewCall(g) \/ Descend(g) \/ FromRoute(g) \/ Insert(g) \/ NewReturns(g)
                 /\ \A h \in Registrars \ {g} : new'[h] = new[h]
         /\ \/ UNCHANGED find
            \/ \E f \in Finders :
                 /\ ChildNext(f) \/ ChildReturns(f) \/ \E g \in Registrars : ChildCall(f, Path[g])
                 /\ \A h \in Finders \ {f} : find'[h] = find[h]
<1>1. ASSUME NEW g \in Registrars,
             NewCall(g) \/ Descend(g) \/ FromRoute(g) \/ Insert(g) \/ NewReturns(g)
      PROVE  UNCHANGED find /\ \A h \in Registrars \ {g} : new'[h] = new[h]
  BY <1>1, TypeParts DEF NewCall, Descend, FromRoute, Insert, NewReturns, NewType
<1>2. ASSUME NEW f \in Finders,
             ChildNext(f) \/ ChildReturns(f) \/ \E g \in Registrars : ChildCall(f, Path[g])
      PROVE  UNCHANGED new /\ \A h \in Finders \ {f} : find'[h] = find[h]
  BY <1>2, TypeParts DEF ChildNext, ChildReturns, ChildCall, FindType
<1>3. ASSUME \/ \E r \in Ids, s \in Diverts : InvertRoute(r, s)
             \/ \E p \in Queries : Serve(p)
             \/ \E m \in pending : Valid(m[1], m[2]) \/ Invalid(m[1], m[2])
             \/ UNCHANGED vars
      PROVE  UNCHANGED <<new, find>>
  BY <1>3 DEF InvertRoute, Serve, Valid, Invalid, calls, vars
<1> QED
  BY <1>1, <1>2, <1>3 DEF Next

(* Every step keeps what ran alone found. *)
LEMMA NextWays ==
  ASSUME TypeOK, TypeOK', TreeOK, Upright, WaysOK, [Next]_vars
  PROVE  WaysOK'
<1>1. ASSUME NEW g \in Registrars, g \notin overlapped' PROVE AloneOK(g)' /\ NewLed(g)'
  <2>1. g \notin overlapped /\ AloneOK(g)'
    BY <1>1, AloneStays DEF WaysOK
  <2>2. AloneOK(g) /\ NewLed(g)
    BY <2>1 DEF WaysOK
  <2> QED
    BY <2>1, <2>2, LedStays, StepLed, WhoSteps
<1>2. ASSUME NEW f \in Finders, NEW g \in find'[f].known PROVE FindLed(f, g)'
  <2>1. CASE find'[f] = find[f]
    <3>1. FindLed(f, g) /\ g \in Registrars
      BY <2>1, TypeParts DEF WaysOK, FindType
    <3> QED
      BY <2>1, <3>1, FindStays
  <2> QED
    BY <2>1, FindSteps, WhoSteps
<1> QED
  BY <1>1, <1>2 DEF WaysOK

-----------------------------------------------------------------------------
(* The request *)

(* A route gets requests from its parent, when that has accepted or, if it  *)
(* is inverted, rejected them.                                              *)
Feeds(r) == IF r \in inverted THEN rejected ELSE received

(* What is on its way to a route, what has been decided, and how far down   *)
(* the request has to come: each straight route up to number k, which has   *)
(* those that were registered or found when the request was served, is      *)
(* reached when its parent has accepted the request.                        *)
Carried(r, p) ==
  /\ p = SubSeq(query.path, At[r], Len(query.path))
  /\ r /= 1 => parent[r] \in Feeds(r)

Judged ==
  /\ \A r \in received :
       /\ Validate(pattern[r], query.path[At[r]])
       /\ r /= 1 => parent[r] \in Feeds(r)
  /\ \A r \in rejected : ~Validate(pattern[r], query.path[At[r]])

Reached(r) == r \in received \cup rejected \/ \E m \in pending : m[1] = r

Covers(k) ==
  /\ \A g \in query.known : new[g].pc = "done" /\ new[g].at <= k
  /\ \A r \in query.found : r <= k /\ r \notin inverted
  /\ \A r \in 1 .. k : r \notin inverted /\ (r = 1 \/ parent[r] \in received) => Reached(r)

RequestOK ==
  IF query.path = <<>>
    THEN pending = {} /\ received = {} /\ rejected = {}
    ELSE /\ \A m \in pending : Carried(m[1], m[2])
         /\ Judged
         /\ \E k \in 1 .. made : Covers(k)

(* There is no request at first. *)
LEMMA InitRequest == Init => RequestOK
  BY DEF Init, RequestOK

(* What a child gets of the segments. *)
LEMMA PassedOn ==
  ASSUME NEW path \in Seq(Segments), NEW a \in 1 .. Len(path)
  PROVE  LET p == SubSeq(path, a, Len(path)) IN
         /\ Head(p) = path[a]
         /\ FromRequest(p) = SubSeq(path, IF a = Len(path) THEN a ELSE a + 1, Len(path))
<1> DEFINE n == Len(path)
           p == SubSeq(path, a, n)
<1>1. n \in Nat /\ a \in Nat /\ a <= n /\ n \in a .. n
  BY LenProperties
<1>2. Head(p) = path[a] /\ Tail(p) = SubSeq(path, a + 1, n)
  BY <1>1, HeadTailOfSubSeq
<1>3. Len(p) = n - a + 1
  <2>1. \A i \in a .. n : path[i] \in Segments
    BY <1>1, ElementOfSeq
  <2> QED
    BY <1>1, <2>1, SubSeqProperties
<1> HIDE DEF p, n
<1>4. FromRequest(p) = IF a = n THEN p ELSE Tail(p)
  BY <1>1, <1>3 DEF FromRequest
<1> QED
  BY <1>2, <1>4 DEF p, n

(* What is known of a request, for as long as it is the same one. *)
LEMMA SameRequest ==
  ASSUME TypeOK, TypeOK', TreeOK, TreeOK', [Next]_vars, query' = query, query.path /= <<>>
  PROVE  /\ \A r \in 1 .. made :
              /\ At'[r] = At[r] /\ At[r] \in 1 .. Len(query.path)
              /\ parent'[r] = parent[r] /\ pattern'[r] = pattern[r]
              /\ r \in inverted' <=> r \in inverted
         /\ made \in Nat /\ made' \in Nat /\ made <= made'
<1>1. TreeShape /\ AtServed /\ AtServed'
  BY TreeFacts, PTL
<1>2. Kept /\ made \in Ids
  BY NextKeeps DEF TypeOK
<1>3. made \in Nat /\ made' \in Nat /\ made <= made' /\ 1 .. made \subseteq Ids
  BY <1>2, NumbersOK DEF Kept
<1>4. ASSUME NEW r \in 1 .. made PROVE At'[r] = At[r] /\ At[r] \in 1 .. Len(query.path)
  BY <1>1, <1>2, <1>3, AtStays DEF AtIs, AtServed
<1> QED
  BY <1>2, <1>3, <1>4 DEF Kept

(* Other steps leave the request where it is. *)
LEMMA RequestStays ==
  ASSUME TypeOK, TypeOK', TreeOK, TreeOK', [Next]_vars, RequestOK, UNCHANGED request
  PROVE  RequestOK'
<1>1. CASE query.path = <<>>
  BY <1>1 DEF RequestOK, request
<1>2. CASE query.path /= <<>>
  <2>1. /\ \A r \in 1 .. made :
             /\ At'[r] = At[r]
             /\ parent'[r] = parent[r] /\ pattern'[r] = pattern[r]
             /\ r \in inverted' <=> r \in inverted
        /\ made \in Nat /\ made' \in Nat /\ made <= made'
    BY <1>2, SameRequest DEF request
  <2>2. UNCHANGED <<query, pending, received, rejected>>
    BY DEF request
  <2>3. received \subseteq 1 .. made /\ rejected \subseteq 1 .. made
    BY DEF TypeOK
  <2>4. query.known \subseteq Registrars /\ query.found \subseteq 1 .. made
    BY DEF TypeOK
  <2>5. ASSUME NEW m \in pending PROVE Carried(m[1], m[2])'
    <3>1. m[1] \in 1 .. made
      BY DEF TypeOK
    <3>2. Carried(m[1], m[2])
      BY <1>2 DEF RequestOK
    <3> QED
      BY <2>1, <2>2, <3>1, <3>2 DEF Carried, Feeds
  <2>6. Judged'
    BY <1>2, <2>1, <2>2, <2>3 DEF RequestOK, Judged, Feeds
  <2>7. PICK k \in 1 .. made : Covers(k)
    BY <1>2 DEF RequestOK
  <2>8. Covers(k)'
    <3>1. \A g \in query.known : new'[g] = new[g]
      BY <2>4, <2>7, DoneStays DEF Covers
    <3>2. k \in 1 .. made' /\ 1 .. k \subseteq 1 .. made
      BY <2>1
    <3> QED
      BY <2>1, <2>2, <2>4, <2>7, <3>1, <3>2 DEF Covers, Reached
  <2>9. k \in 1 .. made'
    BY <2>1
  <2> QED
    BY <1>2, <2>2, <2>5, <2>6, <2>8, <2>9 DEF RequestOK
<1> QED
  BY <1>1, <1>2

(* Serve sends it to the root. *)
LEMMA ServeRequest ==
  ASSUME TypeOK, TypeOK', TreeOK, TreeOK', Upright, RequestOK, NEW p \in Queries, Serve(p)
  PROVE  RequestOK'
<1>1. /\ query' = [path |-> p, known |-> Returned, found |-> Found]
      /\ pending' = {<<1, p>>} /\ received' = {} /\ rejected' = {}
      /\ UNCHANGED <<made, parent, inverted, new>>
  BY DEF Serve, RequestOK, tree, calls
<1>2. p \in Seq(Segments) /\ p /= <<>>
  BY RoutesAssumption
<1>3. At'[1] = 1
  <2>1. AtServed'
    BY TreeFacts, PTL
  <2>2. parent'[1] = 0 /\ 1 \in Ids'
    BY <1>1, NumbersOK DEF TreeOK, Ids
  <2> QED
    BY <1>1, <1>2, <2>1, <2>2 DEF AtIs, AtServed
<1>4. Carried(1, p)'
  BY <1>1, <1>2, <1>3, SubSeqFull DEF Carried
<1>5. Judged'
  BY <1>1 DEF Judged
<1>6. made \in Nat /\ made >= 1
  BY NumbersOK DEF TypeOK
<1>7. \A g \in Returned : new[g].pc = "done" /\ new[g].at \in 1 .. made
  BY DEF Returned, TypeOK
<1>8. \A r \in Found : r \in 0 .. made /\ r \notin inverted
  BY DEF Found, TypeOK, Upright
<1>9. ASSUME NEW k, k = made PROVE Covers(k)'
  <2>1. Reached(1)'
    BY <1>1 DEF Reached
  <2> QED
    BY <1>1, <1>6, <1>7, <1>8, <1>9, <2>1 DEF Covers
<1>10. \E k \in 1 .. made' : Covers(k)'
  BY <1>1, <1>6, <1>9
<1> QED
  BY <1>1, <1>2, <1>4, <1>5, <1>10 DEF RequestOK

(* Valid and Invalid send it on. *)
LEMMA StepRequest ==
  ASSUME TypeOK, TypeOK', TreeOK, TreeOK', [Next]_vars, RequestOK,
         NEW m \in pending, Valid(m[1], m[2]) \/ Invalid(m[1], m[2])
  PROVE  RequestOK'
<1>0. PICK r, p : r = m[1] /\ p = m[2]
  OBVIOUS
<1> DEFINE path == query.path
           len == Len(query.path)
<1>1. /\ UNCHANGED <<made, parent, pattern, inverted, new, query>>
      /\ pending' \subseteq (1 .. made) \X (Seq(Segments) \ {<<>>})
  BY DEF Valid, Invalid, tree, calls, TypeOK
<1>2. query.path /= <<>> /\ path \in Seq(Segments) /\ len \in Nat
  BY LenProperties DEF RequestOK, TypeOK
<1>3. /\ \A c \in 1 .. made : At'[c] = At[c] /\ At[c] \in 1 .. len
      /\ made \in Nat
  BY <1>1, <1>2, SameRequest
<1>4. /\ r \in 1 .. made /\ <<r, p>> = m
      /\ received \subseteq 1 .. made /\ rejected \subseteq 1 .. made /\ inverted \subseteq 2 .. made
  <2>1. m \in (1 .. made) \X (Seq(Segments) \ {<<>>})
    BY DEF TypeOK
  <2>2. m[1] \in 1 .. made /\ m = <<m[1], m[2]>>
    BY <2>1
  <2> QED
    BY <1>0, <2>2 DEF TypeOK
<1>5. Carried(r, p) /\ Judged
  BY <1>0, <1>2 DEF RequestOK
<1>6. /\ Head(p) = path[At[r]]
      /\ FromRequest(p) = SubSeq(path, IF At[r] = len THEN At[r] ELSE At[r] + 1, len)
  BY <1>2, <1>3, <1>4, <1>5, PassedOn DEF Carried
<1>7. ASSUME NEW c \in 2 .. made, parent[c] = r
      PROVE  At[c] = IF c \in inverted \/ At[r] = len THEN At[r] ELSE At[r] + 1
  <2>1. AtServed /\ c \in Ids
    <3>1. c \in 1 .. MaxRoutes
      <4>1. made \in 1 .. MaxRoutes /\ MaxRoutes \in Nat
        BY NumbersOK DEF TypeOK
      <4> QED
        BY <4>1
    <3> QED
      BY <3>1, TreeFacts, NumbersOK
  <2>2. parent[c] /= 0
    BY <1>4, <1>7
  <2> QED
    BY <1>2, <1>7, <2>1, <2>2 DEF AtIs, AtServed
<1>8. PICK k \in 1 .. made : Covers(k)
  BY <1>2 DEF RequestOK
<1>9. 1 .. k \subseteq 1 .. made
  BY <1>3
<1> HIDE DEF path, len
<1>10. CASE Valid(m[1], m[2])
  <2>1. /\ Validate(pattern[r], Head(p))
        /\ received' = received \cup {r} /\ UNCHANGED rejected
        /\ pending' = (pending \ {<<r, p>>}) \cup {<<c, FromRequest(p)>> : c \in Subscribed(r)}
    BY <1>0, <1>10 DEF Valid
  <2>2. ASSUME NEW n \in pending, n[1] \in 1 .. made PROVE Carried(n[1], n[2])'
    <3>1. Carried(n[1], n[2])
      BY <1>2 DEF RequestOK
    <3> QED
      BY <1>1, <1>3, <2>1, <2>2, <3>1 DEF Carried, Feeds
  <2>3. ASSUME NEW c \in Subscribed(r) PROVE Carried(c, FromRequest(p))'
    <3>1. c \in 2 .. made /\ parent[c] = r /\ c \notin inverted /\ c \in 1 .. made
      BY DEF Subscribed
    <3>2. FromRequest(p) = SubSeq(path, At[c], len)
      BY <1>6, <1>7, <3>1
    <3>3. r \in received'
      BY <2>1
    <3> QED
      BY <1>1, <1>3, <3>1, <3>2, <3>3 DEF Carried, Feeds, path, len
  <2>4. Judged'
    <3>1. Validate(pattern[r], path[At[r]])
      BY <1>6, <2>1
    <3>2. r /= 1 => parent[r] \in Feeds(r)
      BY <1>5 DEF Carried
    <3> QED
      BY <1>1, <1>3, <1>4, <1>5, <2>1, <3>1, <3>2 DEF Judged, Feeds, path
  <2>5. ASSUME NEW c \in 1 .. k, Reached(c) PROVE Reached(c)'
    BY <1>4, <2>1, <2>5 DEF Reached
  <2>6. ASSUME NEW c \in 1 .. k, c /= 1, c \notin inverted, parent[c] = r PROVE Reached(c)'
    <3>1. c \in Subscribed(r)
      BY <1>9, <2>6 DEF Subscribed
    <3>2. <<c, FromRequest(p)>> \in pending'
      BY <2>1, <3>1
    <3> QED
      BY <3>2 DEF Reached
  <2>7. Covers(k)'
    BY <1>1, <1>8, <2>1, <2>5, <2>6 DEF Covers
  <2>8. \A n \in pending' : Carried(n[1], n[2])'
    <3> SUFFICES ASSUME NEW n \in pending' PROVE Carried(n[1], n[2])'
      OBVIOUS
    <3>1. n[1] \in 1 .. made
      BY <1>1
    <3>2. CASE n \in pending
      BY <2>2, <3>1, <3>2
    <3>3. CASE n \notin pending
      <4>1. PICK c \in Subscribed(r) : n = <<c, FromRequest(p)>>
        BY <2>1, <3>3
      <4> QED
        BY <2>3, <4>1
    <3> QED
      BY <3>2, <3>3
  <2> QED
    BY <1>1, <1>2, <2>4, <2>7, <2>8 DEF RequestOK
<1>11. CASE Invalid(m[1], m[2])
  <2>1. /\ ~Validate(pattern[r], Head(p))
        /\ rejected' = rejected \cup {r} /\ UNCHANGED received
        /\ pending' = (pending \ {<<r, p>>}) \cup {<<c, p>> : c \in Diverted(r)}
    BY <1>0, <1>11 DEF Invalid
  <2>2. ASSUME NEW n \in pending, n[1] \in 1 .. made PROVE Carried(n[1], n[2])'
    <3>1. Carried(n[1], n[2])
      BY <1>2 DEF RequestOK
    <3> QED
      BY <1>1, <1>3, <2>1, <2>2, <3>1 DEF Carried, Feeds
  <2>3. ASSUME NEW c \in Diverted(r) PROVE Carried(c, p)'
    <3>1. c \in 2 .. made /\ parent[c] = r /\ c \in inverted /\ c \in 1 .. made
      BY DEF Diverted
    <3>2. At[c] = At[r]
      BY <1>7, <3>1
    <3>3. r \in rejected'
      BY <2>1
    <3> QED
      BY <1>1, <1>3, <1>5, <3>1, <3>2, <3>3 DEF Carried, Feeds
  <2>4. Judged'
    <3>1. ~Validate(pattern[r], path[At[r]])
      BY <1>6, <2>1
    <3>2. r /= 1 => parent[r] \in Feeds(r)
      BY <1>5 DEF Carried
    <3> QED
      BY <1>1, <1>3, <1>4, <1>5, <2>1, <3>1, <3>2 DEF Judged, Feeds, path
  <2>5. ASSUME NEW c \in 1 .. k, Reached(c) PROVE Reached(c)'
    BY <1>4, <2>1, <2>5 DEF Reached
  <2>6. Covers(k)'
    BY <1>1, <1>8, <2>1, <2>5 DEF Covers
  <2>7. \A n \in pending' : Carried(n[1], n[2])'
    <3> SUFFICES ASSUME NEW n \in pending' PROVE Carried(n[1], n[2])'
      OBVIOUS
    <3>1. n[1] \in 1 .. made
      BY <1>1
    <3>2. CASE n \in pending
      BY <2>2, <3>1, <3>2
    <3>3. CASE n \notin pending
      <4>1. PICK c \in Diverted(r) : n = <<c, p>>
        BY <2>1, <3>3
      <4> QED
        BY <2>3, <4>1
    <3> QED
      BY <3>2, <3>3
  <2> QED
    BY <1>1, <1>2, <2>4, <2>6, <2>7 DEF RequestOK
<1> QED
  BY <1>10, <1>11

(* Every step keeps track of the request. *)
LEMMA NextRequest ==
  ASSUME TypeOK, TypeOK', TreeOK, TreeOK', Upright, RequestOK, [Next]_vars
  PROVE  RequestOK'
<1>1. CASE UNCHANGED request
  BY <1>1, RequestStays
<1>2. ASSUME \/ \E g \in Registrars :
                  NewCall(g) \/ Descend(g) \/ FromRoute(g) \/ Insert(g) \/ NewReturns(g)
             \/ \E r \in Ids, s \in Diverts : InvertRoute(r, s)
             \/ \E f \in Finders, g \in Registrars : ChildCall(f, Path[g])
             \/ \E f \in Finders : ChildNext(f) \/ ChildReturns(f)
             \/ UNCHANGED vars
      PROVE  UNCHANGED request
  BY <1>2 DEF NewCall, Descend, FromRoute, Insert, NewReturns, InvertRoute,
              ChildCall, ChildNext, ChildReturns, vars, request
<1> QED
  BY <1>1, <1>2, ServeRequest, StepRequest DEF Next

-----------------------------------------------------------------------------
(* A request that is nowhere on its way any more has come down each straight *)
(* line of routes that it matches.                                           *)
LEMMA Served ==
  ASSUME TypeOK, TreeOK, RequestOK, query.path /= <<>>, pending = {},
         NEW k \in 1 .. made, Covers(k), NEW t \in 1 .. k, t \notin inverted,
         Matches(query.path, Chain[t])
  PROVE  t \in received
<1> DEFINE path == query.path
           Fits(r) == /\ r \notin inverted
                      /\ Len(Chain[r]) <= Len(path)
                      /\ \A i \in 1 .. Len(Chain[r]) : Validate(Chain[r][i], path[i])
           S == {r \in 1 .. k : Fits(r) => r \in received /\ At[r] = Len(Chain[r])}
<1>1. TreeShape /\ ChainIs /\ AtIs
  BY TreeFacts DEF AtServed
<1>2. /\ made \in 1 .. MaxRoutes /\ k \in Nat /\ k <= made /\ 1 .. k \subseteq 1 .. made
      /\ 1 .. k \subseteq Ids
  <2>1. made \in 1 .. MaxRoutes /\ MaxRoutes \in Nat
    BY NumbersOK DEF TypeOK
  <2> QED
    BY <2>1, NumbersOK
<1>3. Judged
  BY DEF RequestOK
<1>4. ASSUME NEW r \in 1 .. k, Fits(r), Reached(r), At[r] = Len(Chain[r]),
             Chain[r][Len(Chain[r])] = pattern[r], Len(Chain[r]) \in 1 .. Len(Chain[r])
      PROVE  r \in S
  <2>1. r \in received \cup rejected
    BY <1>4 DEF Reached
  <2>2. Validate(pattern[r], path[At[r]])
    BY <1>4
  <2>3. r \notin rejected
    BY <1>3, <2>2 DEF Judged
  <2> QED
    BY <1>4, <2>1, <2>3
<1>5. ASSUME NEW r \in 1 .. k, parent[r] = 0 \/ parent[r] \in S PROVE r \in S
  <2> SUFFICES ASSUME Fits(r) PROVE r \in S
    OBVIOUS
  <2>1. r \in Ids /\ pattern[r] \in Segments
    BY <1>2 DEF TypeOK
  <2>2. CASE parent[r] = 0
    <3>1. r = 1
      <4>1. r \in 2 .. made => parent[r] \in 1 .. (r - 1)
        BY DEF TreeOK
      <4> QED
        BY <1>2, <2>2, <4>1
    <3>2. Chain[r] = <<pattern[r]>>
      BY <1>1, <2>1, <2>2 DEF ChainIs
    <3>3. /\ Len(Chain[r]) = 1 /\ Len(Chain[r]) \in 1 .. Len(Chain[r])
          /\ Chain[r][Len(Chain[r])] = pattern[r]
      BY <3>2
    <3>4. At[r] = 1
      BY <1>1, <2>1, <2>2 DEF AtIs
    <3>5. Reached(r)
      BY <3>1 DEF Covers
    <3> HIDE DEF Fits, S
    <3> QED
      BY <1>4, <3>3, <3>4, <3>5
  <2>3. CASE parent[r] /= 0
    <3> DEFINE u == parent[r]
    <3>1. u \in 1 .. k /\ u \in S /\ r /= 1
      BY <1>5, <2>3 DEF TreeOK
    <3>2. u \notin inverted
      <4>1. r \in 2 .. made
        BY <1>2, <3>1
      <4> QED
        BY <4>1 DEF TreeOK
    <3>3. Chain[r] = Append(Chain[u], pattern[r]) /\ Chain[u] \in Seq(Segments)
      BY <1>1, <1>2, <2>1, <2>3, <3>1 DEF ChainIs
    <3>4. /\ Len(Chain[u]) \in Nat /\ Len(Chain[r]) = Len(Chain[u]) + 1
          /\ \A i \in 1 .. Len(Chain[u]) : Chain[r][i] = Chain[u][i]
          /\ Chain[r][Len(Chain[u]) + 1] = pattern[r]
      BY <2>1, <3>3, AppendProperties
    <3>5. Len(path) \in Nat
      BY LenProperties DEF TypeOK
    <3> HIDE DEF u
    <3>6. Fits(u)
      BY <3>2, <3>4, <3>5
    <3>7. u \in received /\ At[u] = Len(Chain[u])
      BY <3>1, <3>6
    <3>8. At[r] = Len(Chain[r])
      <4>1. At[u] /= Len(path)
        BY <3>4, <3>5, <3>7
      <4>2. At[r] = At[u] + 1
        BY <1>1, <2>1, <2>3, <4>1 DEF AtIs, u
      <4> QED
        BY <3>4, <3>7, <4>2
    <3>9. Reached(r)
      BY <3>7 DEF Covers, u
    <3>10. Len(Chain[r]) \in 1 .. Len(Chain[r])
      BY <3>4
    <3> HIDE DEF Fits, S
    <3> QED
      BY <1>4, <3>4, <3>8, <3>9, <3>10
  <2> QED
    BY <2>2, <2>3
<1>6. t \in S
  <2>1. \A r \in 1 .. k : parent[r] \in 0 .. (r - 1)
    BY <1>1, <1>2 DEF TreeShape
  <2> HIDE DEF S
  <2> QED
    BY <1>2, <1>5, <2>1, DownTheTree
<1>7. Fits(t)
  <2>1. Len(path) = Len(Chain[t]) /\ \A i \in 1 .. Len(path) : Validate(Chain[t][i], path[i])
    BY DEF Matches
  <2>2. Len(path) \in Nat
    BY LenProperties DEF TypeOK
  <2> QED
    BY <2>1, <2>2
<1> QED
  BY <1>6, <1>7

(* The inductive invariant. *)
IInv == TypeOK /\ TreeOK /\ Upright /\ OnTheWay /\ WaysOK /\ RequestOK

(* The invariant is inductive. *)
LEMMA InvHolds == Spec => []IInv
<1>1. Init => IInv
  BY InitTypeOK, InitTree, InitOnTheWay, InitWays, InitRequest DEF IInv
<1>2. IInv /\ [Next]_vars => IInv'
  <2> SUFFICES ASSUME IInv, [Next]_vars PROVE IInv'
    OBVIOUS
  <2>1. TypeOK /\ TreeOK /\ Upright /\ OnTheWay /\ WaysOK /\ RequestOK
    BY DEF IInv
  <2>2. TypeOK'
    BY <2>1, NextTypeOK DEF Upright
  <2>3. TreeOK' /\ Upright'
    BY <2>1, NextTree
  <2>4. OnTheWay'
    BY <2>1, <2>2, <2>3, NextOnTheWay
  <2>5. WaysOK'
    BY <2>1, <2>2, NextWays
  <2>6. RequestOK'
    BY <2>1, <2>2, <2>3, NextRequest
  <2> QED
    BY <2>2, <2>3, <2>4, <2>5, <2>6 DEF IInv
<1> QED
  BY <1>1, <1>2, PTL DEF Spec

(* Every state is well typed: routes, entries and calls refer to routes that *)
(* have been made, and no request reaches a route without a segment left,   *)
(* which Route.Init would read at index 0.                                  *)
THEOREM SpecTypeOK == Spec => []TypeOK
<1>1. IInv => TypeOK
  BY DEF IInv
<1> QED
  BY <1>1, InvHolds, PTL

(* What Child returns was made for the path it was asked for and hangs on   *)
(* what its parent accepts, whatever else runs.                             *)
THEOREM SpecFoundIsAsked == Spec => []FoundIsAsked
<1>1. IInv => FoundIsAsked
  <2> SUFFICES ASSUME IInv, NEW f \in Finders, find[f].pc = "done", find[f].at /= 0
               PROVE  Chain[find[f].at] = <<Root>> \o find[f].path /\ find[f].at \notin inverted
    BY DEF FoundIsAsked
  <2>1. Chain[find[f].at] \o <<>> = <<Root>> \o find[f].path
    BY DEF IInv, OnTheWay, FindOnWay
  <2>2. find[f].at \notin inverted
    BY DEF IInv, Upright
  <2>3. Chain[find[f].at] \in Seq(Segments)
    <3>1. ChainIs
      BY TreeFacts DEF IInv
    <3>2. find[f].at \in Ids
      BY NumbersOK DEF IInv, TypeOK
    <3> QED
      BY <3>1, <3>2 DEF ChainIs
  <2> QED
    BY <2>1, <2>2, <2>3, ConcatEmptySeq
<1> QED
  BY <1>1, InvHolds, PTL

(* Child finds the path of a New that had returned before it began, if that *)
(* New ran alone.                                                           *)
THEOREM SpecRegisteredIsFound == Spec => []RegisteredIsFound
<1>1. IInv => RegisteredIsFound
  BY DEF IInv, WaysOK, FindLed, FindGoes, RegisteredIsFound
<1> QED
  BY <1>1, InvHolds, PTL

(* A request that matches the path of a New that had returned before it     *)
(* reaches a route for it, also if that New did not run alone.              *)
THEOREM SpecRegisteredIsServed == Spec => []RegisteredIsServed
<1>1. IInv => RegisteredIsServed
  <2> DEFINE c(g) == <<Root>> \o Path[g]
  <2> SUFFICES ASSUME IInv, query.path /= <<>>, pending = {},
                      NEW g \in query.known, Matches(query.path, c(g))
               PROVE  \E r \in received : Chain[r] = c(g)
    BY DEF RegisteredIsServed
  <2>1. TypeOK /\ TreeOK /\ Upright /\ OnTheWay /\ RequestOK
    BY DEF IInv
  <2>2. PICK k \in 1 .. made : Covers(k)
    BY <2>1 DEF RequestOK
  <2>3. g \in Registrars /\ new[g].pc = "done" /\ new[g].at <= k
    BY <2>1, <2>2 DEF TypeOK, Covers
  <2>4. new[g].at \in 1 .. made /\ made \in Nat /\ new[g].at \in Ids
    BY <2>1, <2>3, NumbersOK DEF TypeOK
  <2>5. new[g].at \in 1 .. k
    BY <2>3, <2>4
  <2>6. Chain[new[g].at] = c(g)
    <3>1. Chain[new[g].at] \o <<>> = c(g)
      BY <2>1, <2>3 DEF OnTheWay, NewOnWay
    <3>2. Chain[new[g].at] \in Seq(Segments)
      BY <2>1, <2>4, TreeFacts DEF ChainIs
    <3> QED
      BY <3>1, <3>2, ConcatEmptySeq
  <2>7. new[g].at \notin inverted
    BY <2>1, <2>3 DEF Upright
  <2> HIDE DEF c
  <2>8. new[g].at \in received
    BY <2>1, <2>2, <2>5, <2>6, <2>7, Served
  <2> QED
    BY <2>6, <2>8
<1> QED
  BY <1>1, InvHolds, PTL

(* A route that Child had returned before gets the requests that match it,  *)
(* also if another has been entered over it.                                *)
THEOREM SpecFoundIsServed == Spec => []FoundIsServed
<1>1. IInv => FoundIsServed
  <2> SUFFICES ASSUME IInv, query.path /= <<>>, pending = {},
                      NEW r \in query.found, Matches(query.path, Chain[r])
               PROVE  r \in received
    BY DEF FoundIsServed
  <2>1. TypeOK /\ TreeOK /\ RequestOK
    BY DEF IInv
  <2>2. PICK k \in 1 .. made : Covers(k)
    BY <2>1 DEF RequestOK
  <2>3. r <= k /\ r \notin inverted /\ r \in 1 .. made
    BY <2>1, <2>2 DEF Covers, TypeOK
  <2>4. made \in Nat
    BY <2>1, NumbersOK DEF TypeOK
  <2>5. r \in 1 .. k
    BY <2>3, <2>4
  <2> QED
    BY <2>1, <2>2, <2>3, <2>5, Served
<1> QED
  BY <1>1, InvHolds, PTL

(* A route that a request has reached has matched its segment, its parent   *)
(* has accepted it, or rejected it if the route is inverted, and no route   *)
(* both accepts and rejects it.                                             *)
THEOREM SpecReceivedIsMatched == Spec => []ReceivedIsMatched
<1>1. IInv => ReceivedIsMatched
  BY DEF IInv, RequestOK, Judged, Feeds, ReceivedIsMatched
<1> QED
  BY <1>1, InvHolds, PTL
=============================================================================
