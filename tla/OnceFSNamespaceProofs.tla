----------------------- MODULE OnceFSNamespaceProofs ------------------------
(***************************************************************************)
(* Theorems about OnceFSNamespace: what a directory lists, and that every  *)
(* step is one operation of the namespace or none.  The rows of a tree     *)
(* stand at paths; what an operation does to the rows moves, adds or takes *)
(* away the places of some.  The places of a table are the only solution   *)
(* of an equation between a path and its directory, so each operation has  *)
(* to solve it once.                                                       *)
(***************************************************************************)
EXTENDS OnceFSNamespace, OnceFSRecoveryProofs

-----------------------------------------------------------------------------
(* Places. *)

\* The paths below the root.
Below == Seq(Names) \ {<<>>}

\* The rows that have a path, each with its path.
Places(nodes) ==
    {s \in Below \X nodes : Resolve(nodes, s[1]).r = "OK" /\ Resolve(nodes, s[1]).row = s[2]}

\* The directory of node `id`, as R has it, is at p.
DirAt(R, p, id) ==
    \/ p = <<>> /\ id = 0
    \/ \E d : <<p, d>> \in R /\ d.type = "DIR" /\ d.node = id

\* The rows of the table are at their places: where their directory is.
Solves(R, nodes) ==
    /\ R \subseteq Below \X nodes
    /\ \A p \in Below : \A x \in nodes :
         <<p, x>> \in R <=> x.name = Basename(p) /\ DirAt(R, Dirname(p), x.parent)

\* The element of a product.
LEMMA PlaceType ==
    ASSUME NEW nodes, NEW p, NEW x
    PROVE  <<p, x>> \in Places(nodes) <=>
             /\ p \in Below /\ x \in nodes
             /\ Resolve(nodes, p).r = "OK" /\ Resolve(nodes, p).row = x
  BY DEF Places

\* One component of a path.
LEMMA PlacesSolve ==
    ASSUME NEW nodes, Family(nodes), Apart(nodes)
    PROVE  Solves(Places(nodes), nodes)
  <1>1. Places(nodes) \subseteq Below \X nodes
    BY DEF Places
  <1>2. ASSUME NEW p \in Below, NEW x \in nodes
        PROVE  <<p, x>> \in Places(nodes) <=>
                 x.name = Basename(p) /\ DirAt(Places(nodes), Dirname(p), x.parent)
    <2> DEFINE at == Resolve(nodes, p)
               dir == Resolve(nodes, Dirname(p))
    <2>1. p \in Seq(Names) /\ p # <<>> /\ Dirname(p) \in Seq(Names)
      BY DirnameType DEF Below
    <2>2. Resolve(nodes, <<>>) = Found(Root) /\ Root.node = 0 /\ Root.type = "DIR"
          /\ Found(Root).r = "OK" /\ Found(Root).row = Root
      BY DEF Resolve, Found, Root
    <2>3. Dirname(p) # <<>> /\ dir.r = "OK" => dir.row \in nodes /\ dir.row.node # 0
      BY <2>1, ResolvedRow
    <2>4. dir.r = "OK" /\ dir.row.type = "DIR" /\ dir.row.node = x.parent
            <=> DirAt(Places(nodes), Dirname(p), x.parent)
      <3> HIDE DEF dir
      <3>1. CASE Dirname(p) = <<>>
        <4>1. dir.r = "OK" /\ dir.row.type = "DIR" /\ dir.row.node = 0
          BY <2>2, <3>1 DEF dir
        <4>2. ~ \E d : <<Dirname(p), d>> \in Places(nodes)
          BY <3>1, PlaceType DEF Below
        <4> QED
          BY <3>1, <4>1, <4>2 DEF DirAt
      <3>2. CASE Dirname(p) # <<>>
        <4>1. \A d : <<Dirname(p), d>> \in Places(nodes) <=> dir.r = "OK" /\ d = dir.row
          BY <2>1, <2>3, <3>2, PlaceType DEF Below, dir
        <4> QED
          BY <3>2, <4>1 DEF DirAt
      <3> QED
        BY <3>1, <3>2
    <2>5. <<p, x>> \in Places(nodes) <=> at.r = "OK" /\ at.row = x
      BY PlaceType
    <2>6. at.r = "OK" => /\ at.row \in nodes /\ at.row.name = Basename(p)
                         /\ at.row.parent = dir.row.node /\ dir.r = "OK" /\ dir.row.type = "DIR"
      BY <2>1, ResolvedRow
    <2>7. at.r # "OK" /\ dir.r = "OK" /\ dir.row.type = "DIR" =>
            Lookup(nodes, dir.row.node, Basename(p)) = {}
      BY <2>1, ResolvedRow
    <2> HIDE DEF at, dir
    <2>8. Lookup(nodes, dir.row.node, Basename(p)) = {} =>
            ~ (x.parent = dir.row.node /\ x.name = Basename(p))
      BY DEF Lookup
    <2>9. at.r = "OK" /\ x.parent = dir.row.node /\ x.name = Basename(p) => at.row = x
      BY <2>6 DEF Apart
    <2> QED
      BY <2>4, <2>5, <2>6, <2>7, <2>8, <2>9
  <1> QED
    BY <1>1, <1>2 DEF Solves

\* The equation has one solution.
LEMMA OneSolution ==
    ASSUME NEW nodes, NEW R, NEW T, Solves(R, nodes), Solves(T, nodes)
    PROVE  R = T
  <1> DEFINE Bad == {n \in Nat : \E p \in Below, x \in nodes :
                                    Len(p) = n /\ ~ (<<p, x>> \in R <=> <<p, x>> \in T)}
  <1>1. Bad = {}
    <2> SUFFICES ASSUME Bad # {} PROVE FALSE
      OBVIOUS
    <2>1. PICK n \in Bad : \A k \in Bad : n <= k
      <3>1. Bad \subseteq Nat
        OBVIOUS
      <3> HIDE DEF Bad
      <3> QED
        BY <3>1, NatMin
    <2>2. PICK p \in Below, x \in nodes : Len(p) = n /\ ~ (<<p, x>> \in R <=> <<p, x>> \in T)
      BY <2>1
    <2>3. Dirname(p) \in Seq(Names) /\ Len(Dirname(p)) = n - 1 /\ n \in Nat \ {0}
      BY <2>2, DirnameType DEF Below
    <2>4. \A d : <<Dirname(p), d>> \in R <=> <<Dirname(p), d>> \in T
      <3> SUFFICES ASSUME NEW d, ~ (<<Dirname(p), d>> \in R <=> <<Dirname(p), d>> \in T)
                   PROVE  FALSE
        OBVIOUS
      <3>1. Dirname(p) \in Below /\ d \in nodes
        BY DEF Solves
      <3>2. n - 1 \in Nat /\ Len(Dirname(p)) = n - 1
        BY <2>3
      <3>3. \E q \in Below, y \in nodes : Len(q) = n - 1 /\ ~ (<<q, y>> \in R <=> <<q, y>> \in T)
        BY <3>1, <3>2
      <3>4. n - 1 \in Bad
        BY <3>2, <3>3
      <3>5. n \in Nat
        BY <2>3
      <3> HIDE DEF Bad
      <3> QED
        BY <2>1, <3>2, <3>4, <3>5
    <2>5. DirAt(R, Dirname(p), x.parent) <=> DirAt(T, Dirname(p), x.parent)
      BY <2>4 DEF DirAt
    <2> QED
      BY <2>2, <2>5 DEF Solves
  <1>2. \A p \in Below, x \in nodes : <<p, x>> \in R <=> <<p, x>> \in T
    <2> SUFFICES ASSUME NEW p \in Below, NEW x \in nodes, ~ (<<p, x>> \in R <=> <<p, x>> \in T)
                 PROVE  FALSE
      OBVIOUS
    <2>1. Len(p) \in Nat
      BY DEF Below
    <2>2. Len(p) \in Bad
      BY <2>1
    <2> QED
      BY <1>1, <2>2
  <1> HIDE DEF Bad
  <1>3. R \subseteq Below \X nodes /\ T \subseteq Below \X nodes
    BY DEF Solves
  <1> QED
    BY <1>2, <1>3

\* What solves it is the places.
LEMMA SolutionPlaces ==
    ASSUME NEW nodes, Family(nodes), Apart(nodes), NEW R, Solves(R, nodes)
    PROVE  Places(nodes) = R
  BY PlacesSolve, OneSolution

\* The row of a place, which no other place shows.
LEMMA PlaceRow ==
    ASSUME NEW nodes, Family(nodes), Unique(nodes), NEW p, NEW x, <<p, x>> \in Places(nodes)
    PROVE  /\ p \in Below /\ p \in Seq(Names) /\ p # <<>> /\ x \in nodes
           /\ x.node # 0 /\ x.type # "LINK_PAYLOAD" /\ x.name = Basename(p)
           /\ \A q, y : <<q, y>> \in Places(nodes) /\ y.node = x.node => q = p /\ y = x
           /\ \A y : <<p, y>> \in Places(nodes) => y = x
  <1>1. p \in Below /\ p \in Seq(Names) /\ p # <<>> /\ x \in nodes
        /\ Resolve(nodes, p).r = "OK" /\ Resolve(nodes, p).row = x
    BY PlaceType DEF Below
  <1>2. x.node # 0 /\ x.type # "LINK_PAYLOAD" /\ x.name = Basename(p)
    BY <1>1, ResolvedRow
  <1>3. ASSUME NEW q, NEW y, <<q, y>> \in Places(nodes), y.node = x.node
        PROVE  q = p /\ y = x
    <2>1. q \in Seq(Names) /\ q # <<>> /\ Resolve(nodes, q).r = "OK" /\ Resolve(nodes, q).row = y
      BY <1>3, PlaceType DEF Below
    <2>2. q = p
      BY <1>1, <1>3, <2>1, OneNode
    <2> QED
      BY <1>1, <2>1, <2>2
  <1>4. \A y : <<p, y>> \in Places(nodes) => y = x
    BY <1>1, PlaceType
  <1> QED
    BY <1>1, <1>2, <1>3, <1>4

\* One place for a node, and one row at a place.
LEMMA PlaceOne ==
    ASSUME NEW nodes, Family(nodes), Unique(nodes), NEW p, NEW x, <<p, x>> \in Places(nodes),
           NEW q, NEW y, <<q, y>> \in Places(nodes), x.node = y.node
    PROVE  p = q
  BY PlaceRow

LEMMA RowOne ==
    ASSUME NEW nodes, Family(nodes), Unique(nodes), NEW p, NEW x, <<p, x>> \in Places(nodes),
           NEW y, <<p, y>> \in Places(nodes)
    PROVE  x = y
  <1>1. Resolve(nodes, p).row = x
    BY PlaceType
  <1>2. Resolve(nodes, p).row = y
    BY PlaceType
  <1> QED
    BY <1>1, <1>2

\* The directories on the way to a place are places.
LEMMA PlacePrefix ==
    ASSUME NEW nodes, Family(nodes), NEW p \in Seq(Names), Resolve(nodes, p).r = "OK",
           NEW i \in 0 .. Len(p)
    PROVE  /\ Resolve(nodes, SubSeq(p, 1, i)).r = "OK"
           /\ i # Len(p) => Resolve(nodes, SubSeq(p, 1, i)).row.type = "DIR"
  <1> DEFINE pre(k) == SubSeq(p, 1, k)
             Fine(k) == /\ Resolve(nodes, pre(k)).r = "OK"
                        /\ k # Len(p) => Resolve(nodes, pre(k)).row.type = "DIR"
             Bad == {d \in 0 .. Len(p) : ~ Fine(Len(p) - d)}
  <1>1. Len(p) \in Nat
    OBVIOUS
  <1>2. Bad = {}
    <2> SUFFICES ASSUME Bad # {} PROVE FALSE
      OBVIOUS
    <2>1. PICK d \in Bad : \A k \in Bad : d <= k
      <3>1. Bad \subseteq Nat
        BY <1>1
      <3> HIDE DEF Bad
      <3> QED
        BY <3>1, NatMin
    <2>2. d \in 0 .. Len(p) /\ ~ Fine(Len(p) - d)
      BY <2>1
    <2>3. d # 0
      <3>1. pre(Len(p)) = p /\ Len(p) - 0 = Len(p)
        BY <1>1
      <3>2. Fine(Len(p))
        BY <3>1
      <3> HIDE DEF Fine
      <3> QED
        BY <2>2, <3>1, <3>2
    <2> DEFINE k == Len(p) - d
    <2>4. /\ d \in Nat /\ d - 1 \in 0 .. Len(p) /\ Len(p) - (d - 1) = k + 1 /\ k + 1 \in 1 .. Len(p)
          /\ ~ (d <= d - 1)
      BY <1>1, <2>2, <2>3
    <2>5. d - 1 \notin Bad
      <3> HIDE DEF Bad
      <3> QED
        BY <2>1, <2>4
    <2>6. Fine(k + 1)
      <3> HIDE DEF Fine, k
      <3> QED
        BY <2>4, <2>5
    <2>7. pre(k + 1) \in Seq(Names) /\ pre(k + 1) # <<>> /\ Dirname(pre(k + 1)) = pre(k)
      <3>1. k + 1 \in 0 .. Len(p) /\ k + 1 # 0 /\ (k + 1) - 1 = k
        BY <1>1, <2>4
      <3> HIDE DEF k
      <3> QED
        BY <3>1, PrefixType
    <2>8. Resolve(nodes, pre(k)).r = "OK" /\ Resolve(nodes, pre(k)).row.type = "DIR"
      <3> HIDE DEF k, pre
      <3> QED
        BY <2>6, <2>7, ResolvedRow
    <2> QED
      BY <2>2, <2>8
  <1>3. Len(p) - i \in 0 .. Len(p) /\ Len(p) - (Len(p) - i) = i
    BY <1>1
  <1>4. Fine(i)
    <2> HIDE DEF Fine
    <2> QED
      BY <1>2, <1>3
  <1> QED
    BY <1>4

\* No id exceeds the bound on nodes.
Bounded(nodes) == \A x \in nodes : x.node <= MaxNode

\* The places of n nodes are at most n deep.
LEMMA Shallow ==
    ASSUME NEW nodes, Family(nodes), Unique(nodes), Bounded(nodes),
           NEW p \in Below, Resolve(nodes, p).r = "OK"
    PROVE  p \in Deep
  <1> DEFINE pre(i) == SubSeq(p, 1, i)
             f == [i \in 1 .. Len(p) |-> Resolve(nodes, pre(i)).row.node]
  <1>1. p \in Seq(Names) /\ Len(p) \in Nat \ {0}
    BY DEF Below
  <1>2. ASSUME NEW i \in 1 .. Len(p)
        PROVE  /\ pre(i) \in Seq(Names) /\ pre(i) # <<>> /\ Len(pre(i)) = i
               /\ Resolve(nodes, pre(i)).r = "OK" /\ Resolve(nodes, pre(i)).row.node \in 1 .. MaxNode
    <2>1. i \in 0 .. Len(p) /\ i # 0
      BY <1>1
    <2>2. /\ pre(i) \in Seq(Names) /\ pre(i) # <<>> /\ Len(pre(i)) = i
          /\ Resolve(nodes, pre(i)).r = "OK"
      <3>1. pre(i) \in Seq(Names) /\ pre(i) # <<>> /\ Len(pre(i)) = i
        BY <1>1, <2>1, PrefixType
      <3>2. Resolve(nodes, pre(i)).r = "OK"
        BY <1>1, <2>1, PlacePrefix
      <3> QED
        BY <3>1, <3>2
    <2> DEFINE x == Resolve(nodes, pre(i)).row
    <2> HIDE DEF pre
    <2>3. x \in nodes /\ x.node # 0
      BY <2>2, ResolvedRow
    <2> HIDE DEF x
    <2>4. x.node \in Nat /\ x.node <= MaxNode
      BY <2>3 DEF Family, NodeRow, Bounded
    <2>5. x.node \in 1 .. MaxNode
      BY <2>3, <2>4, BoundsAssumption
    <2> QED
      BY <2>2, <2>5 DEF x
  <1>3. f \in Injection(1 .. Len(p), 1 .. MaxNode)
    <2>1. f \in [1 .. Len(p) -> 1 .. MaxNode]
      BY <1>2
    <2>2. ASSUME NEW i \in 1 .. Len(p), NEW j \in 1 .. Len(p), f[i] = f[j]
          PROVE  i = j
      <3> HIDE DEF pre
      <3>1. pre(i) = pre(j)
        BY <1>2, <2>2, OneNode
      <3> QED
        BY <1>2, <3>1
    <2> HIDE DEF f
    <2> QED
      BY <2>1, <2>2 DEF Injection, IsInjective
  <1>4. Len(p) <= MaxNode
    <2>1. IsFiniteSet(1 .. MaxNode) /\ Cardinality(1 .. MaxNode) = MaxNode
      <3>1. 1 \in Int /\ MaxNode \in Int /\ MaxNode \in Nat
        BY BoundsAssumption
      <3>2. /\ IsFiniteSet(1 .. MaxNode)
            /\ Cardinality(1 .. MaxNode) = IF 1 > MaxNode THEN 0 ELSE MaxNode - 1 + 1
        BY <3>1, FS_Interval
      <3> QED
        BY <3>1, <3>2
    <2>2. Cardinality(1 .. Len(p)) = Len(p)
      <3>1. 1 \in Int /\ Len(p) \in Int
        BY <1>1
      <3>2. Cardinality(1 .. Len(p)) = IF 1 > Len(p) THEN 0 ELSE Len(p) - 1 + 1
        BY <3>1, FS_Interval
      <3> QED
        BY <1>1, <3>2
    <2> HIDE DEF f
    <2>3. Cardinality(1 .. Len(p)) <= Cardinality(1 .. MaxNode)
      BY <1>3, <2>1, FS_Injection
    <2> QED
      BY <2>1, <2>2, <2>3
  <1>5. p \in [1 .. Len(p) -> Names]
    BY <1>1
  <1>6. Len(p) \in 1 .. MaxNode
    BY <1>1, <1>4, BoundsAssumption
  <1> HIDE DEF f
  <1> QED
    BY <1>5, <1>6 DEF Deep

-----------------------------------------------------------------------------
(* The tree. *)

\* What the tree shows of a row.
Shown(nodes, x) ==
    [kind |-> x.type, target |-> IF x.type = "LINK" THEN LinkTarget(nodes, x.node) ELSE NoName]

\* The tree t has these places, and shows the rows at them.
Trees(t, places, nodes) ==
    /\ \A p : p \in DOMAIN t <=> \E x : <<p, x>> \in places
    /\ DOMAIN t \subseteq Deep
    /\ \A p, x : <<p, x>> \in places => t[p] = Shown(nodes, x)
    /\ t = [p \in DOMAIN t |-> t[p]]

\* The tree is the places with what is shown of their rows.
LEMMA TreePlaces ==
    ASSUME NEW nodes, Family(nodes), Unique(nodes), Bounded(nodes)
    PROVE  Trees(TreeOf(nodes), Places(nodes), nodes)
  <1> DEFINE dom == {q \in Deep : Resolve(nodes, q).r = "OK"}
             t == TreeOf(nodes)
  <1>1. DOMAIN t = dom /\ t = [p \in DOMAIN t |-> t[p]]
        /\ \A p \in dom : t[p] = Shown(nodes, Resolve(nodes, p).row)
    BY DEF TreeOf, Shown
  <1>2. ASSUME NEW p \in Deep PROVE p \in Below
    <2>1. PICK n \in 1 .. MaxNode : p \in [1 .. n -> Names]
      BY DEF Deep
    <2>2. n \in Nat \ {0}
      BY BoundsAssumption
    <2> QED
      BY <2>1, <2>2 DEF Below
  <1>3. ASSUME NEW p, NEW x, <<p, x>> \in Places(nodes)
        PROVE  p \in dom /\ Resolve(nodes, p).row = x
    BY <1>3, PlaceType, Shallow
  <1>4. ASSUME NEW p \in dom PROVE <<p, Resolve(nodes, p).row>> \in Places(nodes)
    <2>1. p \in Below /\ p \in Seq(Names) /\ p # <<>> /\ Resolve(nodes, p).r = "OK"
      BY <1>2 DEF Below
    <2>2. Resolve(nodes, p).row \in nodes
      BY <2>1, ResolvedRow
    <2> QED
      BY <2>1, <2>2, PlaceType
  <1> HIDE DEF t
  <1>5. \A p : p \in DOMAIN t <=> \E x : <<p, x>> \in Places(nodes)
    BY <1>1, <1>3, <1>4
  <1>6. ASSUME NEW p, NEW x, <<p, x>> \in Places(nodes) PROVE t[p] = Shown(nodes, x)
    BY <1>1, <1>3, <1>6
  <1>7. DOMAIN t \subseteq Deep
    BY <1>1
  <1>8. Trees(t, Places(nodes), nodes)
    BY <1>1, <1>5, <1>6, <1>7 DEF Trees
  <1> QED
    BY <1>8 DEF t

-----------------------------------------------------------------------------
(* The places after an operation. *)

\* A directory is at one path.
LEMMA DirOne ==
    ASSUME NEW nodes, Family(nodes), Unique(nodes), NEW p, NEW q, NEW id,
           DirAt(Places(nodes), p, id), DirAt(Places(nodes), q, id)
    PROVE  p = q
  <1>1. ASSUME NEW r, NEW x, <<r, x>> \in Places(nodes) PROVE r # <<>> /\ x.node # 0
    BY <1>1, PlaceRow
  <1>2. CASE p = <<>>
    <2>1. id = 0
      BY <1>1, <1>2 DEF DirAt
    <2> QED
      BY <1>1, <1>2, <2>1 DEF DirAt
  <1>3. CASE p # <<>>
    <2>1. PICK d : <<p, d>> \in Places(nodes) /\ d.node = id
      BY <1>3 DEF DirAt
    <2>2. PICK e : <<q, e>> \in Places(nodes) /\ e.node = id
      BY <1>1, <2>1 DEF DirAt
    <2> QED
      BY <2>1, <2>2, PlaceOne
  <1> QED
    BY <1>2, <1>3

\* Payloads have no place and no place depends on one.
LEMMA PayloadPlaces ==
    ASSUME NEW nodes, Family(nodes), Apart(nodes), NEW rest, rest \subseteq nodes,
           \A x \in nodes \ rest : x.type = "LINK_PAYLOAD"
    PROVE  Places(rest) = Places(nodes)
  <1> DEFINE R == Places(nodes)
  <1>1. Solves(R, nodes)
    BY PlacesSolve
  <1>2. \A p, x : <<p, x>> \in R => x \in rest
    <2> SUFFICES ASSUME NEW p, NEW x, <<p, x>> \in R PROVE x \in rest
      OBVIOUS
    <2>1. /\ p \in Seq(Names) /\ p # <<>> /\ x \in nodes
          /\ Resolve(nodes, p).r = "OK" /\ Resolve(nodes, p).row = x
      BY PlaceType DEF Below
    <2>2. x.type # "LINK_PAYLOAD"
      BY <2>1, ResolvedRow
    <2> QED
      BY <2>1, <2>2
  <1> HIDE DEF R
  <1>3. Solves(R, rest)
    <2>1. R \subseteq Below \X rest
      BY <1>1, <1>2 DEF Solves
    <2> QED
      BY <1>1, <2>1 DEF Solves
  <1>4. Family(rest) /\ Apart(rest)
    BY FamilySubset DEF Apart
  <1> QED
    BY <1>3, <1>4, SolutionPlaces DEF R

\* A new row takes the place it was made for.
LEMMA PlantPlaces ==
    ASSUME NEW nodes, Family(nodes), Unique(nodes), Apart(nodes),
           NEW path \in Below, NEW row, row.name = Basename(path),
           DirAt(Places(nodes), Dirname(path), row.parent),
           row.parent # row.node, \A x \in nodes : x.parent # row.node,
           Family(nodes \cup {row}), Apart(nodes \cup {row})
    PROVE  Places(nodes \cup {row}) = Places(nodes) \cup {<<path, row>>}
  <1> DEFINE P == Places(nodes)
             R == P \cup {<<path, row>>}
             later == nodes \cup {row}
  <1>1. Solves(P, nodes)
    BY PlacesSolve
  <1>2. \A p, q, id : DirAt(P, p, id) /\ DirAt(P, q, id) => p = q
    BY DirOne
  <1>3. \A p \in Below : Dirname(p) = Dirname(path) /\ Basename(p) = Basename(path) => p = path
    BY DirnameBasename DEF Below
  <1>4. \A p, id : DirAt(R, p, id) <=> DirAt(P, p, id) \/ (p = path /\ row.type = "DIR" /\ row.node = id)
    <2>1. \A p, d : <<p, d>> \in R <=> <<p, d>> \in P \/ (p = path /\ d = row)
      OBVIOUS
    <2> HIDE DEF R
    <2> QED
      BY <2>1 DEF DirAt
  <1>5. ASSUME NEW p \in Below, NEW x \in later
        PROVE  <<p, x>> \in R <=> x.name = Basename(p) /\ DirAt(R, Dirname(p), x.parent)
    <2>1. DirAt(R, Dirname(p), x.parent) <=> DirAt(P, Dirname(p), x.parent)
      BY <1>4
    <2>2. <<p, x>> \in R <=> <<p, x>> \in P \/ (p = path /\ x = row)
      OBVIOUS
    <2> HIDE DEF P, R
    <2>3. CASE x \in nodes
      <3>1. <<p, x>> \in P <=> x.name = Basename(p) /\ DirAt(P, Dirname(p), x.parent)
        BY <1>1, <2>3 DEF Solves
      <3>2. p = path /\ x = row => <<p, x>> \in P
        BY <3>1 DEF P
      <3> QED
        BY <2>1, <2>2, <3>1, <3>2
    <2>4. CASE x \notin nodes
      <3>1. x = row /\ <<p, x>> \notin P
        BY <1>1, <2>4 DEF Solves
      <3>2. p = path <=> x.name = Basename(p) /\ DirAt(P, Dirname(p), x.parent)
        BY <1>2, <1>3, <3>1 DEF P
      <3> QED
        BY <2>1, <2>2, <3>1, <3>2
    <2> QED
      BY <2>3, <2>4
  <1>6. R \subseteq Below \X later
    BY DEF Places
  <1>7. Solves(R, later)
    <2> HIDE DEF R, later
    <2> QED
      BY <1>5, <1>6 DEF Solves
  <1> QED
    BY <1>7, SolutionPlaces

\* A row that goes gives up its place, and no other does.
LEMMA DropPlaces ==
    ASSUME NEW nodes, Family(nodes), Unique(nodes), Apart(nodes),
           NEW path, NEW at, <<path, at>> \in Places(nodes),
           at.type = "DIR" => \A x \in nodes : x.parent # at.node
    PROVE  Places({x \in nodes : x.node # at.node}) = Places(nodes) \ {<<path, at>>}
  <1> DEFINE P == Places(nodes)
             R == P \ {<<path, at>>}
             later == {x \in nodes : x.node # at.node}
  <1>1. Solves(P, nodes)
    BY PlacesSolve
  <1>2. \A p, x : <<p, x>> \in P /\ x.node = at.node => p = path /\ x = at
    BY PlaceRow
  <1>3. R \subseteq Below \X later
    <2>1. \A p, x : <<p, x>> \in R => p \in Below /\ x \in nodes /\ x.node # at.node
      BY <1>2, PlaceType
    <2>2. R \subseteq Below \X nodes
      BY DEF Places
    <2> HIDE DEF R
    <2> QED
      BY <2>1, <2>2
  <1>4. ASSUME NEW p \in Below, NEW x \in later
        PROVE  <<p, x>> \in R <=> x.name = Basename(p) /\ DirAt(R, Dirname(p), x.parent)
    <2>1. <<p, x>> \in R <=> <<p, x>> \in P
      OBVIOUS
    <2>2. <<p, x>> \in P <=> x.name = Basename(p) /\ DirAt(P, Dirname(p), x.parent)
      BY <1>1 DEF Solves
    <2>3. \A d : d.type = "DIR" /\ d.node = x.parent =>
                   (<<Dirname(p), d>> \in R <=> <<Dirname(p), d>> \in P)
      OBVIOUS
    <2>4. DirAt(R, Dirname(p), x.parent) <=> DirAt(P, Dirname(p), x.parent)
      <3> HIDE DEF R, P
      <3> QED
        BY <2>3 DEF DirAt
    <2> HIDE DEF R, P
    <2> QED
      BY <2>1, <2>2, <2>4
  <1>5. Solves(R, later)
    <2> HIDE DEF R, later
    <2> QED
      BY <1>3, <1>4 DEF Solves
  <1>6. Family(later) /\ Apart(later)
    BY FamilySubset DEF Apart
  <1> QED
    BY <1>5, <1>6, SolutionPlaces

\* The path that q becomes when `from` becomes `to`.
Moved(from, to, q) ==
    IF NS!IsPrefix(from, q) THEN to \o SubSeq(q, Len(from) + 1, Len(q)) ELSE q

\* A path and one that starts with it.
LEMMA PrefixPoints ==
    ASSUME NEW p \in Seq(Names), NEW q \in Seq(Names)
    PROVE  NS!IsPrefix(p, q) <=> Len(p) <= Len(q) /\ \A i \in 1 .. Len(p) : p[i] = q[i]
  <1>1. SubSeq(p, 1, Len(p)) = [i \in 1 .. Len(p) |-> p[i]]
    OBVIOUS
  <1>2. ASSUME Len(p) <= Len(q)
        PROVE  SubSeq(q, 1, Len(p)) = [i \in 1 .. Len(p) |-> q[i]]
    BY <1>2
  <1>3. (\A i \in 1 .. Len(p) : p[i] = q[i])
          <=> [i \in 1 .. Len(p) |-> p[i]] = [i \in 1 .. Len(p) |-> q[i]]
    OBVIOUS
  <1> QED
    BY <1>1, <1>2, <1>3 DEF NS!IsPrefix

\* The elements of what is left of a path.
LEMMA RestPoints ==
    ASSUME NEW p \in Seq(Names), NEW k \in Nat, NEW n \in Nat, Len(p) = k + n
    PROVE  /\ SubSeq(p, k + 1, Len(p)) \in Seq(Names) /\ Len(SubSeq(p, k + 1, Len(p))) = n
           /\ \A i \in 1 .. n : SubSeq(p, k + 1, Len(p))[i] = p[k + i]
  <1>1. Len(p) \in Nat /\ k + 1 \in 1 .. Len(p) + 1 /\ (Len(p) + 1) - (k + 1) = n
    OBVIOUS
  <1>2. \A i \in k + 1 .. Len(p) : p[i] \in Names
    OBVIOUS
  <1>3. SubSeq(p, k + 1, Len(p)) \in Seq(Names)
    BY <1>1, <1>2
  <1>4. Len(SubSeq(p, k + 1, Len(p))) = n
    BY <1>1
  <1>5. ASSUME NEW i \in 1 .. n PROVE SubSeq(p, k + 1, Len(p))[i] = p[k + i]
    <2>1. (k + 1) + i - 1 = k + i
      OBVIOUS
    <2> QED
      BY <1>1, <2>1
  <1> QED
    BY <1>3, <1>4, <1>5

\* The elements of two paths in a row.
LEMMA JoinPoints ==
    ASSUME NEW p \in Seq(Names), NEW q \in Seq(Names)
    PROVE  /\ p \o q \in Seq(Names) /\ Len(p \o q) = Len(p) + Len(q)
           /\ \A i \in 1 .. Len(p) + Len(q) :
                (p \o q)[i] = IF i <= Len(p) THEN p[i] ELSE q[i - Len(p)]
  OBVIOUS

\* Below a directory that moves, a path keeps its last name, and its directory
\* moves likewise.
LEMMA MovedPath ==
    ASSUME NEW from \in Below, NEW to \in Below
    PROVE  /\ Moved(from, to, from) = to
           /\ Moved(from, to, <<>>) = <<>>
           /\ \A q \in Below : ~ NS!IsPrefix(from, Dirname(q)) /\ q # from => Moved(from, to, q) = q
           /\ \A q \in Below : q # from =>
                /\ Moved(from, to, q) \in Below
                /\ Basename(Moved(from, to, q)) = Basename(q)
                /\ Dirname(Moved(from, to, q)) = Moved(from, to, Dirname(q))
  <1> DEFINE New(q) == Moved(from, to, q)
             k == Len(from)
  <1>1. /\ from \in Seq(Names) /\ to \in Seq(Names) /\ k \in Nat \ {0} /\ Len(to) \in Nat \ {0}
    BY DEF Below
  <1>2. New(from) = to
    <2>1. NS!IsPrefix(from, from)
      BY <1>1, PrefixPoints
    <2>2. SubSeq(from, k + 1, k) = <<>>
      BY <1>1
    <2>3. to \o <<>> = to
      BY <1>1
    <2> QED
      BY <2>1, <2>2, <2>3 DEF Moved
  <1>3. New(<<>>) = <<>>
    <2>1. <<>> \in Seq(Names) /\ Len(<<>>) = 0
      OBVIOUS
    <2>2. ~ NS!IsPrefix(from, <<>>)
      BY <1>1, <2>1 DEF NS!IsPrefix
    <2> QED
      BY <2>2 DEF Moved
  <1>4. ASSUME NEW q \in Below, q # from
        PROVE  /\ NS!IsPrefix(from, q) <=> NS!IsPrefix(from, Dirname(q))
               /\ NS!IsPrefix(from, q) => Len(q) > k
    <2>1. /\ q \in Seq(Names) /\ Len(q) \in Nat \ {0} /\ Dirname(q) \in Seq(Names)
          /\ Len(Dirname(q)) = Len(q) - 1 /\ \A i \in 1 .. Len(q) - 1 : Dirname(q)[i] = q[i]
      BY DirnameType DEF Below
    <2>2. ASSUME NS!IsPrefix(from, q) PROVE Len(q) > k
      <3>1. k <= Len(q) /\ \A i \in 1 .. k : from[i] = q[i]
        BY <1>1, <2>1, <2>2, PrefixPoints
      <3>2. k = Len(q) => from = q
        BY <1>1, <2>1, <3>1
      <3> QED
        BY <1>1, <1>4, <2>1, <3>1, <3>2
    <2>3. NS!IsPrefix(from, q) <=> k <= Len(q) /\ \A i \in 1 .. k : from[i] = q[i]
      BY <1>1, <2>1, PrefixPoints
    <2>4. NS!IsPrefix(from, Dirname(q)) <=>
            k <= Len(q) - 1 /\ \A i \in 1 .. k : from[i] = Dirname(q)[i]
      BY <1>1, <2>1, PrefixPoints
    <2> QED
      BY <1>1, <2>1, <2>2, <2>3, <2>4
  <1>5. ASSUME NEW q \in Below, q # from, NS!IsPrefix(from, q)
        PROVE  /\ New(q) \in Below /\ Basename(New(q)) = Basename(q)
               /\ Dirname(New(q)) = New(Dirname(q))
    <2> DEFINE n == Len(q) - k
               s == SubSeq(q, k + 1, Len(q))
               d == Dirname(q)
               u == SubSeq(d, k + 1, Len(d))
               t == Len(to)
    <2>1. /\ q \in Seq(Names) /\ q # <<>> /\ Len(q) \in Nat /\ d \in Seq(Names) /\ Len(d) = Len(q) - 1
          /\ n \in Nat \ {0} /\ k + n = Len(q) /\ \A i \in 1 .. Len(q) - 1 : d[i] = q[i]
      <3>1. /\ q \in Seq(Names) /\ q # <<>> /\ Len(q) \in Nat /\ d \in Seq(Names) /\ Len(d) = Len(q) - 1
            /\ \A i \in 1 .. Len(q) - 1 : d[i] = q[i]
        BY DirnameType DEF Below
      <3> HIDE DEF d
      <3> QED
        BY <1>1, <1>4, <1>5, <3>1
    <2>2. New(q) = to \o s /\ New(d) = to \o u
      BY <1>4, <1>5 DEF Moved
    <2> HIDE DEF d, n
    <2>3. s \in Seq(Names) /\ Len(s) = n /\ \A i \in 1 .. n : s[i] = q[k + i]
      <3>1. q \in Seq(Names) /\ k \in Nat /\ n \in Nat /\ Len(q) = k + n
        BY <1>1, <2>1
      <3> QED
        BY <3>1, RestPoints
    <2>4. u \in Seq(Names) /\ Len(u) = n - 1 /\ \A i \in 1 .. n - 1 : u[i] = d[k + i]
      <3>1. d \in Seq(Names) /\ k \in Nat /\ n - 1 \in Nat /\ Len(d) = k + (n - 1)
        BY <1>1, <2>1
      <3> QED
        BY <3>1, RestPoints
    <2> HIDE DEF s, u
    <2>5. /\ to \o s \in Seq(Names) /\ Len(to \o s) = t + n
          /\ \A i \in 1 .. t + n : (to \o s)[i] = IF i <= t THEN to[i] ELSE s[i - t]
      BY <1>1, <2>3, JoinPoints
    <2>6. /\ to \o u \in Seq(Names) /\ Len(to \o u) = t + n - 1
          /\ \A i \in 1 .. t + n - 1 : (to \o u)[i] = IF i <= t THEN to[i] ELSE u[i - t]
      <3>1. t + (n - 1) = t + n - 1
        BY <1>1, <2>1
      <3>2. Len(to) + Len(u) = t + n - 1
        BY <2>4, <3>1
      <3> QED
        <4>1. /\ to \o u \in Seq(Names) /\ Len(to \o u) = Len(to) + Len(u)
              /\ \A i \in 1 .. Len(to) + Len(u) :
                   (to \o u)[i] = IF i <= t THEN to[i] ELSE u[i - t]
          BY <1>1, <2>4, JoinPoints
        <4> HIDE DEF t
        <4> QED
          BY <3>2, <4>1
    <2> DEFINE a == to \o s
               b == to \o u
    <2> HIDE DEF a, b
    <2>7. a \in Seq(Names) /\ Len(a) = t + n /\ a # <<>> /\ t \in Nat \ {0}
      BY <1>1, <2>1, <2>5 DEF a
    <2>8. a[Len(a)] = q[Len(q)]
      <3>1. a[t + n] = s[n]
        BY <2>1, <2>5, <2>7 DEF a
      <3>2. s[n] = q[k + n]
        BY <2>1, <2>3
      <3> QED
        BY <2>1, <2>7, <3>1, <3>2
    <2>9. Dirname(a) = b
      <3>1. /\ Dirname(a) \in Seq(Names) /\ Len(Dirname(a)) = t + n - 1
            /\ \A i \in 1 .. t + n - 1 : Dirname(a)[i] = a[i]
        <4>1. Len(a) - 1 = t + n - 1
          BY <2>1, <2>7
        <4> HIDE DEF t
        <4> QED
          BY <2>7, <4>1, DirnameType
      <3>2. b \in Seq(Names) /\ Len(b) = t + n - 1
        BY <2>6 DEF b
      <3>3. ASSUME NEW i \in 1 .. t + n - 1 PROVE a[i] = b[i]
        <4>1. i \in 1 .. t + n /\ i \in Nat
          BY <2>1, <2>7
        <4>2. a[i] = (IF i <= t THEN to[i] ELSE s[i - t]) /\ b[i] = (IF i <= t THEN to[i] ELSE u[i - t])
          BY <2>5, <2>6, <4>1 DEF a, b
        <4>3. ASSUME ~ (i <= t) PROVE s[i - t] = u[i - t]
          <5>1. i - t \in 1 .. n - 1 /\ i - t \in 1 .. n /\ k + (i - t) \in 1 .. Len(q) - 1
            BY <1>1, <2>1, <2>7, <4>1, <4>3
          <5> QED
            BY <2>1, <2>3, <2>4, <5>1
        <4> QED
          BY <4>2, <4>3
      <3> QED
        BY <3>1, <3>2, <3>3
    <2> QED
      BY <2>2, <2>7, <2>8, <2>9 DEF a, b, d, Below, Basename
  <1>6. ASSUME NEW q \in Below, q # from, ~ NS!IsPrefix(from, q)
        PROVE  New(q) = q /\ New(Dirname(q)) = Dirname(q)
    BY <1>4, <1>6 DEF Moved
  <1>7. ASSUME NEW q \in Below, q # from
        PROVE  /\ New(q) \in Below /\ Basename(New(q)) = Basename(q)
               /\ Dirname(New(q)) = New(Dirname(q))
    BY <1>5, <1>6, <1>7
  <1> HIDE DEF New
  <1> QED
    BY <1>2, <1>3, <1>4, <1>6, <1>7 DEF New

\* A path one component longer.
LEMMA AppendPath ==
    ASSUME NEW p \in Seq(Names), NEW name \in Names
    PROVE  Append(p, name) \in Below /\ Dirname(Append(p, name)) = p
           /\ Basename(Append(p, name)) = name
  <1> DEFINE q == Append(p, name)
  <1>1. q \in Seq(Names) /\ Len(q) = Len(p) + 1 /\ q[Len(p) + 1] = name
        /\ \A i \in 1 .. Len(p) : q[i] = p[i]
    OBVIOUS
  <1>2. q # <<>> /\ Len(p) \in Nat /\ Len(q) - 1 = Len(p)
    <2> HIDE DEF q
    <2>1. Len(p) \in Nat
      OBVIOUS
    <2> QED
      BY <1>1, <2>1
  <1> HIDE DEF q
  <1>3. Dirname(q) \in Seq(Names) /\ Len(Dirname(q)) = Len(p)
        /\ \A i \in 1 .. Len(p) : Dirname(q)[i] = q[i]
    BY <1>1, <1>2, DirnameType
  <1>4. Dirname(q) = p
    BY <1>1, <1>3
  <1> QED
    BY <1>1, <1>2, <1>4 DEF q, Below, Basename

\* The places of `later` are those of `nodes`, where the row `old` at `from` is `row`
\* at `to`.
Relocated(nodes, later, from, to, old, row) ==
    /\ \A q, x : <<q, x>> \in Places(nodes) =>
         <<Moved(from, to, q), IF x = old THEN row ELSE x>> \in Places(later)
    /\ \A p, y : <<p, y>> \in Places(later) =>
         \E s \in Places(nodes) :
           /\ <<s[1], s[2]>> \in Places(nodes)
           /\ p = Moved(from, to, s[1]) /\ y = IF s[2] = old THEN row ELSE s[2]

\* The row at `from` takes the place at `to`, and all below goes along.
LEMMA MovePlaces ==
    ASSUME NEW nodes, Family(nodes), Unique(nodes), Apart(nodes),
           NEW from, NEW old, <<from, old>> \in Places(nodes), NEW to \in Below,
           NEW row, row.node = old.node, row.type = old.type, row.name = Basename(to),
           DirAt(Places(nodes), Dirname(to), row.parent), ~ NS!IsPrefix(from, Dirname(to)),
           NEW later, later = InsertOrReplace(nodes, row), Family(later), Apart(later)
    PROVE  Relocated(nodes, later, from, to, old, row)
  <1> DEFINE P == Places(nodes)
             New(q) == Moved(from, to, q)
             Become(x) == IF x = old THEN row ELSE x
             R == {<<New(s[1]), Become(s[2])>> : s \in P}
  <1>1. from \in Below /\ old \in nodes /\ old.type # "LINK_PAYLOAD"
    BY PlaceRow
  <1>2. \A x : x \in later <=> x = row \/ (x \in nodes /\ x # old)
    BY <1>1 DEF InsertOrReplace, Unique
  <1>3. Solves(P, nodes)
    BY PlacesSolve
  <1>4. /\ \A q, x : <<q, x>> \in P => <<New(q), Become(x)>> \in R
        /\ \A p, y : <<p, y>> \in R =>
             \E s \in P : p = New(s[1]) /\ y = Become(s[2]) /\ <<s[1], s[2]>> \in P
    <2>1. \A s \in P : s = <<s[1], s[2]>>
      BY DEF Places
    <2> HIDE DEF P, New, Become
    <2>2. \A p, y : <<p, y>> \in R => \E s \in P : <<p, y>> = <<New(s[1]), Become(s[2])>>
      OBVIOUS
    <2> QED
      BY <2>1, <2>2
  <1>5. New(from) = to /\ New(<<>>) = <<>>
    BY <1>1, MovedPath
  <1>6. \A q \in Below : ~ NS!IsPrefix(from, Dirname(q)) /\ q # from => New(q) = q
    BY <1>1, MovedPath
  <1>7. \A q \in Below : q # from => New(q) \in Below /\ Basename(New(q)) = Basename(q)
                                     /\ Dirname(New(q)) = New(Dirname(q))
    BY <1>1, MovedPath
  <1>8. New(Dirname(to)) = Dirname(to)
    BY DEF Moved
  <1>9. \A q, x : <<q, x>> \in P => /\ q \in Below /\ x \in nodes /\ x.node # 0
                                    /\ x.name = Basename(q) /\ (q = from <=> x = old)
    BY <1>1, PlaceRow
  <1>10. \A p, q, id : DirAt(P, p, id) /\ DirAt(P, q, id) => p = q
    BY DirOne
  <1>11. \A x : Become(x).node = x.node /\ Become(x).type = x.type
    OBVIOUS
  <1>12. \A p, id : DirAt(R, p, id) <=> \E q : DirAt(P, q, id) /\ p = New(q)
    <2> HIDE DEF P, New, Become, R
    <2>1. ASSUME NEW p, NEW id, DirAt(R, p, id)
          PROVE  \E q : DirAt(P, q, id) /\ p = New(q)
      <3>1. CASE p = <<>> /\ id = 0
        BY <1>5, <3>1 DEF DirAt
      <3>2. CASE \E d : <<p, d>> \in R /\ d.type = "DIR" /\ d.node = id
        <4>1. PICK d : <<p, d>> \in R /\ d.type = "DIR" /\ d.node = id
          BY <3>2
        <4>2. PICK s \in P : p = New(s[1]) /\ d = Become(s[2]) /\ <<s[1], s[2]>> \in P
          BY <1>4, <4>1
        <4>3. DirAt(P, s[1], id)
          BY <1>11, <4>1, <4>2 DEF DirAt
        <4> QED
          BY <4>2, <4>3
      <3> QED
        BY <2>1, <3>1, <3>2 DEF DirAt
    <2>2. ASSUME NEW q, NEW id, DirAt(P, q, id)
          PROVE  DirAt(R, New(q), id)
      <3>1. CASE q = <<>> /\ id = 0
        BY <1>5, <3>1 DEF DirAt
      <3>2. CASE \E d : <<q, d>> \in P /\ d.type = "DIR" /\ d.node = id
        <4>1. PICK d : <<q, d>> \in P /\ d.type = "DIR" /\ d.node = id
          BY <3>2
        <4>2. <<New(q), Become(d)>> \in R
          BY <1>4, <4>1
        <4> QED
          BY <1>11, <4>1, <4>2 DEF DirAt
      <3> QED
        BY <2>2, <3>1, <3>2 DEF DirAt
    <2> QED
      BY <2>1, <2>2
  <1>13. ASSUME NEW q, NEW x, <<q, x>> \in P
         PROVE  /\ New(q) \in Below /\ Become(x) \in later
                /\ Become(x).name = Basename(New(q))
                /\ DirAt(R, Dirname(New(q)), Become(x).parent)
    <2>1. q \in Below /\ x \in nodes /\ x.name = Basename(q) /\ (q = from <=> x = old)
      BY <1>9, <1>13
    <2> HIDE DEF P, New, R
    <2>2. CASE x = old
      <3>1. New(q) = to /\ Become(x) = row
        BY <1>5, <2>1, <2>2
      <3>2. DirAt(R, Dirname(to), row.parent)
        BY <1>8, <1>12 DEF P
      <3> HIDE DEF Become
      <3> QED
        BY <1>2, <3>1, <3>2
    <2>3. CASE x # old
      <3>1. /\ Become(x) = x /\ x \in later /\ New(q) \in Below /\ Basename(New(q)) = Basename(q)
            /\ Dirname(New(q)) = New(Dirname(q))
        BY <1>2, <1>7, <2>1, <2>3
      <3>2. DirAt(P, Dirname(q), x.parent)
        BY <1>3, <1>13, <2>1 DEF Solves
      <3>3. DirAt(R, New(Dirname(q)), x.parent)
        BY <1>12, <3>2
      <3> HIDE DEF Become
      <3> QED
        BY <2>1, <3>1, <3>3
    <2> QED
      BY <2>2, <2>3
  <1>14. ASSUME NEW p \in Below, NEW y \in later,
                y.name = Basename(p), DirAt(R, Dirname(p), y.parent)
         PROVE  <<p, y>> \in R
    <2>1. p \in Seq(Names) /\ p # <<>> /\ to \in Seq(Names) /\ to # <<>>
      BY DEF Below
    <2>2. PICK d : DirAt(P, d, y.parent) /\ Dirname(p) = New(d)
      <3> HIDE DEF P, New, R
      <3> QED
        BY <1>12, <1>14
    <2>3. CASE y = row
      <3>1. d = Dirname(to)
        <4> HIDE DEF New
        <4> QED
          BY <1>10, <2>2, <2>3
      <3>2. p = to
        <4> HIDE DEF New
        <4> QED
          BY <1>8, <1>14, <2>1, <2>2, <2>3, <3>1, DirnameBasename
      <3>3. <<from, old>> \in P /\ p = New(from) /\ y = Become(old)
        <4> HIDE DEF New
        <4> QED
          BY <1>5, <2>3, <3>2
      <3> HIDE DEF P, New, Become, R
      <3> QED
        BY <1>4, <3>3
    <2>4. CASE y # row
      <3>1. y \in nodes /\ y # old
        BY <1>2, <2>4
      <3>2. d \in Seq(Names)
        <4>1. d = <<>> \/ \E x : <<d, x>> \in P
          <5> HIDE DEF P
          <5> QED
            BY <2>2 DEF DirAt
        <4>2. d = <<>> \/ d \in Below
          <5> HIDE DEF P
          <5> QED
            BY <1>9, <4>1
        <4>3. <<>> \in Seq(Names)
          OBVIOUS
        <4> HIDE DEF New
        <4> QED
          BY <4>2, <4>3 DEF Below
      <3> DEFINE q == Append(d, Basename(p))
      <3>3. q \in Below /\ Dirname(q) = d /\ Basename(q) = Basename(p)
        <4>1. Basename(p) \in Names
          BY <2>1, DirnameType
        <4> HIDE DEF New
        <4> QED
          BY <3>2, <4>1, AppendPath
      <3> HIDE DEF q
      <3>4. <<q, y>> \in P
        <4> HIDE DEF P, New
        <4> QED
          BY <1>3, <1>14, <2>2, <3>1, <3>3 DEF Solves
      <3>5. q # from
        <4> HIDE DEF P, New
        <4> QED
          BY <1>9, <3>1, <3>4
      <3>6. New(q) \in Below /\ Basename(New(q)) = Basename(p) /\ Dirname(New(q)) = Dirname(p)
        <4> HIDE DEF P, New
        <4> QED
          BY <1>7, <2>2, <3>3, <3>5
      <3>7. New(q) = p
        <4> HIDE DEF New
        <4> QED
          BY <2>1, <3>6, DirnameBasename DEF Below
      <3>8. y = Become(y)
        BY <3>1
      <3> HIDE DEF P, New, Become, R
      <3> QED
        BY <1>4, <3>4, <3>7, <3>8
    <2> QED
      BY <2>3, <2>4
  <1>15. Solves(R, later)
    <2>1. R \subseteq Below \X later
      <3> SUFFICES ASSUME NEW s \in P PROVE <<New(s[1]), Become(s[2])>> \in Below \X later
        OBVIOUS
      <3>1. <<s[1], s[2]>> \in P
        BY DEF Places
      <3> HIDE DEF P, New, Become
      <3> QED
        BY <1>13, <3>1
    <2>2. ASSUME NEW p \in Below, NEW y \in later
          PROVE  <<p, y>> \in R <=> y.name = Basename(p) /\ DirAt(R, Dirname(p), y.parent)
      <3> HIDE DEF P, New, Become, R
      <3>1. ASSUME <<p, y>> \in R
            PROVE  y.name = Basename(p) /\ DirAt(R, Dirname(p), y.parent)
        <4>1. PICK s \in P : p = New(s[1]) /\ y = Become(s[2]) /\ <<s[1], s[2]>> \in P
          BY <1>4, <3>1
        <4> QED
          BY <1>13, <4>1
      <3> QED
        BY <1>14, <3>1
    <2> HIDE DEF R
    <2> QED
      BY <2>1, <2>2 DEF Solves
  <1>16. Places(later) = R
    <2> HIDE DEF R
    <2> QED
      BY <1>15, SolutionPlaces
  <1> HIDE DEF R
  <1>17. /\ \A q, x : <<q, x>> \in Places(nodes) =>
              <<Moved(from, to, q), IF x = old THEN row ELSE x>> \in Places(later)
         /\ \A p, y : <<p, y>> \in Places(later) =>
              \E s \in Places(nodes) :
                /\ <<s[1], s[2]>> \in Places(nodes)
                /\ p = Moved(from, to, s[1]) /\ y = IF s[2] = old THEN row ELSE s[2]
    BY <1>4, <1>16
  <1> QED
    BY <1>17 DEF Relocated

-----------------------------------------------------------------------------
(* What a directory lists. *)

\* A path is the directory of at most one node.
LEMMA DirNode ==
    ASSUME NEW nodes, Family(nodes), Unique(nodes), NEW p, NEW id, NEW jd,
           DirAt(Places(nodes), p, id), DirAt(Places(nodes), p, jd)
    PROVE  id = jd
  <1>1. \A d, e : <<p, d>> \in Places(nodes) /\ <<p, e>> \in Places(nodes) => d = e
    BY PlaceRow
  <1>2. \A d : <<p, d>> \in Places(nodes) => p # <<>>
    BY PlaceRow
  <1>3. CASE p = <<>>
    <2>1. \A d : ~ (<<p, d>> \in Places(nodes))
      BY <1>2, <1>3
    <2>2. id = 0
      BY <2>1 DEF DirAt
    <2>3. jd = 0
      BY <2>1 DEF DirAt
    <2> QED
      BY <2>2, <2>3
  <1>4. CASE p # <<>>
    <2>1. PICK d : <<p, d>> \in Places(nodes) /\ d.node = id
      BY <1>4 DEF DirAt
    <2>2. PICK e : <<p, e>> \in Places(nodes) /\ e.node = jd
      BY <1>4 DEF DirAt
    <2> QED
      BY <1>1, <2>1, <2>2
  <1> QED
    BY <1>3, <1>4

\* The rows listed are the children of the path, one by one.
Matches(p, listed, children) ==
    /\ {Append(p, x.name) : x \in listed} = children
    /\ Cardinality(listed) = Cardinality(children)

\* The rows of a directory are those at the paths below it, one each.
LEMMA ListsAll ==
    ASSUME NEW nodes, Family(nodes), Unique(nodes), Bounded(nodes), Tree(nodes),
           NEW rest, rest \subseteq nodes, \A x \in nodes \ rest : x.type = "LINK_PAYLOAD",
           NEW t, t = TreeOf(rest), NEW p, p = <<>> \/ (p \in DOMAIN t /\ t[p].kind = "DIR"),
           NEW listed, listed = GetDir(nodes, p),
           NEW children, children = {q \in DOMAIN t : q # <<>> /\ Dirname(q) = p}
    PROVE  Matches(p, listed, children)
  <1> DEFINE P == Places(nodes)
             id == Resolve(nodes, p).row.node
  <1>1. Apart(nodes) /\ Family(rest) /\ Unique(rest) /\ Bounded(rest)
    BY FamilySubset DEF Tree, Unique, Bounded
  <1>2. Places(rest) = P
    BY <1>1, PayloadPlaces
  <1>3. /\ \A q : q \in DOMAIN t <=> \E x : <<q, x>> \in P
        /\ \A q, x : <<q, x>> \in P => t[q] = Shown(rest, x)
    <2>1. Trees(t, P, rest)
      BY <1>1, <1>2, TreePlaces
    <2> QED
      BY <2>1 DEF Trees
  <1>4. Solves(P, nodes)
    BY <1>1, PlacesSolve
  <1>5. DirAt(P, p, id) /\ p \in Seq(Names)
    <2>1. CASE p = <<>>
      <3>1. Resolve(nodes, <<>>).row.node = 0
        BY DEF Resolve, Found, Root
      <3>2. <<>> \in Seq(Names)
        OBVIOUS
      <3> QED
        BY <2>1, <3>1, <3>2 DEF DirAt
    <2>2. CASE p \in DOMAIN t /\ t[p].kind = "DIR"
      <3>1. PICK x : <<p, x>> \in P
        BY <1>3, <2>2
      <3>2. x.type = "DIR"
        <4>1. t[p] = Shown(rest, x)
          BY <1>3, <3>1
        <4> QED
          BY <2>2, <4>1 DEF Shown
      <3>3. Resolve(nodes, p).row = x /\ p \in Seq(Names)
        BY <3>1, PlaceType DEF Below
      <3> QED
        BY <3>1, <3>2, <3>3 DEF DirAt
    <2> QED
      BY <2>1, <2>2
  <1>6. listed = {x \in nodes : x.parent = id}
    BY DEF GetDir
  <1> HIDE DEF P, id
  <1>7. ASSUME NEW x \in listed
        PROVE  /\ <<Append(p, x.name), x>> \in P /\ Append(p, x.name) \in Below
               /\ Dirname(Append(p, x.name)) = p
    <2>1. x \in nodes /\ x.parent = id /\ x.name \in Names
      BY <1>6 DEF Family, NodeRow
    <2>2. Append(p, x.name) \in Below /\ Dirname(Append(p, x.name)) = p
          /\ Basename(Append(p, x.name)) = x.name
      BY <1>5, <2>1, AppendPath
    <2> QED
      BY <1>4, <1>5, <2>1, <2>2 DEF Solves
  <1>8. ASSUME NEW q \in children
        PROVE  \E x \in listed : q = Append(p, x.name)
    <2>1. PICK x : <<q, x>> \in P
      BY <1>3
    <2>2. q \in Below /\ q \in Seq(Names) /\ q # <<>> /\ x \in nodes /\ x.name = Basename(q) /\ Dirname(q) = p
      BY <2>1, PlaceRow DEF P
    <2>3. DirAt(P, p, x.parent)
      BY <1>4, <2>1, <2>2 DEF Solves
    <2>4. x.parent = id
      BY <1>5, <2>3, DirNode DEF P
    <2>5. x \in listed
      BY <1>6, <2>2, <2>4
    <2>6. x.name \in Names
      BY <2>2 DEF Family, NodeRow
    <2>7. q = Append(p, x.name)
      <3>1. Append(p, x.name) \in Below /\ Dirname(Append(p, x.name)) = p
            /\ Basename(Append(p, x.name)) = x.name
        BY <1>5, <2>6, AppendPath
      <3> QED
        BY <2>2, <3>1, DirnameBasename DEF Below
    <2> QED
      BY <2>5, <2>7
  <1>9. ASSUME NEW x \in listed PROVE Append(p, x.name) \in children
    <2>1. Append(p, x.name) \in DOMAIN t /\ Append(p, x.name) # <<>>
      BY <1>3, <1>7 DEF Below
    <2> QED
      BY <1>7, <2>1
  <1>10. {Append(p, x.name) : x \in listed} = children
    <2>1. {Append(p, x.name) : x \in listed} \subseteq children
      BY <1>9
    <2>2. children \subseteq {Append(p, x.name) : x \in listed}
      BY <1>8
    <2> QED
      BY <2>1, <2>2
  <1> DEFINE f == [x \in listed |-> Append(p, x.name)]
  <1>11. f \in Bijection(listed, children)
    <2>1. \A x, y \in listed : f[x] = f[y] => x = y
      <3> SUFFICES ASSUME NEW x \in listed, NEW y \in listed, Append(p, x.name) = Append(p, y.name)
                   PROVE  x = y
        OBVIOUS
      <3> DEFINE q == Append(p, x.name)
      <3>1. <<q, x>> \in Places(nodes) /\ <<q, y>> \in Places(nodes)
        BY <1>7 DEF P
      <3> HIDE DEF q, f
      <3> QED
        BY <3>1, RowOne
    <2>2. f \in [listed -> children]
      BY <1>9
    <2>3. \A q \in children : \E x \in listed : f[x] = q
      BY <1>8
    <2> HIDE DEF f
    <2> QED
      BY <2>1, <2>2, <2>3 DEF Bijection, Injection, Surjection, IsInjective
  <1>15. \A q, x, r, y : <<q, x>> \in P /\ <<r, y>> \in P /\ x.node = y.node => x = y
    BY PlaceRow DEF P
  <1> DEFINE g == [x \in listed |-> x.node]
  <1>12. g \in Injection(listed, 1 .. MaxNode)
    <2>1. ASSUME NEW x \in listed PROVE x.node \in 1 .. MaxNode
      <3>1. x \in nodes
        BY <1>6
      <3>2. x.node \in Nat /\ x.node # 0 /\ x.node <= MaxNode
        BY <3>1 DEF Family, NodeRow, Bounded
      <3> QED
        BY <3>2, BoundsAssumption
    <2>2. \A x, y \in listed : x.node = y.node => x = y
      <3> SUFFICES ASSUME NEW x \in listed, NEW y \in listed, x.node = y.node
                   PROVE  x = y
        OBVIOUS
      <3>1. <<Append(p, x.name), x>> \in P /\ <<Append(p, y.name), y>> \in P
        BY <1>7
      <3> QED
        BY <1>15, <3>1
    <2> QED
      BY <2>1, <2>2 DEF Injection, IsInjective
  <1>13. IsFiniteSet(listed)
    <2>1. IsFiniteSet(1 .. MaxNode)
      <3>1. 1 \in Int /\ MaxNode \in Int
        BY BoundsAssumption
      <3> QED
        BY <3>1, FS_Interval
    <2> HIDE DEF g
    <2> QED
      BY <1>12, <2>1, FS_Injection
  <1>14. Cardinality(children) = Cardinality(listed)
    <2> HIDE DEF f
    <2>1. ExistsBijection(listed, children)
      BY <1>11 DEF ExistsBijection
    <2> QED
      BY <1>13, <2>1, FS_Bijection
  <1> QED
    BY <1>10, <1>14 DEF Matches

-----------------------------------------------------------------------------
(* The bound on nodes. *)

\* No node id, in the counter or in a record, is above the bound.
Ranked(m) == m.next_node_id <= MaxNode + 1 /\ \A b \in Block : m.disk[b].node <= MaxNode

\* The row of a link that has no record yet is its payload.
PInv == Ranked(fs) /\ (job.kind = "link" => job.row.type = "LINK_PAYLOAD")

\* A record about a node within the bound keeps it.
LEMMA WriteRanked ==
    ASSUME NEW m \in Machine, Ranked(m), NEW op, NEW node \in Nat, node <= MaxNode,
           NEW fill, NEW offset, NEW entry
    PROVE  Ranked(Write(m, op, node, fill, offset, entry))
  <1> DEFINE b == CHOOSE c \in Grants(m, node) : TRUE
             rec == [op |-> op, seq |-> m.next_seq_id, node |-> node,
                     fill |-> fill, offset |-> offset, entry |-> entry]
             w == Write(m, op, node, fill, offset, entry)
  <1>1. CASE Grants(m, node) = {}
    BY <1>1 DEF Write, Return, Machine, Ranked
  <1>2. CASE Grants(m, node) # {}
    <2>1. w = [m EXCEPT !.blocks[b] = [op |-> op, seq |-> m.next_seq_id, node |-> node,
                                       fill |-> fill, offset |-> offset],
                        !.disk[b] = rec,
                        !.next_block_id = IF @ <= LastBlock THEN @ + 1 ELSE @,
                        !.next_seq_id = @ + 1,
                        !.next_node_id = Larger(@, node + 1),
                        !.r = "OK"]
      BY <1>2 DEF Write
    <2>2. rec.node = node
      OBVIOUS
    <2> HIDE DEF b, rec, w
    <2>3. w.next_node_id = Larger(m.next_node_id, node + 1) /\ m.next_node_id \in Nat
      BY <2>1 DEF Machine
    <2>4. w.disk = [m.disk EXCEPT ![b] = rec] /\ m.disk \in [Block -> DiskRecord]
      BY <2>1 DEF Machine
    <2>5. \A c \in Block : w.disk[c] = m.disk[c] \/ w.disk[c] = rec
      BY <2>4
    <2>6. w.next_node_id <= MaxNode + 1
      BY <2>3, BoundsAssumption DEF Ranked, Larger
    <2>7. \A c \in Block : w.disk[c].node <= MaxNode
      BY <2>2, <2>5 DEF Ranked
    <2> QED
      BY <2>6, <2>7 DEF Ranked, w
  <1> QED
    BY <1>1, <1>2

\* Tables of rows do not matter to it.
LEMMA SameRanked ==
    ASSUME NEW m, Ranked(m), NEW n, n.disk = m.disk, n.next_node_id <= MaxNode + 1
    PROVE  Ranked(n)
  BY DEF Ranked

\* Nor does a refusal.
LEMMA ReturnRanked ==
    ASSUME NEW m \in Machine, Ranked(m), NEW r
    PROVE  Ranked(Return(m, r))
  BY DEF Ranked, Return, Machine

\* The nodes of the table are within the bound.
LEMMA RootedBounded ==
    ASSUME NEW m \in Machine, Ranked(m), NEW more, more \subseteq NodeRow, Rooted(m, more)
    PROVE  \A x \in m.nodes \cup more : x \in NodeRow /\ x.node \in Nat /\ x.node <= MaxNode
  <1>1. m.next_node_id \in Nat /\ m.next_node_id <= MaxNode + 1 /\ m.nodes \subseteq NodeRow
    BY DEF Ranked, Machine
  <1>2. \A x \in m.nodes \cup more : x.node < m.next_node_id /\ x \in NodeRow
    BY <1>1 DEF Rooted
  <1> QED
    BY <1>1, <1>2, BoundsAssumption DEF NodeRow

\* A deletion keeps it.
LEMMA DeleteRanked ==
    ASSUME NEW m, Sound(m), Ranked(m), Rooted(m, {}), NEW path \in Paths
    PROVE  Ranked(Delete(m, path))
  <1> DEFINE at == Resolve(m.nodes, path)
  <1>1. m \in Machine
    BY DEF Sound, Good
  <1>2. CASE at.r # "OK"
    BY <1>1, <1>2, ReturnRanked DEF Delete
  <1>3. CASE at.r = "OK" /\ at.row.type = "DIR" /\ \E x \in m.nodes : x.parent = at.row.node
    BY <1>1, <1>3, ReturnRanked DEF Delete
  <1>4. CASE at.r = "OK" /\ ~ (at.row.type = "DIR" /\ \E x \in m.nodes : x.parent = at.row.node)
    <2>1. Delete(m, path) = WriteEntry(DropNode(m, at.row.node), "DELETE", at.row)
      BY <1>4 DEF Delete
    <2>2. at.row \in m.nodes
      BY <1>1, <1>4, PathType DEF Machine
    <2> HIDE DEF at
    <2>3. at.row.node \in Nat /\ at.row.node <= MaxNode
      BY <1>1, <2>2, RootedBounded
    <2> DEFINE f == DropNode(m, at.row.node)
    <2>4. f \in Machine /\ f.disk = m.disk
      BY <1>1, <2>3, DropNodeFades DEF Fades
    <2>5. f.next_node_id = m.next_node_id
      BY <1>1 DEF DropNode, Machine
    <2> HIDE DEF f
    <2>6. Ranked(f)
      BY <2>4, <2>5 DEF Ranked
    <2> QED
      BY <2>1, <2>3, <2>4, <2>6, WriteRanked DEF WriteEntry, f
  <1> QED
    BY <1>2, <1>3, <1>4

\* The calls that name one path keep it.
LEMMA NameCallRanked ==
    ASSUME NInv, PInv, NEW path \in Paths,
           SetFile(path) \/ SetDir(path) \/ SetTime(path) \/ DelNode(path)
    PROVE  PInv'
  <1>1. mode = "mounted" /\ job = NoJob /\ job' = NoJob /\ fs.next_node_id <= MaxNode
    BY DEF SetFile, SetDir, SetTime, DelNode, Begin
  <1>2. Sound(fs) /\ fs \in Machine /\ Rooted(fs, {}) /\ Ranked(fs)
        /\ fs.next_node_id \in Nat /\ fs.nodes \in SUBSET NodeRow
    BY <1>1 DEF NInv, IInv, Typed, Pending, NoJob, PInv, Machine
  <1> SUFFICES Ranked(fs')
    BY <1>1 DEF PInv, NoJob
  <1>3. CASE SetFile(path) \/ SetDir(path)
    <2>1. PICK now \in Times, type \in {"FILE", "DIR"} : fs' = Create(fs, path, type, now)
      BY <1>3 DEF SetFile, SetDir
    <2> DEFINE new == InitNode(fs, path, type, now)
               f == [fs EXCEPT !.nodes = InsertOrReplace(fs.nodes, new.row),
                               !.next_node_id = fs.next_node_id + 1]
    <2>2. CASE new.r # "OK"
      BY <1>2, <2>1, <2>2, ReturnRanked DEF Create
    <2>3. CASE new.r = "OK"
      <3>1. new.row \in NodeRow /\ new.row.node = fs.next_node_id
        <4>1. type \in {"FILE", "DIR", "LINK"} /\ now \in Nat
          BY TimesAssumption
        <4> QED
          BY <1>2, <2>3, <4>1, InitNodeType
      <3>2. fs' = WriteEntry(f, "NODE", new.row)
        BY <1>2, <2>1, <2>3 DEF Create, Machine
      <3> HIDE DEF new
      <3>3. f \in Machine /\ f.disk = fs.disk /\ f.next_node_id = fs.next_node_id + 1
        <4>1. InsertOrReplace(fs.nodes, new.row) \in SUBSET NodeRow
          BY <1>2, <3>1, InsertType
        <4>2. fs.next_node_id + 1 \in Nat
          BY <1>2
        <4> QED
          BY <1>2, <4>1, <4>2 DEF Machine
      <3> HIDE DEF f
      <3>4. Ranked(f)
        BY <1>1, <1>2, <3>3, BoundsAssumption DEF Ranked
      <3> QED
        BY <1>1, <1>2, <3>1, <3>2, <3>3, <3>4, WriteRanked DEF WriteEntry
    <2> QED
      BY <2>2, <2>3
  <1>4. CASE SetTime(path)
    <2>1. PICK mtime \in Times : fs' = SetTimeOf(fs, path, mtime)
      BY <1>4 DEF SetTime
    <2> DEFINE at == Resolve(fs.nodes, path)
               row == [at.row EXCEPT !.mtime = mtime]
               f == [fs EXCEPT !.nodes = InsertOrReplace(fs.nodes, row)]
    <2>2. CASE at.r # "OK" \/ at.row.mtime = mtime
      BY <1>2, <2>1, <2>2, ReturnRanked DEF SetTimeOf
    <2>3. CASE at.r = "OK" /\ at.row.mtime # mtime
      <3>1. fs' = WriteEntry(f, "NODE", row)
        BY <1>2, <2>1, <2>3 DEF SetTimeOf, Machine
      <3>2. at.row \in fs.nodes
        BY <1>2, <2>3, PathType
      <3> HIDE DEF at
      <3>3. /\ at.row \in NodeRow /\ at.row.node \in Nat /\ at.row.node <= MaxNode /\ mtime \in Nat
        BY <1>2, <3>2, RootedBounded, TimesAssumption
      <3>4. row \in NodeRow /\ row.node = at.row.node
        BY <3>3 DEF NodeRow
      <3> HIDE DEF row
      <3>5. f \in Machine /\ f.disk = fs.disk /\ f.next_node_id = fs.next_node_id
        <4>1. InsertOrReplace(fs.nodes, row) \in SUBSET NodeRow
          BY <1>2, <3>4, InsertType
        <4> QED
          BY <1>2, <4>1 DEF Machine
      <3> HIDE DEF f
      <3>6. Ranked(f)
        BY <1>2, <3>5 DEF Ranked
      <3> QED
        BY <3>1, <3>3, <3>4, <3>5, <3>6, WriteRanked DEF WriteEntry
    <2> QED
      BY <2>2, <2>3
  <1>5. CASE DelNode(path)
    <2>1. fs' = Delete(fs, path)
      BY <1>5 DEF DelNode
    <2> QED
      BY <1>2, <2>1, DeleteRanked
  <1> QED
    BY <1>3, <1>4, <1>5

\* So does the first part of a link.
LEMMA SetLinkRanked ==
    ASSUME NInv, PInv, NEW path \in Paths, NEW target \in Names, SetLink(path, target)
    PROVE  PInv'
  <1>1. mode = "mounted" /\ job = NoJob /\ fs.next_node_id <= MaxNode
    BY DEF SetLink, Begin
  <1>2. /\ Ranked(fs) /\ fs \in Machine /\ fs.next_node_id \in Nat /\ fs.nodes \in SUBSET NodeRow
    BY <1>1 DEF NInv, IInv, Typed, PInv, Machine
  <1>3. PICK now \in Times :
          LET new     == InitNode(fs, path, "LINK", now)
              payload == [node |-> new.row.node, parent |-> new.row.node,
                          type |-> "LINK_PAYLOAD", name |-> target, mtime |-> 0]
          IN  IF new.r # "OK" THEN fs' = Return(fs, new.r) /\ UNCHANGED job
              ELSE /\ fs' = WriteEntry([fs EXCEPT
                              !.nodes = InsertOrReplace(InsertOrReplace(@, new.row), payload),
                              !.next_node_id = @ + 1], "NODE", new.row)
                   /\ job' = IF fs'.r = "OK" THEN [kind |-> "link", row |-> payload]
                             ELSE NoJob
    BY DEF SetLink
  <1> DEFINE new == InitNode(fs, path, "LINK", now)
             payload == [node |-> new.row.node, parent |-> new.row.node,
                         type |-> "LINK_PAYLOAD", name |-> target, mtime |-> 0]
             both == InsertOrReplace(InsertOrReplace(fs.nodes, new.row), payload)
             f == [fs EXCEPT !.nodes = both, !.next_node_id = fs.next_node_id + 1]
  <1>4. CASE new.r # "OK"
    <2>1. fs' = Return(fs, new.r) /\ job' = job
      BY <1>3, <1>4
    <2> QED
      BY <1>1, <1>2, <2>1, ReturnRanked DEF PInv, NoJob
  <1>5. CASE new.r = "OK"
    <2>1. /\ fs' = WriteEntry(f, "NODE", new.row)
          /\ job' = NoJob \/ job' = [kind |-> "link", row |-> payload]
      BY <1>2, <1>3, <1>5 DEF Machine
    <2>2. new.row \in NodeRow /\ new.row.node = fs.next_node_id
      <3>1. "LINK" \in {"FILE", "DIR", "LINK"} /\ now \in Nat
        BY TimesAssumption
      <3> QED
        BY <1>2, <1>5, <3>1, InitNodeType
    <2> HIDE DEF new
    <2>3. payload \in NodeRow /\ payload.type = "LINK_PAYLOAD"
      BY <2>2 DEF NodeRow, NodeType
    <2>4. job'.kind = "link" => job'.row.type = "LINK_PAYLOAD"
      BY <2>1 DEF NoJob
    <2> HIDE DEF payload
    <2>5. f \in Machine /\ f.disk = fs.disk /\ f.next_node_id = fs.next_node_id + 1
      <3>1. both \in SUBSET NodeRow
        BY <1>2, <2>2, <2>3, InsertType
      <3>2. fs.next_node_id + 1 \in Nat
        BY <1>2
      <3> HIDE DEF both
      <3> QED
        BY <1>2, <3>1, <3>2 DEF Machine
    <2> HIDE DEF f
    <2>6. Ranked(f)
      BY <1>1, <1>2, <2>5, BoundsAssumption DEF Ranked
    <2>7. Ranked(fs')
      BY <1>1, <1>2, <2>1, <2>2, <2>5, <2>6, WriteRanked DEF WriteEntry
    <2> QED
      BY <2>4, <2>7 DEF PInv
  <1> QED
    BY <1>4, <1>5

\* A row that finds its place, or does not.
LEMMA MoveRowRanked ==
    ASSUME NEW m \in Machine, Ranked(m), NEW row \in NodeRow, row.node <= MaxNode
    PROVE  Ranked(MoveRow(m, row)) /\ Ranked(WriteEntry(MoveRow(m, row), "MOVE", row))
  <1> DEFINE f == MoveRow(m, row)
  <1>1. f \in Machine /\ f.disk = m.disk
    BY MoveRowFades DEF Fades
  <1>2. f.next_node_id = m.next_node_id
    BY DEF MoveRow, Return, Machine
  <1> HIDE DEF f
  <1>3. Ranked(f)
    BY <1>1, <1>2 DEF Ranked
  <1>4. row.node \in Nat
    BY DEF NodeRow
  <1>5. Ranked(WriteEntry(f, "MOVE", row))
    BY <1>1, <1>3, <1>4, WriteRanked DEF WriteEntry
  <1> QED
    BY <1>3, <1>5 DEF f

\* The first part of a rename.
LEMMA MoveNodeRanked ==
    ASSUME NInv, PInv, NEW from \in Paths, NEW to \in Paths, MoveNode(from, to)
    PROVE  PInv'
  <1> DEFINE src == Resolve(fs.nodes, from)
             dir == Resolve(fs.nodes, Dirname(to))
             row == [src.row EXCEPT !.parent = dir.row.node, !.name = Basename(to)]
             moved == MoveRow(fs, row)
  <1>1. mode = "mounted" /\ job = NoJob
    BY DEF MoveNode, Begin
  <1>2. /\ Sound(fs) /\ Rooted(fs, {}) /\ Ranked(fs) /\ fs \in Machine /\ fs.nodes \in SUBSET NodeRow
    BY <1>1 DEF NInv, IInv, Typed, Pending, NoJob, PInv, Machine
  <1>3. \/ \E r : fs' = Return(fs, r)
        \/ fs' = Delete(fs, to)
        \/ /\ src.r = "OK" /\ dir.r = "OK"
           /\ fs' = WriteEntry(moved, "MOVE", row) \/ fs' = moved
    BY DEF MoveNode
  <1>4. job'.kind # "link"
    BY <1>1 DEF MoveNode, NoJob
  <1>5. CASE \E r : fs' = Return(fs, r)
    BY <1>2, <1>4, <1>5, ReturnRanked DEF PInv
  <1>6. CASE fs' = Delete(fs, to)
    BY <1>2, <1>4, <1>6, DeleteRanked DEF PInv
  <1>7. CASE /\ src.r = "OK" /\ dir.r = "OK"
             /\ fs' = WriteEntry(moved, "MOVE", row) \/ fs' = moved
    <2>1. src.row \in fs.nodes /\ dir.row.node \in Nat /\ Basename(to) \in Names
      BY <1>2, <1>7, PathType
    <2> HIDE DEF src, dir
    <2>2. src.row \in NodeRow /\ src.row.node \in Nat /\ src.row.node <= MaxNode
      BY <1>2, <2>1, RootedBounded
    <2>3. row \in NodeRow /\ row.node <= MaxNode
      BY <2>1, <2>2 DEF NodeRow
    <2> HIDE DEF row
    <2>4. Ranked(fs')
      BY <1>2, <1>7, <2>3, MoveRowRanked
    <2> QED
      BY <1>4, <2>4 DEF PInv
  <1> QED
    BY <1>3, <1>5, <1>6, <1>7

\* Data and truncations, and the second part of a link and of a rename.
LEMMA WorkRanked ==
    ASSUME NInv, PInv, Known,
           \/ \E node \in FileIds, size \in Sizes : DelData(node, size)
           \/ \E node \in FileIds, x \in Extents : SetData(node, x[1], x[2])
           \/ Finish
    PROVE  PInv'
  <1>1. mode = "mounted"
    BY DEF DelData, SetData, WriteChunk, Begin, Finish, FinishLink, FinishMove
  <1>2. /\ Ranked(fs) /\ fs \in Machine /\ job \in Job /\ Rooted(fs, Pending) /\ Pending \subseteq NodeRow
    BY <1>1, JobType DEF NInv, IInv, Typed, PInv, Pending
  <1>3. \A x \in fs.nodes \cup Pending : x \in NodeRow /\ x.node \in Nat /\ x.node <= MaxNode
    BY <1>2, RootedBounded
  <1>4. ASSUME NEW node \in FileIds, NEW size \in Sizes, DelData(node, size)
        PROVE  PInv'
    <2>1. job = NoJob /\ job' = NoJob /\ fs' = Truncate(fs, node, size)
      BY <1>4 DEF DelData, Begin
    <2>2. node \in Nat /\ node <= MaxNode /\ size \in Nat
      BY <1>3, SizesAssumption DEF FileIds
    <2> DEFINE f == DropData(fs, node, size)
    <2>3. f \in Machine /\ f.disk = fs.disk
      BY <1>2, <2>2, DropDataFades DEF Fades
    <2>4. f.next_node_id = fs.next_node_id
      BY <1>2 DEF DropData, Machine
    <2>5. fs' = Return(fs, "ENOENT") \/ fs' = Write(f, "TRUNCATE", node, 0, size, NoEntry)
      BY <2>1 DEF Truncate
    <2> HIDE DEF f
    <2>6. Ranked(f)
      BY <1>2, <2>3, <2>4 DEF Ranked
    <2>7. Ranked(fs')
      BY <1>2, <2>2, <2>3, <2>5, <2>6, WriteRanked, ReturnRanked
    <2> QED
      BY <2>1, <2>7 DEF PInv, NoJob
  <1>5. ASSUME NEW node \in FileIds, NEW x \in Extents, SetData(node, x[1], x[2])
        PROVE  PInv'
    <2>1. fs' = fs /\ job'.kind = "data"
      BY <1>5 DEF SetData
    <2> QED
      BY <1>2, <2>1 DEF PInv
  <1>6. CASE WriteChunk
    <2> DEFINE amount == IF job.size > Payload THEN Payload ELSE job.size
               left == [job EXCEPT !.offset = @ + amount, !.size = @ - amount]
    <2>1. /\ job.kind = "data" /\ fs' = Write(fs, "DATA", job.node, amount, job.offset, NoEntry)
          /\ job' = NoJob \/ job' = left
      BY <1>6 DEF WriteChunk
    <2>2. job = [kind |-> "data", node |-> job.node, offset |-> job.offset, size |-> job.size]
      BY <1>2, <2>1, JobType
    <2>3. left.kind = "data"
      <3> HIDE DEF amount
      <3> QED
        BY <2>2
    <2> HIDE DEF amount, left
    <2>4. job.node \in Nat /\ job.node <= MaxNode
      BY <1>3, <2>1 DEF Known, HasFile
    <2>5. Ranked(fs')
      BY <1>2, <2>1, <2>4, WriteRanked
    <2>6. job'.kind # "link"
      BY <2>1, <2>3 DEF NoJob
    <2> QED
      BY <2>5, <2>6 DEF PInv
  <1>7. CASE FinishLink \/ FinishMove
    <2>1. job.kind \in {"link", "move"} /\ job' = NoJob
      BY <1>7 DEF FinishLink, FinishMove
    <2>2. job.row \in NodeRow /\ job.row.node \in Nat /\ job.row.node <= MaxNode
      BY <1>3, <2>1 DEF Pending
    <2>3. \/ fs' = WriteEntry(fs, "NODE", job.row) \/ fs' = MoveRow(fs, job.row)
          \/ fs' = WriteEntry(MoveRow(fs, job.row), "MOVE", job.row)
      BY <1>7 DEF FinishLink, FinishMove
    <2>4. Ranked(fs')
      BY <1>2, <2>2, <2>3, WriteRanked, MoveRowRanked DEF WriteEntry
    <2> QED
      BY <2>1, <2>4 DEF PInv, NoJob
  <1> QED
    BY <1>4, <1>5, <1>6, <1>7 DEF Finish

\* The end of a process and the mount of the next.
LEMMA ProcessRanked ==
    ASSUME NInv, PInv, Stop \/ Mount \/ Load
    PROVE  PInv'
  <1>1. fs \in Machine /\ Ranked(fs) /\ Good(fs)
    BY DEF NInv, IInv, Good, PInv
  <1>2. CASE Stop
    <2>1. fs'.disk = fs.disk /\ fs'.next_node_id = 1 /\ job' = NoJob
      BY <1>2 DEF Stop, Fresh
    <2>2. 1 <= MaxNode + 1
      BY BoundsAssumption
    <2> QED
      BY <1>1, <2>1, <2>2 DEF PInv, Ranked, NoJob
  <1>3. CASE Mount \/ Mounted
    BY <1>3 DEF Mount, Mounted, PInv
  <1>4. ASSUME NEW b \in Block, LoadRecord(b)
        PROVE  PInv'
    <2> DEFINE rec == fs.disk[b]
               done == Effect(fs, rec)
    <2>1. mode = "loading" /\ b \in todo /\ fs' = Replay(fs, b) /\ job' = job
      BY <1>4 DEF LoadRecord
    <2>2. job = NoJob /\ Replaying(fs, todo)
      BY <2>1 DEF NInv, IInv, Typed
    <2>3. /\ rec \in DiskRecord /\ rec.op \in LogOp /\ rec.node \in Nat /\ rec.node <= MaxNode
          /\ rec.op \in EntryOp => rec.entry \in NodeRow
      BY <1>1, <2>1, <2>2 DEF Replaying, DiskSound, Valid, DiskRecord, Machine, Ranked
    <2> HIDE DEF rec
    <2>4. done \in Machine /\ done.disk = fs.disk
      BY <1>1, <2>3, EffectFades DEF Fades
    <2>5. done.next_node_id = fs.next_node_id
      BY <1>1, <2>3 DEF Effect, Return, MoveRow, DropNode, DropData, LogOp, Machine
    <2>6. /\ fs'.disk = done.disk
          /\ fs'.next_node_id \in {done.next_node_id, Larger(done.next_node_id, rec.node + 1)}
      <3> HIDE DEF done
      <3> QED
        BY <2>1, <2>4 DEF Replay, Machine, done, rec
    <2> HIDE DEF done
    <2>7. fs'.next_node_id <= MaxNode + 1
      <3>1. fs.next_node_id \in Nat /\ fs.next_node_id <= MaxNode + 1
        BY <1>1 DEF Machine, Ranked
      <3> QED
        BY <2>3, <2>5, <2>6, <3>1, BoundsAssumption DEF Larger
    <2> QED
      BY <1>1, <2>1, <2>2, <2>4, <2>6, <2>7 DEF PInv, Ranked, NoJob
  <1> QED
    BY <1>2, <1>3, <1>4 DEF Load

\* A formatted container satisfies the invariant.
LEMMA InitPInv == Init => PInv
  <1> SUFFICES ASSUME Init PROVE PInv
    OBVIOUS
  <1>1. fs.next_node_id = 1 /\ fs.disk = [b \in Block |-> NoRecord] /\ job = NoJob
    BY DEF Init, Fresh
  <1>2. 1 <= MaxNode + 1 /\ 0 <= MaxNode /\ NoRecord.node = 0
    BY BoundsAssumption DEF NoRecord
  <1> QED
    BY <1>1, <1>2 DEF PInv, Ranked, NoJob

\* Every step keeps it.
LEMMA StepPInv == NInv /\ Known /\ PInv /\ [Next]_vars => PInv'
  <1>1. PInv /\ UNCHANGED vars => PInv'
    BY DEF vars, PInv
  <1>2. NInv /\ Known /\ PInv /\ Call => PInv'
    BY NameCallRanked, SetLinkRanked, MoveNodeRanked, WorkRanked DEF Call
  <1>3. NInv /\ Known /\ PInv /\ Finish => PInv'
    BY WorkRanked
  <1> QED
    BY <1>1, <1>2, <1>3, ProcessRanked DEF Next

-----------------------------------------------------------------------------
(* The first theorem. *)

\* The tree is what it is said to be.
Mirrored == tree = TreeOf(Committed(fs, mode, job))

\* What is proved of the recovery observer is true here: the tree only watches.
LEMMA NSpecRecSpec == NSpec => RecSpec
  <1>1. NInit => RecInit
    BY DEF NInit
  <1>2. [NNext]_nvars => [RecNext]_rvars
    BY DEF NNext, nvars, rvars
  <1> QED
    BY <1>1, <1>2, PTL DEF NSpec, RecSpec

\* It is so in every state.
LEMMA MirroredAlways == NSpec => []Mirrored
  <1>1. NInit => Mirrored
    BY DEF NInit, Mirrored
  <1>2. Mirrored /\ [NNext]_nvars => Mirrored'
    <2>1. Mirrored /\ UNCHANGED nvars => Mirrored'
      BY DEF Mirrored, nvars
    <2> QED
      BY <2>1 DEF NNext, Mirrored
  <1> QED
    BY <1>1, <1>2, PTL DEF NSpec

\* The invariants of the namespace.
THEOREM NamespaceInvariant == NSpec => [](RInv /\ NInv /\ HInv /\ PInv /\ Mirrored)
  <1>1. NInit => PInv
    BY InitPInv DEF NInit, RecInit
  <1>2. NInv /\ HInv /\ PInv /\ [NNext]_nvars => PInv'
    <2>1. [NNext]_nvars => [Next]_vars
      BY DEF NNext, RecNext, nvars, vars
    <2> QED
      BY <2>1, StepPInv DEF HInv
  <1> QED
    BY <1>1, <1>2, NSpecRecSpec, HistoryInvariant, MirroredAlways, PTL DEF NSpec

\* A directory of a tree lists each of its children once, and nothing else.
THEOREM ChildrenListed == NSpec => [](Strays(fs) = {} => ListsChildren)
  <1>1. NInv /\ HInv /\ PInv /\ Mirrored => (Strays(fs) = {} => ListsChildren)
    <2> SUFFICES ASSUME NInv, HInv, PInv, Mirrored, Strays(fs) = {}, mode = "mounted",
                        NEW p \in {<<>>} \cup {q \in DOMAIN tree : tree[q].kind = "DIR"}
                 PROVE  LET listed   == GetDir(fs.nodes, p)
                            children == {q \in DOMAIN tree : q # <<>> /\ Dirname(q) = p}
                        IN  /\ {Append(p, x.name) : x \in listed} = children
                            /\ Cardinality(listed) = Cardinality(children)
      BY DEF ListsChildren
    <2> DEFINE rest == Committed(fs, mode, job)
    <2>1. Tree(fs.nodes) /\ fs \in Machine /\ Rooted(fs, Pending) /\ Pending \subseteq NodeRow
      BY StraysTree, JobType DEF NInv, IInv, Typed, Pending
    <2>2. Family(fs.nodes) /\ Unique(fs.nodes)
      BY <2>1, FamilySubset DEF Rooted
    <2>3. Bounded(fs.nodes)
      BY <2>1, RootedBounded DEF PInv, Bounded
    <2>4. rest \subseteq fs.nodes /\ \A x \in fs.nodes \ rest : x.type = "LINK_PAYLOAD"
      BY DEF Committed, PInv
    <2>5. tree = TreeOf(rest)
      BY DEF Mirrored
    <2>6. p = <<>> \/ (p \in DOMAIN tree /\ tree[p].kind = "DIR")
      OBVIOUS
    <2> DEFINE nodes    == fs.nodes
               listed   == GetDir(fs.nodes, p)
               children == {q \in DOMAIN tree : q # <<>> /\ Dirname(q) = p}
    <2>7. listed = GetDir(nodes, p)
      OBVIOUS
    <2>8. children = {q \in DOMAIN tree : q # <<>> /\ Dirname(q) = p}
      OBVIOUS
    <2>9. Family(nodes) /\ Unique(nodes) /\ Bounded(nodes) /\ Tree(nodes) /\ rest \subseteq nodes
          /\ \A x \in nodes \ rest : x.type = "LINK_PAYLOAD"
      BY <2>1, <2>2, <2>3, <2>4
    <2>10. Matches(p, listed, children)
      <3> HIDE DEF rest, nodes, listed, children
      <3> QED
        BY <2>5, <2>6, <2>7, <2>8, <2>9, ListsAll
    <2> QED
      BY <2>10 DEF Matches
  <1> QED
    BY <1>1, NamespaceInvariant, PTL

\* As long as no record has been overwritten, the tree is one, and every directory
\* lists each of its children once.
THEOREM AppendListsChildren == NSpec => [](Appended(fs.disk) => ListsChildren)
  <1>1. AppendTree /\ (Strays(fs) = {} => ListsChildren) => (Appended(fs.disk) => ListsChildren)
    BY DEF AppendTree, ListsChildren
  <1> QED
    BY <1>1, NSpecRecSpec, AppendTreeKept, ChildrenListed, PTL

-----------------------------------------------------------------------------
(* What a mount will make of a log that was only appended to. *)

\* The machine after the record with number s.
Turn(m, disk, s) ==
    IF {b \in Scanned(disk) : disk[b].seq = s} = {} THEN m
    ELSE Replay(m, CHOOSE b \in {c \in Scanned(disk) : disk[c].seq = s} : TRUE)

\* The machines of a mount, one record after the other, as far as the n-th.
Turns(disk, n, f) ==
    f = [s \in 0 .. n |-> IF s = 0 THEN Fresh(disk) ELSE Turn(f[s - 1], disk, s)]

\* There are such machines.
LEMMA TurnsExist ==
    ASSUME NEW disk, NEW n \in Nat
    PROVE  \E f : Turns(disk, n, f)
  <1> DEFINE Bad == {k \in Nat : ~ \E f : Turns(disk, k, f)}
  <1> SUFFICES ASSUME Bad # {} PROVE FALSE
    OBVIOUS
  <1>1. PICK k \in Bad : \A j \in Bad : k <= j
    <2>1. Bad \subseteq Nat
      OBVIOUS
    <2> HIDE DEF Bad
    <2> QED
      BY <2>1, NatMin
  <1>2. CASE k = 0
    <2> DEFINE f == [i \in 0 .. 0 |-> Fresh(disk)]
    <2>1. f = [i \in 0 .. 0 |-> IF i = 0 THEN Fresh(disk) ELSE Turn(f[i - 1], disk, i)]
      OBVIOUS
    <2> QED
      BY <1>2, <2>1 DEF Turns
  <1>3. CASE k # 0
    <2>1. k - 1 \in Nat /\ k - 1 \notin Bad
      BY <1>1, <1>3
    <2>2. PICK g : Turns(disk, k - 1, g)
      BY <2>1
    <2> DEFINE f == [i \in 0 .. k |-> IF i = k THEN Turn(g[k - 1], disk, k) ELSE g[i]]
               h == [i \in 0 .. k |-> IF i = 0 THEN Fresh(disk) ELSE Turn(f[i - 1], disk, i)]
    <2>3. \A i \in 0 .. k - 1 : g[i] = IF i = 0 THEN Fresh(disk) ELSE Turn(g[i - 1], disk, i)
      BY <2>2 DEF Turns
    <2>4. ASSUME NEW i \in 0 .. k
          PROVE  f[i] = h[i]
      <3>1. i = 0 \/ i - 1 \in 0 .. k - 1
        BY <2>1
      <3>2. k # 0 /\ (i # k => i \in 0 .. k - 1) /\ (i # 0 => f[i - 1] = g[i - 1])
        BY <1>3, <2>1
      <3>3. f[i] = IF i = k THEN Turn(g[k - 1], disk, k) ELSE g[i]
        OBVIOUS
      <3>4. h[i] = IF i = 0 THEN Fresh(disk) ELSE Turn(f[i - 1], disk, i)
        OBVIOUS
      <3> HIDE DEF f, h
      <3> QED
        BY <2>3, <3>2, <3>3, <3>4
    <2>5. f = h
      <3>1. /\ f = [i \in 0 .. k |-> f[i]] /\ h = [i \in 0 .. k |-> h[i]]
        OBVIOUS
      <3> HIDE DEF f, h
      <3> QED
        BY <2>4, <3>1
    <2>6. Turns(disk, k, f)
      BY <2>5 DEF Turns
    <2> HIDE DEF f
    <2> QED
      BY <1>1, <2>6
  <1> QED
    BY <1>2, <1>3

\* A mount is the last of them.
LEMMA ReplayedTurns ==
    ASSUME NEW disk, NEW n \in Nat
    PROVE  \E f : Turns(disk, n, f) /\ ReplayedTo(disk, n) = f[n]
  <1> DEFINE S(f) == f = [s \in 0 .. n |->
                           IF s = 0 THEN Fresh(disk)
                           ELSE IF {b \in Scanned(disk) : disk[b].seq = s} = {} THEN f[s - 1]
                           ELSE Replay(f[s - 1],
                                  CHOOSE b \in {c \in Scanned(disk) : disk[c].seq = s} : TRUE)]
  <1>1. ReplayedTo(disk, n) = (CHOOSE f : S(f))[n]
    BY DEF ReplayedTo
  <1>2. \E f : S(f)
    <2>1. PICK f : Turns(disk, n, f)
      BY TurnsExist
    <2>2. S(f)
      BY <2>1 DEF Turns, Turn
    <2> HIDE DEF S
    <2> QED
      BY <2>2
  <1> DEFINE g == CHOOSE f : S(f)
  <1>3. S(g)
    <2> HIDE DEF S
    <2> QED
      BY <1>2
  <1>4. Turns(disk, n, g)
    <2> HIDE DEF g
    <2> QED
      BY <1>3 DEF Turns, Turn
  <1> HIDE DEF g
  <1> QED
    BY <1>1, <1>4 DEF g

\* A mount will make of such a log the rows that records in use carry.
LEMMA RebuiltSure ==
    ASSUME NEW s, Sound(s), Settled(s), Carried(s), Unique(s.nodes), s.next_node_id >= 1,
           Faithful(s), Appended(s.disk)
    PROVE  Rebuilt(s.disk).nodes = Sure(s)
  <1> DEFINE disk == s.disk
             n == s.next_block_id - 1
  <1>1. n \in Nat /\ n <= LastBlock /\ DiskSound(disk) /\ CutsToSizes(disk) /\ Orderly(disk)
    BY LastBlockAssumption DEF Sound, Good, Settled, Faithful
  <1>2. Valid(disk) = 1 .. n
    <2>1. \A b \in Block : b \in Valid(disk) <=> b < s.next_block_id
      BY DEF Sound
    <2>2. Valid(disk) \subseteq Block /\ s.next_block_id \in Nat
      BY DEF Valid, Sound, Good, Machine
    <2>3. \A b : b \in Block /\ b < s.next_block_id <=> b \in 1 .. n
      BY <1>1, <2>2, LastBlockAssumption DEF Block
    <2> HIDE DEF disk, n
    <2>4. \A b : b \in Valid(disk) <=> b \in 1 .. n
      BY <2>1, <2>2, <2>3
    <2> QED
      BY <2>4
  <1>3. Scanned(disk) = 1 .. n
    <2>1. Scanned(disk) = Valid(disk)
      BY <1>1 DEF Scanned, Valid, DiskSound, Block
    <2> QED
      BY <1>2, <2>1
  <1>4. \A b \in 1 .. n : disk[b].seq = b
    BY <1>2 DEF Appended
  <1> HIDE DEF disk, n
  <1>5. Rebuilt(disk) = ReplayedTo(disk, n)
    <2> DEFINE S == {0} \cup {disk[b].seq : b \in Scanned(disk)}
    <2>1. S = 0 .. n
      BY <1>1, <1>3, <1>4
    <2>2. Max(S) = n
      <3>1. n \in S /\ \A y \in S : n >= y
        BY <1>1, <2>1
      <3>2. \A x \in S : (\A y \in S : x >= y) => x = n
        BY <1>1, <2>1
      <3> HIDE DEF S
      <3> QED
        BY <3>1, <3>2 DEF Max
    <2> QED
      BY <2>2 DEF Rebuilt
  <1>6. PICK f : Turns(disk, n, f) /\ ReplayedTo(disk, n) = f[n]
    BY <1>1, ReplayedTurns
  <1>7. \A k \in 0 .. n : f[k] = IF k = 0 THEN Fresh(disk) ELSE Turn(f[k - 1], disk, k)
    BY <1>6 DEF Turns
  <1> DEFINE Bad == {k \in 0 .. n : ~ Replayed(f[k], disk, k + 1 .. n)}
  <1>8. Bad = {}
    <2> SUFFICES ASSUME Bad # {} PROVE FALSE
      OBVIOUS
    <2>1. PICK k \in Bad : \A j \in Bad : k <= j
      <3>1. Bad \subseteq Nat
        BY <1>1
      <3> HIDE DEF Bad
      <3> QED
        BY <3>1, NatMin
    <2>2. k \in 0 .. n /\ ~ Replayed(f[k], disk, k + 1 .. n)
      OBVIOUS
    <2>3. CASE k = 0
      <3>1. Replayed(Fresh(disk), disk, 1 .. n)
        BY <1>1, <1>2, ReplayedFirst
      <3>2. f[k] = Fresh(disk) /\ k + 1 .. n = 1 .. n
        BY <1>1, <1>7, <2>2, <2>3
      <3> QED
        BY <2>2, <3>1, <3>2
    <2>4. CASE k # 0
      <3>1. k - 1 \in 0 .. n /\ k \in 1 .. n /\ k - 1 \notin Bad /\ k - 1 + 1 = k
        BY <1>1, <2>1, <2>2, <2>4
      <3>2. Replayed(f[k - 1], disk, k .. n)
        BY <3>1
      <3> HIDE DEF Bad
      <3>3. f[k] = Turn(f[k - 1], disk, k)
        BY <1>7, <2>2, <2>4
      <3>4. {b \in Scanned(disk) : disk[b].seq = k} = {k}
        BY <1>3, <1>4, <3>1
      <3>5. Turn(f[k - 1], disk, k) = Replay(f[k - 1], k)
        BY <3>4 DEF Turn
      <3>6. k \in k .. n /\ (k .. n) \ {k} = k + 1 .. n
        BY <1>1, <3>1
      <3>7. \A c \in k .. n : disk[k].seq <= disk[c].seq
        BY <1>1, <1>4, <3>1
      <3>8. Appended(disk)
        BY DEF disk
      <3>9. Replayed(Replay(f[k - 1], k), disk, (k .. n) \ {k})
        BY <1>1, <3>2, <3>6, <3>7, <3>8, ReplayedNext
      <3> QED
        BY <2>2, <3>3, <3>5, <3>6, <3>9
    <2> QED
      BY <2>3, <2>4
  <1>9. Replayed(f[n], disk, {})
    <2>1. n \in 0 .. n /\ n \notin Bad /\ n + 1 .. n = {}
      BY <1>1, <1>8
    <2> QED
      BY <2>1
  <1> HIDE DEF Bad
  <1>10. Sound(f[n]) /\ Settled(f[n]) /\ Carried(f[n]) /\ Youngest(f[n]) /\ Unique(f[n].nodes)
         /\ Exact(f[n]) /\ IdFollows(f[n]) /\ f[n].disk = s.disk
    BY <1>9, ReplayedSound DEF Replayed, Recoverable, disk
  <1>11. f[n].nodes = Sure(s)
    BY <1>10, MountFaithful
  <1> QED
    BY <1>5, <1>6, <1>11 DEF disk

-----------------------------------------------------------------------------
(* What a container that is never full adds. *)

\* No record was overwritten, and no call was refused for lack of space.
NeverFull == Appended(fs.disk) /\ fs.r # "ENOSPC"

\* Records carry all rows but those of `rest`.
Written(m, rest) == \A x \in m.nodes \ rest : Carriers(m, x) # {}

\* A step keeps it.
LEMMA TraceWritten ==
    ASSUME NEW m, Sound(m), Settled(m), Intact(m.disk), NEW rest, Written(m, rest),
           NEW n, NEW more, Traces(m, rest, n, more), Appended(n.disk), n.r # "ENOSPC"
    PROVE  Written(n, more)
  <1>1. CASE /\ more = rest /\ n.nodes = m.nodes /\ n.blocks = m.blocks /\ n.disk = m.disk
             /\ n.next_block_id = m.next_block_id
    BY <1>1 DEF Written, Carriers
  <1>2. ASSUME NEW f, NEW op, NEW row, Enrols(m, rest, f, op, row, more), n = WriteEntry(f, op, row)
        PROVE  Written(n, more)
    <2>1. /\ Fades(m, f) /\ f.disk = m.disk /\ op \in LogOp /\ row.node \in Nat
          /\ row \in NodeRow \cup {NoEntry} /\ 0 \in Nat /\ f.blocks = m.blocks
          /\ op \in {"NODE", "MOVE"}
          /\ n = Write(f, op, row.node, 0, 0, row)
      BY <1>2 DEF Enrols, Fades, LogOp, NodeRow, WriteEntry
    <2>2. Sound(f) /\ NextFollows(f) /\ Intact(f.disk) /\ f \in Machine
      BY <2>1, FadesSound, FadesSpared DEF Settled, Sound, Good
    <2>3. Appends(f, n, op, row.node, 0, 0, row)
      <3>1. \/ Appends(f, n, op, row.node, 0, 0, row)
            \/ n = Return(f, "ENOSPC")
        BY <2>1, <2>2, WriteAppends
      <3> QED
        BY <2>2, <3>1 DEF Return, Machine
    <2> DEFINE b == m.next_block_id
    <2>4. /\ b \in Block /\ m.blocks[b].op = "NONE" /\ n.nodes = f.nodes
          /\ n.blocks[b].op = op /\ n.disk[b].entry = row
          /\ \A c \in Block : c # b => n.blocks[c] = m.blocks[c] /\ n.disk[c] = m.disk[c]
      <3>1. /\ b \in Block /\ m.blocks[b].op = "NONE" /\ n.nodes = f.nodes
            /\ n.blocks[b] = [op |-> op, seq |-> b, node |-> row.node, fill |-> 0, offset |-> 0]
            /\ n.disk[b] = [op |-> op, seq |-> b, node |-> row.node, fill |-> 0,
                            offset |-> 0, entry |-> row]
            /\ \A c \in Block : c # b => n.blocks[c] = f.blocks[c] /\ n.disk[c] = m.disk[c]
        BY <2>1, <2>3, AppendsBlock
      <3> HIDE DEF b
      <3> QED
        BY <2>1, <3>1
    <2> HIDE DEF b
    <2>5. SUFFICES ASSUME NEW x \in n.nodes, x \notin more
                   PROVE  Carriers(n, x) # {}
      BY DEF Written
    <2>6. x = row \/ x \in m.nodes \ rest
      BY <1>2, <2>4, <2>5 DEF Enrols
    <2>7. CASE x = row
      <3>1. b \in Carriers(n, x)
        BY <2>1, <2>4, <2>7 DEF Carriers
      <3> QED
        BY <3>1
    <2>8. CASE x \in m.nodes \ rest
      <3>1. PICK c \in Block : c \in Carriers(m, x)
        BY <2>8 DEF Written, Carriers
      <3>2. c # b
        BY <2>4, <3>1 DEF Carriers
      <3>3. c \in Carriers(n, x)
        BY <2>4, <3>1, <3>2 DEF Carriers
      <3> QED
        BY <3>3
    <2> QED
      BY <2>6, <2>7, <2>8
  <1>3. ASSUME rest = {}, more = {}, NEW f, NEW op, NEW node, NEW fill \in Nat, NEW offset \in Nat,
               NEW entry \in NodeRow \cup {NoEntry},
               Strips(m, f, op, node, offset), n = Write(f, op, node, fill, offset, entry)
        PROVE  Written(n, more)
    <2>1. Fades(m, f) /\ f.disk = m.disk /\ op \in LogOp /\ node \in Nat /\ m \in Machine
      BY <1>3 DEF Strips, Fades, LogOp, Sound, Good
    <2>2. Sound(f) /\ NextFollows(f) /\ Intact(f.disk) /\ f \in Machine
      BY <2>1, FadesSound, FadesSpared DEF Settled, Sound, Good
    <2>3. Appends(f, n, op, node, fill, offset, entry)
      <3>1. \/ Appends(f, n, op, node, fill, offset, entry)
            \/ n = Return(f, "ENOSPC")
        BY <1>3, <2>1, <2>2, WriteAppends
      <3> QED
        BY <2>2, <3>1 DEF Return, Machine
    <2> DEFINE b == m.next_block_id
    <2>4. /\ b \in Block /\ m.blocks[b].op = "NONE" /\ n.nodes = f.nodes
          /\ \A c \in Block : c # b => n.blocks[c] = f.blocks[c] /\ n.disk[c] = m.disk[c]
      <3>1. /\ b \in Block /\ m.blocks[b].op = "NONE" /\ n.nodes = f.nodes
            /\ n.blocks[b] = [op |-> op, seq |-> b, node |-> node, fill |-> fill, offset |-> offset]
            /\ n.disk[b] = [op |-> op, seq |-> b, node |-> node, fill |-> fill,
                            offset |-> offset, entry |-> entry]
            /\ \A c \in Block : c # b => n.blocks[c] = f.blocks[c] /\ n.disk[c] = m.disk[c]
        BY <2>1, <2>3, AppendsBlock
      <3> HIDE DEF b
      <3> QED
        BY <3>1
    <2> HIDE DEF b
    <2>5. SUFFICES ASSUME NEW x \in n.nodes
                   PROVE  Carriers(n, x) # {}
      BY DEF Written
    <2>6. x \in m.nodes /\ (op = "DELETE" => x.node # node)
      BY <1>3, <2>4 DEF Strips
    <2>7. PICK c \in Block : c \in Carriers(m, x)
      BY <1>3, <2>6 DEF Written, Carriers
    <2>8. m.blocks[c].node = x.node /\ c # b /\ m.blocks[c].op \in {"NODE", "MOVE"}
      <3>1. m.blocks[c].node = x.node
        BY <2>1, <2>7, CarrierNodes DEF Sound
      <3> QED
        BY <2>4, <2>7, <3>1 DEF Carriers
    <2>9. f.blocks[c].op \in {"NODE", "MOVE"}
      <3>1. /\ f.blocks[c].op = "NODE" <=>
                  m.blocks[c].op = "NODE" /\ (op = "DELETE" => m.blocks[c].node # node)
            /\ f.blocks[c].op = "MOVE" <=>
                  m.blocks[c].op = "MOVE" /\ (op = "DELETE" => m.blocks[c].node # node)
        BY <1>3, <2>1, StripRows
      <3> QED
        BY <2>6, <2>8, <3>1
    <2>10. c \in Carriers(n, x)
      BY <2>4, <2>7, <2>8, <2>9 DEF Carriers
    <2> QED
      BY <2>10
  <1> QED BY <1>1, <1>2, <1>3 DEF Traces

-----------------------------------------------------------------------------
(* The operations of the namespace. *)

\* Rows that a tree can be read off.
Proper(nodes) == Family(nodes) /\ Unique(nodes) /\ Apart(nodes) /\ Bounded(nodes)

LEMMA ProperTree ==
    ASSUME NEW nodes, Proper(nodes)
    PROVE  Trees(TreeOf(nodes), Places(nodes), nodes)
  BY TreePlaces DEF Proper

\* A path that is found is the place of its row.
LEMMA FoundPlace ==
    ASSUME NEW nodes, Family(nodes), NEW p \in Below, Resolve(nodes, p).r = "OK"
    PROVE  <<p, Resolve(nodes, p).row>> \in Places(nodes)
  <1>1. p \in Seq(Names) /\ p # <<>>
    BY DEF Below
  <1>2. Resolve(nodes, p).row \in nodes
    BY <1>1, ResolvedRow
  <1> QED
    BY <1>2, PlaceType

\* A directory that is found is where it was looked for.
LEMMA FoundDir ==
    ASSUME NEW nodes, Family(nodes), NEW p \in Seq(Names), Resolve(nodes, p).r = "OK",
           Resolve(nodes, p).row.type = "DIR"
    PROVE  DirAt(Places(nodes), p, Resolve(nodes, p).row.node)
  <1>1. CASE p = <<>>
    BY <1>1 DEF DirAt, Resolve, Found, Root
  <1>2. CASE p # <<>>
    <2>1. <<p, Resolve(nodes, p).row>> \in Places(nodes)
      BY <1>2, FoundPlace DEF Below
    <2> DEFINE x == Resolve(nodes, p).row
    <2>2. <<p, x>> \in Places(nodes) /\ x.type = "DIR"
      BY <2>1
    <2> HIDE DEF x
    <2>3. DirAt(Places(nodes), p, x.node)
      BY <2>2 DEF DirAt
    <2> QED
      BY <2>3 DEF x
  <1> QED
    BY <1>1, <1>2

\* Where a directory is, the tree has one.
LEMMA DirShown ==
    ASSUME NEW nodes, Proper(nodes), tree = TreeOf(nodes), NEW p, NEW id,
           DirAt(Places(nodes), p, id)
    PROVE  NS!IsDirectory(p)
  <1>1. CASE p = <<>>
    BY <1>1 DEF NS!IsDirectory
  <1>2. CASE p # <<>>
    <2>1. PICK d : <<p, d>> \in Places(nodes) /\ d.type = "DIR"
      BY <1>2 DEF DirAt
    <2>2. /\ \A q : q \in DOMAIN tree <=> \E x : <<q, x>> \in Places(nodes)
          /\ \A q, x : <<q, x>> \in Places(nodes) => tree[q] = Shown(nodes, x)
      <3>1. Trees(tree, Places(nodes), nodes)
        BY ProperTree
      <3> QED
        BY <3>1 DEF Trees
    <2>3. p \in DOMAIN tree /\ tree[p] = Shown(nodes, d)
      BY <2>1, <2>2
    <2> QED
      BY <2>1, <2>3 DEF Shown, NS!IsDirectory
  <1> QED
    BY <1>1, <1>2

\* The tree is known by its places and what it shows of them.
LEMMA TreeIs ==
    ASSUME NEW nodes, Proper(nodes), NEW t, t = [p \in DOMAIN t |-> t[p]],
           \A p : p \in DOMAIN t <=> \E x : <<p, x>> \in Places(nodes),
           \A p, x : <<p, x>> \in Places(nodes) => t[p] = Shown(nodes, x)
    PROVE  TreeOf(nodes) = t
  <1> DEFINE u == TreeOf(nodes)
  <1>1. /\ \A p : p \in DOMAIN u <=> \E x : <<p, x>> \in Places(nodes)
        /\ \A p, x : <<p, x>> \in Places(nodes) => u[p] = Shown(nodes, x)
        /\ u = [p \in DOMAIN u |-> u[p]]
    <2>1. Trees(u, Places(nodes), nodes)
      BY ProperTree
    <2> QED
      BY <2>1 DEF Trees
  <1> HIDE DEF u
  <1>2. DOMAIN u = DOMAIN t
    <2>1. \A p : p \in DOMAIN u <=> p \in DOMAIN t
      BY <1>1
    <2> QED
      BY <1>1, <2>1
  <1>3. \A p \in DOMAIN t : u[p] = t[p]
    BY <1>1
  <1> QED
    BY <1>1, <1>2, <1>3 DEF u

\* A new row is a creation.
LEMMA CreateStep ==
    ASSUME NEW nodes, Proper(nodes), Tree(nodes), NEW path \in Below,
           NEW row, row.name = Basename(path), row.type \in {"DIR", "FILE", "LINK"},
           row.parent # row.node, \A x \in nodes : x.node # row.node,
           DirAt(Places(nodes), Dirname(path), row.parent),
           \A x : <<path, x>> \notin Places(nodes),
           Proper(nodes \cup {row}), tree = TreeOf(nodes), tree' = TreeOf(nodes \cup {row})
    PROVE  NS!Next
  <1> DEFINE later == nodes \cup {row}
             t == tree
             u == tree'
  <1>1. row.node # 0 /\ \A x \in nodes : x.parent # row.node
    <2>1. row.node # 0
      BY DEF Proper, Family
    <2> QED
      BY <2>1, ParentKnown
  <1>2. Places(later) = Places(nodes) \cup {<<path, row>>}
    BY <1>1, PlantPlaces DEF Proper
  <1>3. /\ \A p : p \in DOMAIN t <=> \E x : <<p, x>> \in Places(nodes)
        /\ \A p, x : <<p, x>> \in Places(nodes) => t[p] = Shown(nodes, x)
    <2>1. Trees(t, Places(nodes), nodes)
      BY ProperTree
    <2> QED
      BY <2>1 DEF Trees
  <1>4. /\ \A p : p \in DOMAIN u <=> \E x : <<p, x>> \in Places(later)
        /\ DOMAIN u \subseteq Deep
        /\ \A p, x : <<p, x>> \in Places(later) => u[p] = Shown(later, x)
        /\ u = [p \in DOMAIN u |-> u[p]]
    <2>1. Trees(u, Places(later), later)
      BY ProperTree
    <2> QED
      BY <2>1 DEF Trees
  <1>5. ASSUME NEW x \in nodes PROVE Shown(later, x) = Shown(nodes, x)
    <2>1. Payloads(later, x.node) = Payloads(nodes, x.node)
      BY DEF Payloads
    <2> QED
      BY <2>1 DEF Shown, LinkTarget
  <1>6. Shown(later, row) = [kind |-> row.type, target |-> NoName]
    <2>1. Payloads(later, row.node) = {}
      BY DEF Payloads
    <2> QED
      BY <2>1 DEF Shown, LinkTarget
  <1>7. Places(nodes) \subseteq Below \X nodes
    BY DEF Places
  <1> HIDE DEF later, t, u
  <1>8. path \notin DOMAIN t /\ path \in DOMAIN u /\ path \in Deep
    BY <1>2, <1>3, <1>4
  <1>9. u = [q \in DOMAIN t \cup {path} |->
               IF q = path THEN [kind |-> row.type, target |-> NoName] ELSE t[q]]
    <2>1. DOMAIN u = DOMAIN t \cup {path}
      <3>1. \A q : q \in DOMAIN u <=> q \in DOMAIN t \cup {path}
        BY <1>2, <1>3, <1>4
      <3> QED
        BY <3>1
    <2>2. u[path] = [kind |-> row.type, target |-> NoName]
      BY <1>2, <1>4, <1>6
    <2>3. ASSUME NEW q \in DOMAIN t PROVE u[q] = t[q]
      <3>1. PICK x : <<q, x>> \in Places(nodes)
        BY <1>3
      <3>2. x \in nodes
        BY <1>7, <3>1
      <3> QED
        BY <1>2, <1>3, <1>4, <1>5, <3>1, <3>2
    <2> QED
      BY <1>4, <1>8, <2>1, <2>2, <2>3
  <1>10. NS!IsDirectory(Dirname(path))
    BY DirShown
  <1>11. NS!Create(path, row.type)
    BY <1>8, <1>9, <1>10 DEF NS!Create, NS!Parent, Dirname, t, u
  <1>12. row.type \in NS!Kind
    BY DEF NS!Kind
  <1> QED
    BY <1>8, <1>11, <1>12 DEF NS!Next

\* The removal of a row is one of its path.
LEMMA UnlinkStep ==
    ASSUME NEW nodes, Proper(nodes), NEW path \in Below, NEW at, <<path, at>> \in Places(nodes),
           at.type = "DIR" => \A x \in nodes : x.parent # at.node,
           NEW later, later = {x \in nodes : x.node # at.node},
           Proper(later), tree = TreeOf(nodes), tree' = TreeOf(later)
    PROVE  NS!Next
  <1> DEFINE t == tree
             u == tree'
  <1>1. Places(later) = Places(nodes) \ {<<path, at>>}
    BY DropPlaces DEF Proper
  <1>2. /\ \A p : p \in DOMAIN t <=> \E x : <<p, x>> \in Places(nodes)
        /\ DOMAIN t \subseteq Deep
        /\ \A p, x : <<p, x>> \in Places(nodes) => t[p] = Shown(nodes, x)
    <2>1. Trees(t, Places(nodes), nodes)
      BY ProperTree
    <2> QED
      BY <2>1 DEF Trees
  <1>3. /\ \A p : p \in DOMAIN u <=> \E x : <<p, x>> \in Places(later)
        /\ \A p, x : <<p, x>> \in Places(later) => u[p] = Shown(later, x)
        /\ u = [p \in DOMAIN u |-> u[p]]
    <2>1. Trees(u, Places(later), later)
      BY ProperTree
    <2> QED
      BY <2>1 DEF Trees
  <1>4. ASSUME NEW x \in later PROVE Shown(later, x) = Shown(nodes, x)
    <2>1. Payloads(later, x.node) = Payloads(nodes, x.node)
      BY DEF Payloads
    <2> QED
      BY <2>1 DEF Shown, LinkTarget
  <1>5. Places(later) \subseteq Below \X later
    BY DEF Places
  <1>6. \A x : <<path, x>> \in Places(nodes) => x = at
    BY PlaceRow DEF Proper
  <1>7. path \in Seq(Names) /\ path # <<>> /\ Resolve(nodes, path).r = "OK"
        /\ Resolve(nodes, path).row = at
    BY PlaceType DEF Below
  <1> HIDE DEF t, u
  <1>8. path \in DOMAIN t /\ path \in Deep
    BY <1>2
  <1>9. ASSUME NEW q \in DOMAIN t, NS!IsStrictPrefix(path, q)
        PROVE  FALSE
    <2> DEFINE i == Len(path)
    <2>1. q \in Seq(Names) /\ q # <<>> /\ Resolve(nodes, q).r = "OK"
      <3>1. PICK x : <<q, x>> \in Places(nodes)
        BY <1>2
      <3> QED
        BY <3>1, PlaceType DEF Below
    <2>2. NS!IsPrefix(path, q) /\ path # q
      BY <1>9 DEF NS!IsStrictPrefix
    <2>3. i \in Nat /\ Len(q) \in Nat /\ i <= Len(q) /\ \A j \in 1 .. i : path[j] = q[j]
      BY <1>7, <2>1, <2>2, PrefixPoints
    <2>4. i # Len(q)
      <3>1. i = Len(q) => path = q
        BY <1>7, <2>1, <2>3
      <3> QED
        BY <2>2, <3>1
    <2>5. i \in 0 .. Len(q) /\ i + 1 \in 0 .. Len(q) /\ i + 1 # 0 /\ i + 1 - 1 = i
      BY <2>3, <2>4
    <2>6. SubSeq(q, 1, i) = path
      <3>1. SubSeq(q, 1, i) = [j \in 1 .. i |-> q[j]]
        BY <2>1, <2>3
      <3>2. path = [j \in 1 .. i |-> path[j]]
        BY <1>7
      <3> QED
        BY <2>3, <3>1, <3>2
    <2> DEFINE next == SubSeq(q, 1, i + 1)
    <2> HIDE DEF i
    <2>7. at.type = "DIR"
      BY <1>7, <2>1, <2>4, <2>5, <2>6, PlacePrefix DEF Proper
    <2>8. /\ next \in Seq(Names) /\ next # <<>> /\ Resolve(nodes, next).r = "OK"
          /\ Dirname(next) = path
      <3>1. Dirname(next) = SubSeq(q, 1, i + 1 - 1)
        BY <2>1, <2>5, PrefixType
      <3>2. next \in Seq(Names) /\ next # <<>>
        BY <2>1, <2>5, PrefixType
      <3>3. Resolve(nodes, next).r = "OK"
        BY <2>1, <2>5, PlacePrefix DEF Proper
      <3> QED
        BY <2>5, <2>6, <3>1, <3>2, <3>3
    <2> HIDE DEF next
    <2>9. Resolve(nodes, next).row \in nodes /\ Resolve(nodes, next).row.parent = at.node
      BY <1>7, <2>8, ResolvedRow DEF Proper
    <2> QED
      BY <2>7, <2>9
  <1>10. u = [q \in DOMAIN t \ {path} |-> t[q]]
    <2>1. DOMAIN u = DOMAIN t \ {path}
      <3>1. \A q : q \in DOMAIN u <=> q \in DOMAIN t \ {path}
        BY <1>1, <1>2, <1>3, <1>6
      <3> QED
        BY <3>1
    <2>2. ASSUME NEW q \in DOMAIN u PROVE u[q] = t[q]
      <3>1. PICK x : <<q, x>> \in Places(later)
        BY <1>3
      <3>2. x \in later
        BY <1>5, <3>1
      <3> QED
        BY <1>1, <1>2, <1>3, <1>4, <3>1, <3>2
    <2> QED
      BY <1>3, <2>1, <2>2
  <1>11. NS!Unlink(path)
    BY <1>8, <1>9, <1>10 DEF NS!Unlink, t, u
  <1> QED
    BY <1>8, <1>11 DEF NS!Next

\* A path that moves to itself stays.
LEMMA MovedSelf ==
    ASSUME NEW p \in Below, NEW q \in Below
    PROVE  Moved(p, p, q) = q
  <1>1. CASE ~ NS!IsPrefix(p, q)
    BY <1>1 DEF Moved
  <1>2. CASE NS!IsPrefix(p, q)
    <2> DEFINE k == Len(p)
               n == Len(q) - k
               s == SubSeq(q, k + 1, Len(q))
    <2>1. p \in Seq(Names) /\ q \in Seq(Names) /\ k \in Nat /\ Len(q) \in Nat
          /\ k <= Len(q) /\ \A i \in 1 .. k : p[i] = q[i]
      <3>1. p \in Seq(Names) /\ q \in Seq(Names)
        BY DEF Below
      <3> QED
        BY <1>2, <3>1, PrefixPoints
    <2>2. n \in Nat /\ k + n = Len(q)
      BY <2>1
    <2>3. s \in Seq(Names) /\ Len(s) = n /\ \A i \in 1 .. n : s[i] = q[k + i]
      BY <2>1
    <2> HIDE DEF n, s
    <2>4. /\ p \o s \in Seq(Names) /\ Len(p \o s) = Len(p) + Len(s)
          /\ \A i \in 1 .. Len(p) + Len(s) :
               (p \o s)[i] = IF i <= Len(p) THEN p[i] ELSE s[i - Len(p)]
      BY <2>1, <2>3, JoinPoints
    <2> DEFINE a == p \o s
    <2> HIDE DEF a
    <2>5. a \in Seq(Names) /\ Len(a) = Len(q)
          /\ \A i \in 1 .. Len(q) : a[i] = IF i <= k THEN p[i] ELSE s[i - k]
      BY <2>2, <2>3, <2>4 DEF a
    <2> HIDE DEF k
    <2>6. ASSUME NEW i \in 1 .. Len(q) PROVE a[i] = q[i]
      <3>1. CASE i <= k
        BY <2>1, <2>5, <3>1
      <3>2. CASE ~ (i <= k)
        <4>1. i - k \in 1 .. n /\ k + (i - k) = i
          BY <2>1, <2>2, <3>2
        <4> QED
          BY <2>3, <2>5, <3>2, <4>1
      <3> QED
        BY <3>1, <3>2
    <2>7. a = q
      BY <2>1, <2>5, <2>6
    <2> QED
      BY <1>2, <2>7 DEF a, s, k, Moved
  <1> QED
    BY <1>1, <1>2

\* A new time is not shown.
LEMMA TimeStep ==
    ASSUME NEW nodes, Proper(nodes), NEW path \in Below, NEW old, <<path, old>> \in Places(nodes),
           NEW row, row.node = old.node, row.type = old.type, row.parent = old.parent,
           row.name = old.name, NEW later, later = InsertOrReplace(nodes, row), Proper(later)
    PROVE  TreeOf(later) = TreeOf(nodes)
  <1> DEFINE t == TreeOf(nodes)
  <1>1. old \in nodes /\ row.name = Basename(path) /\ old.type # "LINK_PAYLOAD"
        /\ DirAt(Places(nodes), Dirname(path), row.parent)
    <2>1. old \in nodes /\ old.type # "LINK_PAYLOAD"
      BY PlaceRow DEF Proper
    <2>2. Solves(Places(nodes), nodes)
      BY PlacesSolve DEF Proper
    <2> QED
      BY <2>1, <2>2 DEF Solves
  <1>2. ~ NS!IsPrefix(path, Dirname(path))
    <2>1. path \in Seq(Names) /\ path # <<>>
      BY DEF Below
    <2>2. Len(path) \in Nat \ {0} /\ Len(Dirname(path)) = Len(path) - 1
      BY <2>1, DirnameType
    <2> QED
      BY <2>2 DEF NS!IsPrefix
  <1> DEFINE Become(x) == IF x = old THEN row ELSE x
  <1>3. /\ \A q, x : <<q, x>> \in Places(nodes) =>
             <<Moved(path, path, q), Become(x)>> \in Places(later)
        /\ \A p, y : <<p, y>> \in Places(later) =>
             \E s \in Places(nodes) :
               /\ <<s[1], s[2]>> \in Places(nodes)
               /\ p = Moved(path, path, s[1]) /\ y = Become(s[2])
    <2>1. /\ Family(nodes) /\ Unique(nodes) /\ Apart(nodes) /\ Family(later) /\ Apart(later)
          /\ row.node = old.node /\ row.type = old.type /\ later = InsertOrReplace(nodes, row)
      BY DEF Proper
    <2> DEFINE to == path
    <2>2. /\ to \in Below /\ row.name = Basename(to)
          /\ DirAt(Places(nodes), Dirname(to), row.parent) /\ ~ NS!IsPrefix(path, Dirname(to))
      BY <1>1, <1>2
    <2> HIDE DEF t, to
    <2>3. Relocated(nodes, later, path, to, old, row)
      BY <2>1, <2>2, MovePlaces
    <2> QED
      BY <2>3 DEF to, Relocated
  <1>4. /\ \A p : p \in DOMAIN t <=> \E x : <<p, x>> \in Places(nodes)
        /\ \A p, x : <<p, x>> \in Places(nodes) => t[p] = Shown(nodes, x)
        /\ t = [p \in DOMAIN t |-> t[p]]
    <2>1. Trees(t, Places(nodes), nodes)
      BY ProperTree
    <2> QED
      BY <2>1 DEF Trees
  <1>5. ASSUME NEW x \in nodes
        PROVE  Shown(later, Become(x)) = Shown(nodes, x)
    <2>1. Payloads(later, x.node) = Payloads(nodes, x.node)
      BY <1>1 DEF Payloads, InsertOrReplace
    <2> QED
      BY <2>1 DEF Shown, LinkTarget
  <1>6. \A p, x : <<p, x>> \in Places(nodes) => p \in Below /\ x \in nodes
    BY PlaceType
  <1> HIDE DEF t, Become
  <1>7. ASSUME NEW p, NEW y, <<p, y>> \in Places(later)
        PROVE  p \in DOMAIN t /\ t[p] = Shown(later, y)
    <2>1. PICK s \in Places(nodes) :
             /\ <<s[1], s[2]>> \in Places(nodes)
             /\ p = Moved(path, path, s[1]) /\ y = Become(s[2])
      BY <1>3, <1>7
    <2> DEFINE q == s[1]
               x == s[2]
    <2>2. <<q, x>> \in Places(nodes) /\ p = Moved(path, path, q) /\ y = Become(x)
      BY <2>1
    <2> HIDE DEF q, x
    <2>3. q \in Below /\ x \in nodes
      BY <1>6, <2>2
    <2>4. p = q
      BY <2>2, <2>3, MovedSelf
    <2>5. q \in DOMAIN t /\ t[q] = Shown(nodes, x)
      BY <1>4, <2>2
    <2>6. Shown(later, y) = Shown(nodes, x)
      BY <1>5, <2>2, <2>3
    <2> QED
      BY <2>4, <2>5, <2>6
  <1>8. ASSUME NEW p \in DOMAIN t PROVE \E y : <<p, y>> \in Places(later)
    <2>1. PICK x : <<p, x>> \in Places(nodes)
      BY <1>4
    <2>2. Moved(path, path, p) = p
      BY <1>6, <2>1, MovedSelf
    <2> QED
      BY <1>3, <2>1, <2>2
  <1>9. TreeOf(later) = t
    BY <1>4, <1>7, <1>8, TreeIs
  <1> QED
    BY <1>9 DEF t

\* A new place of a row that kept its node and type is a rename of its path.
LEMMA RenameStep ==
    ASSUME NEW nodes, Proper(nodes), NEW from, NEW old, <<from, old>> \in Places(nodes),
           NEW to \in Below, NEW row, row.node = old.node, row.type = old.type,
           row.name = Basename(to), DirAt(Places(nodes), Dirname(to), row.parent),
           ~ NS!IsPrefix(from, to), \A x : <<to, x>> \notin Places(nodes),
           NEW later, later = InsertOrReplace(nodes, row), Proper(later),
           tree = TreeOf(nodes), tree' = TreeOf(later)
    PROVE  NS!Next
  <1> DEFINE t == tree
             u == tree'
             New(q) == Moved(from, to, q)
             Become(x) == IF x = old THEN row ELSE x
  <1>1. from \in Below /\ old \in nodes /\ old.type # "LINK_PAYLOAD"
    BY PlaceRow DEF Proper
  <1>2. ~ NS!IsPrefix(from, Dirname(to))
    <2>1. from \in Seq(Names) /\ to \in Seq(Names) /\ to # <<>>
      BY <1>1 DEF Below
    <2>2. /\ Dirname(to) \in Seq(Names) /\ Len(Dirname(to)) = Len(to) - 1
          /\ \A i \in 1 .. Len(to) - 1 : Dirname(to)[i] = to[i]
      BY <2>1, DirnameType
    <2>3. Len(from) \in Nat /\ Len(to) \in Nat
      BY <2>1
    <2>4. ~ (Len(from) <= Len(to) /\ \A i \in 1 .. Len(from) : from[i] = to[i])
      BY <2>1, PrefixPoints
    <2>5. NS!IsPrefix(from, Dirname(to)) <=>
            Len(from) <= Len(Dirname(to)) /\ \A i \in 1 .. Len(from) : from[i] = Dirname(to)[i]
      BY <2>1, <2>2, PrefixPoints
    <2> QED
      BY <2>2, <2>3, <2>4, <2>5
  <1>3. Relocated(nodes, later, from, to, old, row)
    <2>1. /\ Family(nodes) /\ Unique(nodes) /\ Apart(nodes) /\ Family(later) /\ Apart(later)
      BY DEF Proper
    <2> HIDE DEF t, u, New, Become
    <2> QED
      BY <1>2, <2>1, MovePlaces
  <1>4. /\ \A q, x : <<q, x>> \in Places(nodes) => <<New(q), Become(x)>> \in Places(later)
        /\ \A p, y : <<p, y>> \in Places(later) =>
             \E s \in Places(nodes) : /\ <<s[1], s[2]>> \in Places(nodes)
                                      /\ p = New(s[1]) /\ y = Become(s[2])
    BY <1>3 DEF Relocated
  <1>5. /\ \A p : p \in DOMAIN t <=> \E x : <<p, x>> \in Places(nodes)
        /\ DOMAIN t \subseteq Deep
        /\ \A p, x : <<p, x>> \in Places(nodes) => t[p] = Shown(nodes, x)
    <2>1. Trees(t, Places(nodes), nodes)
      BY ProperTree
    <2> QED
      BY <2>1 DEF Trees
  <1>6. /\ \A p : p \in DOMAIN u <=> \E x : <<p, x>> \in Places(later)
        /\ DOMAIN u \subseteq Deep
        /\ \A p, x : <<p, x>> \in Places(later) => u[p] = Shown(later, x)
        /\ u = [p \in DOMAIN u |-> u[p]]
    <2>1. Trees(u, Places(later), later)
      BY ProperTree
    <2> QED
      BY <2>1 DEF Trees
  <1>7. ASSUME NEW x \in nodes PROVE Shown(later, Become(x)) = Shown(nodes, x)
    <2>1. Payloads(later, x.node) = Payloads(nodes, x.node)
      BY <1>1 DEF Payloads, InsertOrReplace
    <2> QED
      BY <2>1 DEF Shown, LinkTarget
  <1>8. \A p, x : <<p, x>> \in Places(nodes) => x \in nodes
    BY PlaceType
  <1>9. \A x : Become(x).node = x.node
    OBVIOUS
  <1>10. New(from) = to
    BY <1>1, MovedPath
  <1>11. /\ \A q, x, r, y : <<q, x>> \in Places(nodes) /\ <<r, y>> \in Places(nodes)
                /\ x.node = y.node => q = r
         /\ \A p, x, y : <<p, x>> \in Places(later) /\ <<p, y>> \in Places(later) => x = y
    <2>1. Family(nodes) /\ Unique(nodes) /\ Family(later) /\ Unique(later)
      BY DEF Proper
    <2> QED
      BY <2>1, PlaceRow
  <1> HIDE DEF t, u, New, Become
  <1>12. \A q, r \in DOMAIN t : New(q) = New(r) => q = r
    <2> SUFFICES ASSUME NEW q \in DOMAIN t, NEW r \in DOMAIN t, New(q) = New(r) PROVE q = r
      OBVIOUS
    <2>1. PICK x : <<q, x>> \in Places(nodes)
      BY <1>5
    <2>2. PICK y : <<r, y>> \in Places(nodes)
      BY <1>5
    <2>3. Become(x) = Become(y)
      BY <1>4, <1>11, <2>1, <2>2
    <2> QED
      BY <1>9, <1>11, <2>1, <2>2, <2>3
  <1>13. DOMAIN u = {New(q) : q \in DOMAIN t}
    <2>1. ASSUME NEW p \in DOMAIN u PROVE \E q \in DOMAIN t : p = New(q)
      <3>1. PICK y : <<p, y>> \in Places(later)
        BY <1>6
      <3>2. PICK s \in Places(nodes) : <<s[1], s[2]>> \in Places(nodes) /\ p = New(s[1])
        BY <1>4, <3>1
      <3>3. s[1] \in DOMAIN t
        BY <1>5, <3>2
      <3> QED
        BY <3>2, <3>3
    <2>2. ASSUME NEW q \in DOMAIN t PROVE New(q) \in DOMAIN u
      BY <1>4, <1>5, <1>6
    <2> QED
      BY <2>1, <2>2
  <1>14. ASSUME NEW q \in DOMAIN t PROVE u[New(q)] = t[q]
    <2>1. PICK x : <<q, x>> \in Places(nodes)
      BY <1>5
    <2>2. x \in nodes /\ <<New(q), Become(x)>> \in Places(later)
      BY <1>4, <1>8, <2>1
    <2> QED
      BY <1>5, <1>6, <1>7, <2>1, <2>2
  <1>15. \A p \in DOMAIN u : u[p] = t[CHOOSE q \in DOMAIN t : New(q) = p]
    <2> SUFFICES ASSUME NEW p \in DOMAIN u
                 PROVE  u[p] = t[CHOOSE q \in DOMAIN t : New(q) = p]
      OBVIOUS
    <2>1. \E q \in DOMAIN t : New(q) = p
      BY <1>13
    <2> DEFINE r == CHOOSE q \in DOMAIN t : New(q) = p
    <2>2. r \in DOMAIN t /\ New(r) = p
      BY <2>1
    <2> HIDE DEF r
    <2>3. u[p] = t[r]
      BY <1>14, <2>2
    <2> QED
      BY <2>3 DEF r
  <1>16. u = [p \in {New(q) : q \in DOMAIN t} |-> t[CHOOSE q \in DOMAIN t : New(q) = p]]
    BY <1>6, <1>13, <1>15
  <1>17. from \in DOMAIN t /\ to \notin DOMAIN t /\ from \in Deep /\ to \in Deep
    <2>1. from \in DOMAIN t /\ to \notin DOMAIN t
      BY <1>5
    <2>2. to \in DOMAIN u
      BY <1>10, <1>13, <2>1
    <2> QED
      BY <1>5, <1>6, <2>1, <2>2
  <1>18. NS!IsDirectory(Dirname(to))
    BY DirShown
  <1>19. NS!Rename(from, to)
    BY <1>16, <1>17, <1>18 DEF NS!Rename, NS!Parent, Dirname, t, u, New, Moved
  <1> QED
    BY <1>17, <1>19 DEF NS!Next

\* The payload of a link is its target.
LEMMA TargetStep ==
    ASSUME NEW nodes, Proper(nodes), NEW payload \in nodes, payload.type = "LINK_PAYLOAD",
           NEW path, NEW at, <<path, at>> \in Places(nodes), at.type = "LINK",
           at.node = payload.node,
           NEW rest, rest = nodes \ {payload}, tree = TreeOf(rest), tree' = TreeOf(nodes)
    PROVE  NS!Next
  <1> DEFINE t == tree
             u == tree'
  <1>1. Proper(rest)
    BY FamilySubset DEF Proper, Unique, Apart, Bounded
  <1>2. Places(rest) = Places(nodes)
    <2>1. \A x \in nodes \ rest : x.type = "LINK_PAYLOAD"
      OBVIOUS
    <2> QED
      BY <2>1, PayloadPlaces DEF Proper
  <1>3. /\ \A p : p \in DOMAIN t <=> \E x : <<p, x>> \in Places(nodes)
        /\ DOMAIN t \subseteq Deep
        /\ \A p, x : <<p, x>> \in Places(nodes) => t[p] = Shown(rest, x)
    <2>1. Trees(t, Places(nodes), rest)
      BY <1>1, <1>2, ProperTree
    <2> QED
      BY <2>1 DEF Trees
  <1>4. /\ \A p : p \in DOMAIN u <=> \E x : <<p, x>> \in Places(nodes)
        /\ \A p, x : <<p, x>> \in Places(nodes) => u[p] = Shown(nodes, x)
        /\ u = [p \in DOMAIN u |-> u[p]]
    <2>1. Trees(u, Places(nodes), nodes)
      BY ProperTree
    <2> QED
      BY <2>1 DEF Trees
  <1>5. t = [p \in DOMAIN t |-> t[p]]
    <2>1. Trees(t, Places(rest), rest)
      BY <1>1, ProperTree
    <2> QED
      BY <2>1 DEF Trees
  <1>6. \A x : x.node # payload.node => Shown(rest, x) = Shown(nodes, x)
    <2> SUFFICES ASSUME NEW x, x.node # payload.node
                 PROVE  Shown(rest, x) = Shown(nodes, x)
      OBVIOUS
    <2>1. Payloads(rest, x.node) = Payloads(nodes, x.node)
      BY DEF Payloads
    <2> QED
      BY <2>1 DEF Shown, LinkTarget
  <1>7. Shown(rest, at) = [kind |-> "LINK", target |-> NoName]
    <2>1. Payloads(rest, at.node) = {}
      BY DEF Payloads, Proper, Unique
    <2> QED
      BY <2>1 DEF Shown, LinkTarget
  <1>8. Shown(nodes, at) = [kind |-> "LINK", target |-> payload.name]
    <2>1. Payloads(nodes, at.node) = {payload}
      BY DEF Payloads, Proper, Unique
    <2> QED
      BY <2>1 DEF Shown, LinkTarget
  <1>9. /\ \A y : <<path, y>> \in Places(nodes) => y = at
        /\ \A q, y : <<q, y>> \in Places(nodes) /\ y.node = at.node => q = path
    <2>1. Family(nodes) /\ Unique(nodes)
      BY DEF Proper
    <2> QED
      BY <2>1, PlaceRow
  <1>10. payload.name \in Names
    BY DEF Proper, Family, NodeRow
  <1> HIDE DEF t, u
  <1>11. path \in DOMAIN t /\ t[path] = [kind |-> "LINK", target |-> NoName] /\ path \in Deep
    BY <1>3, <1>7
  <1>12. u = [t EXCEPT ![path].target = payload.name]
    <2>1. DOMAIN u = DOMAIN t
      <3>1. \A p : p \in DOMAIN u <=> p \in DOMAIN t
        BY <1>3, <1>4
      <3> QED
        BY <3>1
    <2>2. u[path] = [t[path] EXCEPT !.target = payload.name]
      <3>1. u[path] = [kind |-> "LINK", target |-> payload.name]
        BY <1>4, <1>8
      <3> QED
        BY <1>11, <3>1
    <2>3. ASSUME NEW p \in DOMAIN t, p # path PROVE u[p] = t[p]
      <3>1. PICK x : <<p, x>> \in Places(nodes)
        BY <1>3
      <3>2. x.node # payload.node
        BY <1>9, <2>3, <3>1
      <3>3. t[p] = Shown(rest, x) /\ u[p] = Shown(nodes, x)
        BY <1>3, <1>4, <3>1
      <3>4. Shown(rest, x) = Shown(nodes, x)
        BY <1>6, <3>2
      <3> QED
        BY <3>3, <3>4
    <2> QED
      BY <1>4, <1>5, <2>1, <2>2, <2>3
  <1>13. NS!SetTarget(path, payload.name)
    BY <1>11, <1>12 DEF NS!SetTarget, t, u
  <1> QED
    BY <1>10, <1>11, <1>13 DEF NS!Next

-----------------------------------------------------------------------------
(* What the calls do to the places. *)

\* Fewer rows are proper too.
LEMMA ProperSubset ==
    ASSUME NEW nodes, Proper(nodes), NEW rest, rest \subseteq nodes
    PROVE  Proper(rest)
  BY FamilySubset DEF Proper, Unique, Apart, Bounded

\* The table of a process whose rows are a tree is proper.
LEMMA ProperTable ==
    ASSUME NEW m \in Machine, Ranked(m), NEW more, more \subseteq NodeRow, Rooted(m, more),
           Tree(m.nodes)
    PROVE  Proper(m.nodes)
  <1>1. Family(m.nodes) /\ Unique(m.nodes)
    <2>1. Family(m.nodes \cup Entries(m.disk) \cup more) /\ Unique(m.nodes)
      BY DEF Rooted
    <2> QED
      BY <2>1, FamilySubset
  <1>2. Bounded(m.nodes)
    BY RootedBounded DEF Bounded
  <1> QED
    BY <1>1, <1>2 DEF Proper, Tree

\* A row that can be created at the path.
NewAt(nodes, path, row) ==
    /\ row.name = Basename(path) /\ DirAt(Places(nodes), Dirname(path), row.parent)
    /\ row.parent # row.node /\ \A x \in nodes : x.node # row.node
    /\ \A x : <<path, x>> \notin Places(nodes)

\* A row that _oncefs_init_node makes belongs at a path where nothing is yet.
LEMMA NewPlace ==
    ASSUME NEW m, Sound(m), Rooted(m, {}), NEW path \in Paths,
           NEW type \in {"FILE", "DIR", "LINK"}, NEW now \in Nat,
           InitNode(m, path, type, now).r = "OK",
           NEW row, row = InitNode(m, path, type, now).row
    PROVE  NewAt(m.nodes, path, row)
  <1> DEFINE there == Resolve(m.nodes, path)
             dir == Resolve(m.nodes, Dirname(path))
  <1>1. path \in Below /\ path \in Seq(Names) /\ path # <<>> /\ Dirname(path) \in Seq(Names)
    <2>1. path \in Seq(Names) /\ path # <<>>
      BY PathsAssumption
    <2> QED
      BY <2>1, DirnameType DEF Below
  <1>2. NewIn(m, row, type)
    BY NewRow
  <1>3. /\ there.r # "OK" /\ dir.r = "OK" /\ dir.row.type = "DIR"
        /\ row.parent = dir.row.node /\ row.name = Basename(path)
    BY DEF InitNode, Found, Missing
  <1>4. Family(m.nodes)
    <2>1. Family(m.nodes \cup Entries(m.disk) \cup {})
      BY DEF Rooted
    <2> QED
      BY <2>1, FamilySubset
  <1>5. DirAt(Places(m.nodes), Dirname(path), row.parent)
    <2>1. DirAt(Places(m.nodes), Dirname(path), dir.row.node)
      BY <1>1, <1>3, <1>4, FoundDir
    <2> QED
      BY <1>3, <2>1
  <1>6. \A x : <<path, x>> \notin Places(m.nodes)
    BY <1>3, PlaceType
  <1> QED
    BY <1>2, <1>3, <1>5, <1>6 DEF NewAt, NewIn

\* A file or a directory that is created is one row more.
LEMMA CreateEffect ==
    ASSUME NEW m, Sound(m), Rooted(m, {}), NEW path \in Paths,
           NEW type \in {"FILE", "DIR"}, NEW now \in Nat, NEW n, n = Create(m, path, type, now)
    PROVE  \/ n.disk = m.disk
           \/ \E row : /\ NewAt(m.nodes, path, row) /\ row.type = type
                       /\ n.nodes = m.nodes \cup {row}
  <1> DEFINE new == InitNode(m, path, type, now)
             row == new.row
             f == [m EXCEPT !.nodes = InsertOrReplace(@, row), !.next_node_id = @ + 1]
  <1>1. m \in Machine /\ m.next_node_id \in Nat /\ m.nodes \in SUBSET NodeRow
    BY DEF Sound, Good, Machine
  <1>2. CASE new.r # "OK"
    BY <1>1, <1>2 DEF Create, Return, Machine
  <1>3. CASE new.r = "OK"
    <2>0. type \in {"FILE", "DIR", "LINK"}
      OBVIOUS
    <2>1. NewIn(m, row, type) /\ NewAt(m.nodes, path, row)
      BY <1>3, <2>0, NewRow, NewPlace
    <2>2. n = Write(f, "NODE", row.node, 0, 0, row)
      BY <1>3 DEF Create, WriteEntry
    <2> HIDE DEF row
    <2>3. f.nodes = m.nodes \cup {row} /\ f \in Machine
      <3>1. InsertOrReplace(m.nodes, row) \in SUBSET NodeRow /\ m.next_node_id + 1 \in Nat
        BY <1>1, <2>1, InsertType DEF NewIn
      <3> QED
        BY <1>1, <2>1, <3>1 DEF NewIn, Machine
    <2> HIDE DEF f
    <2>4. n.nodes = m.nodes \cup {row}
      BY <2>2, <2>3, WriteNodes
    <2> QED
      BY <2>1, <2>4 DEF NewIn
  <1> QED
    BY <1>2, <1>3

\* The first part of a link is two rows more, of which one is written.
LEMMA SetLinkEffect ==
    ASSUME NInv, NEW path \in Paths, NEW target \in Names, SetLink(path, target),
           fs'.r # "ENOSPC"
    PROVE  \/ fs'.disk = fs.disk /\ job' = NoJob
           \/ \E row, payload :
                /\ NewAt(fs.nodes, path, row) /\ row.type = "LINK"
                /\ payload.node = row.node /\ payload.type = "LINK_PAYLOAD"
                /\ fs'.nodes = fs.nodes \cup {row, payload}
                /\ job' = [kind |-> "link", row |-> payload]
                /\ Carriers(fs', payload) = {}
  <1>1. mode = "mounted" /\ job = NoJob
    BY DEF SetLink, Begin
  <1>2. /\ Sound(fs) /\ fs \in Machine /\ Rooted(fs, {})
        /\ fs.next_node_id \in Nat /\ fs.nodes \in SUBSET NodeRow
    BY <1>1 DEF NInv, IInv, Typed, Pending, NoJob, Machine
  <1>3. PICK now \in Times :
          LET new     == InitNode(fs, path, "LINK", now)
              payload == [node |-> new.row.node, parent |-> new.row.node,
                          type |-> "LINK_PAYLOAD", name |-> target, mtime |-> 0]
          IN  IF new.r # "OK" THEN fs' = Return(fs, new.r) /\ UNCHANGED job
              ELSE /\ fs' = WriteEntry([fs EXCEPT
                              !.nodes = InsertOrReplace(InsertOrReplace(@, new.row), payload),
                              !.next_node_id = @ + 1], "NODE", new.row)
                   /\ job' = IF fs'.r = "OK" THEN [kind |-> "link", row |-> payload]
                             ELSE NoJob
    BY DEF SetLink
  <1> DEFINE new == InitNode(fs, path, "LINK", now)
             row == new.row
             payload == [node |-> row.node, parent |-> row.node,
                         type |-> "LINK_PAYLOAD", name |-> target, mtime |-> 0]
             both == InsertOrReplace(InsertOrReplace(fs.nodes, row), payload)
             f == [fs EXCEPT !.nodes = both, !.next_node_id = @ + 1]
  <1>4. CASE new.r # "OK"
    <2>1. fs' = Return(fs, new.r) /\ job' = NoJob
      BY <1>1, <1>3, <1>4
    <2> QED
      BY <1>2, <2>1 DEF Return, Machine
  <1>5. CASE new.r = "OK"
    <2>1. /\ fs' = WriteEntry(f, "NODE", row)
          /\ job' = IF fs'.r = "OK" THEN [kind |-> "link", row |-> payload] ELSE NoJob
      BY <1>3, <1>5
    <2>2. NewIn(fs, row, "LINK") /\ NewAt(fs.nodes, path, row)
      <3>1. now \in Nat
        BY TimesAssumption
      <3> QED
        BY <1>2, <1>5, <3>1, NewRow, NewPlace
    <2> HIDE DEF row
    <2>3. /\ payload \in NodeRow /\ payload.node = row.node /\ payload.type = "LINK_PAYLOAD"
          /\ row \in NodeRow /\ row.node = fs.next_node_id /\ row.type = "LINK"
          /\ \A x \in fs.nodes : x.node # row.node
      BY <2>2 DEF NodeRow, NodeType, NewIn
    <2> HIDE DEF payload
    <2>4. both = fs.nodes \cup {row, payload}
      BY <2>3 DEF InsertOrReplace
    <2>5. both \in SUBSET NodeRow
      BY <1>2, <2>3, <2>4
    <2> HIDE DEF both
    <2>6. f = [fs EXCEPT !.nodes = both, !.next_node_id = fs.next_node_id + 1]
      BY <1>2 DEF Machine
    <2>7. f.nodes = both /\ f.blocks = fs.blocks /\ f.disk = fs.disk
      BY <1>2 DEF Machine
    <2>8. Fades(fs, f)
      <3>1. fs.next_node_id + 1 \in Nat /\ fs.next_node_id + 1 >= fs.next_node_id
        BY <1>2
      <3> QED
        BY <1>2, <2>5, <2>6, <3>1, NodesFades
    <2> HIDE DEF f
    <2>9. fs' = Write(f, "NODE", row.node, 0, 0, row) /\ f \in Machine
      BY <2>1, <2>8 DEF WriteEntry, Fades
    <2>10. fs'.r = "OK"
      <3>1. Sound(f) /\ "NODE" \in LogOp /\ row.node \in Nat /\ 0 \in Nat /\ row \in NodeRow \cup {NoEntry}
        BY <1>2, <2>3, <2>8, FadesSound DEF LogOp, NodeRow
      <3> QED
        BY <2>9, <3>1, WriteResult
    <2>11. fs'.nodes = fs.nodes \cup {row, payload}
      BY <2>4, <2>7, <2>9, WriteNodes
    <2>12. Carriers(fs', payload) = {}
      <3>1. Carriers(fs, payload) = {}
        <4>1. MirrorsAll(fs) /\ DiskSound(fs.disk)
          BY <1>2 DEF Sound, Good
        <4>2. payload.node \in Nat /\ payload.node >= fs.next_node_id
          BY <1>2, <2>3
        <4> QED
          BY <1>2, <4>1, <4>2, CarrierNodes
      <3>2. \/ fs' = Return(f, "ENOSPC")
            \/ \E b \in Block :
                 /\ fs'.blocks[b].op = "NODE" /\ fs'.disk[b].entry = row
                 /\ \A c \in Block : c # b => /\ fs'.blocks[c] = f.blocks[c]
                                              /\ fs'.disk[c] = f.disk[c]
        <4> DEFINE b == CHOOSE c \in Grants(f, row.node) : TRUE
        <4>1. CASE Grants(f, row.node) = {}
          BY <2>9, <4>1 DEF Write
        <4>2. CASE Grants(f, row.node) # {}
          <5>1. b \in Block
            <6>1. row.node \in Nat
              BY <2>3 DEF NodeRow
            <6>2. Grants(f, row.node) \subseteq Block
              <7>1. Good(f)
                BY <1>2, <2>8, FadesSound DEF Sound
              <7> QED
                BY <6>1, <7>1, GrantsType
            <6> QED
              BY <4>2, <6>2
          <5> HIDE DEF b
          <5>2. /\ fs'.blocks = [f.blocks EXCEPT ![b] =
                      [op |-> "NODE", seq |-> f.next_seq_id, node |-> row.node,
                       fill |-> 0, offset |-> 0]]
                /\ fs'.disk = [f.disk EXCEPT ![b] =
                      [op |-> "NODE", seq |-> f.next_seq_id, node |-> row.node,
                       fill |-> 0, offset |-> 0, entry |-> row]]
            BY <2>9, <4>2 DEF Write, Machine, b
          <5>3. f.blocks \in [Block -> BlockRow] /\ f.disk \in [Block -> DiskRecord]
            BY <2>9 DEF Machine
          <5> QED
            BY <5>1, <5>2, <5>3
        <4> QED
          BY <4>1, <4>2
      <3>3. fs' # Return(f, "ENOSPC")
        BY <2>9 DEF Return, Machine
      <3>4. PICK b \in Block :
                 /\ fs'.blocks[b].op = "NODE" /\ fs'.disk[b].entry = row
                 /\ \A c \in Block : c # b => /\ fs'.blocks[c] = fs.blocks[c]
                                              /\ fs'.disk[c] = fs.disk[c]
        BY <2>7, <3>2, <3>3
      <3> QED
        BY <2>3, <3>1, <3>4 DEF Carriers
    <2>13. job' = [kind |-> "link", row |-> payload]
      BY <2>1, <2>10
    <2> QED
      BY <2>2, <2>3, <2>11, <2>12, <2>13
  <1> QED
    BY <1>4, <1>5

\* The row that `row` replaces moves from a path to a free one, outside of itself.
Moves(nodes, from, to, old, row) ==
    /\ <<from, old>> \in Places(nodes) /\ to \in Below /\ ~ NS!IsPrefix(from, to)
    /\ row.node = old.node /\ row.type = old.type /\ row.name = Basename(to)
    /\ DirAt(Places(nodes), Dirname(to), row.parent)

\* No row has the name that a row is to have: its place is free.
LEMMA FreePlace ==
    ASSUME NEW nodes, Proper(nodes), NEW from, NEW to, NEW old, NEW row,
           Moves(nodes, from, to, old, row), Lookup(nodes, row.parent, row.name) = {}
    PROVE  \A x : <<to, x>> \notin Places(nodes)
  <1> SUFFICES ASSUME NEW x, <<to, x>> \in Places(nodes) PROVE FALSE
    OBVIOUS
  <1>1. Family(nodes) /\ Unique(nodes) /\ Apart(nodes)
    BY DEF Proper
  <1>2. x \in nodes /\ x.name = Basename(to)
    BY <1>1, PlaceRow
  <1>3. DirAt(Places(nodes), Dirname(to), x.parent)
    BY <1>1, <1>2, PlacesSolve DEF Solves, Moves
  <1>4. x.parent = row.parent
    BY <1>1, <1>3, DirNode DEF Moves
  <1> QED
    BY <1>2, <1>4 DEF Lookup, Moves

\* The row at the path can go, and all rows of its node do.
Uproots(nodes, path, at, later) ==
    /\ <<path, at>> \in Places(nodes)
    /\ at.type = "DIR" => \A x \in nodes : x.parent # at.node
    /\ later = {x \in nodes : x.node # at.node}

\* A move remains one when the row at its goal is gone.
LEMMA MovesDropped ==
    ASSUME NEW nodes, Proper(nodes), NEW from, NEW to, NEW old, NEW row,
           Moves(nodes, from, to, old, row), NEW at, NEW later, Uproots(nodes, to, at, later)
    PROVE  Moves(later, from, to, old, row)
  <1>1. Places(later) = Places(nodes) \ {<<to, at>>}
    BY DropPlaces DEF Proper, Uproots
  <1>2. to \in Seq(Names) /\ Len(to) \in Nat /\ to # <<>> /\ from \in Seq(Names)
    BY PlaceType DEF Moves, Below
  <1>3. from # to
    BY <1>2, PrefixPoints DEF Moves
  <1>4. Dirname(to) # to
    <2>1. Len(Dirname(to)) = Len(to) - 1
      BY <1>2, DirnameType
    <2> QED
      BY <1>2, <2>1
  <1>5. <<from, old>> \in Places(later)
    BY <1>1, <1>3 DEF Moves
  <1>6. DirAt(Places(later), Dirname(to), row.parent)
    BY <1>1, <1>4 DEF DirAt, Moves
  <1> QED
    BY <1>5, <1>6 DEF Moves

\* What the first part of a rename finds.
LEMMA MoveNodeFinds ==
    ASSUME NEW nodes, Family(nodes), NEW from \in Paths, NEW to \in Paths,
           ~ \E n \in 1 .. Len(to) : from = SubSeq(to, 1, n),
           Resolve(nodes, from).r = "OK", Resolve(nodes, Dirname(to)).r = "OK",
           Resolve(nodes, Dirname(to)).row.type = "DIR",
           NEW row, row = [Resolve(nodes, from).row EXCEPT
                              !.parent = Resolve(nodes, Dirname(to)).row.node,
                              !.name = Basename(to)]
    PROVE  Moves(nodes, from, to, Resolve(nodes, from).row, row)
  <1> DEFINE old == Resolve(nodes, from).row
             id == Resolve(nodes, Dirname(to)).row.node
  <1>1. /\ from \in Below /\ to \in Below /\ from \in Seq(Names) /\ from # <<>>
        /\ to \in Seq(Names) /\ to # <<>> /\ Dirname(to) \in Seq(Names)
    <2>1. from \in Seq(Names) /\ from # <<>> /\ to \in Seq(Names) /\ to # <<>>
      BY PathsAssumption
    <2> QED
      BY <2>1, DirnameType DEF Below
  <1>2. <<from, old>> \in Places(nodes)
    BY <1>1, FoundPlace
  <1>3. DirAt(Places(nodes), Dirname(to), id)
    BY <1>1, FoundDir
  <1>4. old \in NodeRow
    BY <1>2, PlaceType DEF Family
  <1>5. ~ NS!IsPrefix(from, to)
    <2> SUFFICES ASSUME NS!IsPrefix(from, to) PROVE FALSE
      OBVIOUS
    <2> DEFINE n == Len(from)
    <2>1. n \in Nat /\ n # 0 /\ Len(to) \in Nat
      BY <1>1
    <2>2. n <= Len(to) /\ \A i \in 1 .. n : from[i] = to[i]
      BY <1>1, PrefixPoints
    <2>3. n \in 1 .. Len(to)
      BY <2>1, <2>2
    <2>4. from = [i \in 1 .. n |-> from[i]]
      BY <1>1
    <2>5. SubSeq(to, 1, n) = [i \in 1 .. n |-> to[i]]
      BY <1>1, <2>1, <2>2
    <2> HIDE DEF n
    <2>6. from = SubSeq(to, 1, n)
      BY <2>2, <2>4, <2>5
    <2> QED
      BY <2>3, <2>6
  <1> HIDE DEF old, id
  <1>6. row = [old EXCEPT !.parent = id, !.name = Basename(to)]
    BY DEF old, id
  <1>7. row.node = old.node /\ row.type = old.type /\ row.name = Basename(to) /\ row.parent = id
    BY <1>4, <1>6 DEF NodeRow
  <1>8. Moves(nodes, from, to, old, row)
    BY <1>1, <1>2, <1>3, <1>5, <1>7 DEF Moves
  <1> QED
    BY <1>8 DEF old

\* A deletion takes all rows of a node away, or changes nothing.
LEMMA DeleteEffect ==
    ASSUME NEW m, Sound(m), Rooted(m, {}), NEW path \in Paths, NEW n, n = Delete(m, path)
    PROVE  \/ n.disk = m.disk /\ n.r # "OK"
           \/ \E at : Uproots(m.nodes, path, at, n.nodes)
  <1> DEFINE at == Resolve(m.nodes, path).row
  <1>1. m \in Machine
    BY DEF Sound, Good
  <1>2. Family(m.nodes) /\ Family(m.nodes \cup Entries(m.disk) \cup {} \cup {})
    <2>1. Family(m.nodes \cup Entries(m.disk) \cup {})
      BY DEF Rooted
    <2>2. m.nodes \cup Entries(m.disk) \cup {} \cup {} = m.nodes \cup Entries(m.disk) \cup {}
      OBVIOUS
    <2> QED
      BY <2>1, <2>2, FamilySubset
  <1>3. \/ \E r \in Errno : n = Return(m, r)
        \/ Removable(m, path) /\ n.nodes = Dropped(m, path)
    <2>1. \A x \in {} : x.node < m.next_node_id
      OBVIOUS
    <2> QED
      BY <1>2, <2>1, DeleteGrown
  <1>4. CASE \E r \in Errno : n = Return(m, r)
    BY <1>1, <1>4 DEF Return, Machine, Errno
  <1>5. CASE Removable(m, path) /\ n.nodes = Dropped(m, path)
    <2>1. path \in Below
      BY PathsAssumption DEF Below
    <2>2. <<path, at>> \in Places(m.nodes)
      BY <1>2, <1>5, <2>1, FoundPlace DEF Removable
    <2>3. /\ at.type = "DIR" => \A x \in m.nodes : x.parent # at.node
          /\ n.nodes = {x \in m.nodes : x.node # at.node}
      BY <1>5 DEF Removable, Dropped
    <2> HIDE DEF at
    <2> QED
      BY <2>2, <2>3 DEF Uproots
  <1> QED
    BY <1>3, <1>4, <1>5

\* Moving a row whose name is free is replacing it; otherwise nothing changes.
LEMMA MoveRowEffect ==
    ASSUME NEW m, Sound(m), NEW row \in NodeRow, NEW n,
           n = IF MoveRow(m, row).r = "OK" THEN WriteEntry(MoveRow(m, row), "MOVE", row)
               ELSE MoveRow(m, row)
    PROVE  \/ n.disk = m.disk
           \/ /\ Lookup(m.nodes, row.parent, row.name) = {}
              /\ n.nodes = InsertOrReplace(m.nodes, row)
  <1> DEFINE f == MoveRow(m, row)
  <1>1. m \in Machine
    BY DEF Sound, Good
  <1>2. CASE Lookup(m.nodes, row.parent, row.name) = {}
    <2>1. f = [m EXCEPT !.nodes = InsertOrReplace(m.nodes, row), !.r = "OK"]
      BY <1>1, <1>2 DEF MoveRow, Machine
    <2>2. InsertOrReplace(m.nodes, row) \in SUBSET NodeRow
      BY <1>1, InsertType DEF Machine
    <2>3. f \in Machine /\ f.nodes = InsertOrReplace(m.nodes, row) /\ f.r = "OK"
      BY <1>1, <2>1, <2>2 DEF Machine
    <2>4. n = Write(f, "MOVE", row.node, 0, 0, row)
      BY <2>3 DEF WriteEntry
    <2> HIDE DEF f
    <2>5. n.nodes = f.nodes
      BY <2>3, <2>4, WriteNodes
    <2> QED
      BY <1>2, <2>3, <2>5
  <1>3. CASE Lookup(m.nodes, row.parent, row.name) # {}
    <2>1. PICK e \in {"EEXIST", "EINVAL"} : f = Return(m, e)
      BY <1>3 DEF MoveRow
    <2>2. f.r # "OK" /\ f.disk = m.disk
      BY <1>1, <2>1 DEF Return, Machine
    <2> QED
      BY <2>2
  <1> QED
    BY <1>2, <1>3

\* The first part of a rename moves the row, or clears the way for it.
LEMMA MoveNodeEffect ==
    ASSUME NInv, NEW from \in Paths, NEW to \in Paths, MoveNode(from, to)
    PROVE  \/ fs'.disk = fs.disk /\ job' = NoJob
           \/ /\ job' = NoJob
              /\ \E old, row : /\ Moves(fs.nodes, from, to, old, row) /\ row \in NodeRow
                               /\ Lookup(fs.nodes, row.parent, row.name) = {}
                               /\ fs'.nodes = InsertOrReplace(fs.nodes, row)
           \/ /\ \E at : Uproots(fs.nodes, to, at, fs'.nodes)
              /\ \/ job' = NoJob
                 \/ \E old, row : /\ Moves(fs.nodes, from, to, old, row)
                                  /\ job' = [kind |-> "move", row |-> row]
  <1> DEFINE src == Resolve(fs.nodes, from)
             dir == Resolve(fs.nodes, Dirname(to))
             row == [src.row EXCEPT !.parent = dir.row.node, !.name = Basename(to)]
             moved == MoveRow(fs, row)
  <1>1. mode = "mounted" /\ job = NoJob
    BY DEF MoveNode, Begin
  <1>2. Sound(fs) /\ fs \in Machine /\ Rooted(fs, {}) /\ fs.nodes \in SUBSET NodeRow
    BY <1>1 DEF NInv, IInv, Typed, Pending, NoJob, Machine
  <1>3. Family(fs.nodes)
    <2>1. Family(fs.nodes \cup Entries(fs.disk) \cup {})
      BY <1>2 DEF Rooted
    <2> QED
      BY <2>1, FamilySubset
  <1>4. \/ job' = NoJob /\ \E r : fs' = Return(fs, r)
        \/ /\ src.r = "OK" /\ dir.r = "OK" /\ dir.row.type = "DIR"
           /\ \/ job' = NoJob /\ moved.r = "OK" /\ fs' = WriteEntry(moved, "MOVE", row)
              \/ job' = NoJob /\ moved.r \notin {"OK", "EEXIST"} /\ fs' = moved
              \/ /\ fs' = Delete(fs, to)
                 /\ job' = IF fs'.r = "OK" THEN [kind |-> "move", row |-> row] ELSE NoJob
    BY <1>1 DEF MoveNode
  <1>5. CASE job' = NoJob /\ \E r : fs' = Return(fs, r)
    BY <1>2, <1>5 DEF Return, Machine
  <1>6. ASSUME src.r = "OK", dir.r = "OK", dir.row.type = "DIR"
        PROVE  Moves(fs.nodes, from, to, src.row, row) /\ row \in NodeRow
    <2>1. Moves(fs.nodes, from, to, src.row, row)
      <3>1. ~ \E n \in 1 .. Len(to) : from = SubSeq(to, 1, n)
        BY DEF MoveNode
      <3> QED
        BY <1>3, <1>6, <3>1, MoveNodeFinds
    <2>2. src.row \in NodeRow
      BY <1>2, <2>1, PlaceType DEF Moves
    <2>3. dir.row.node \in Nat
      <3>1. to \in Seq(Names) /\ to # <<>>
        BY PathsAssumption
      <3>2. dir.row = Root \/ dir.row \in fs.nodes
        BY <1>3, <1>6, <3>1, ResolvedRow
      <3> QED
        BY <1>2, <3>2 DEF Root, NodeRow
    <2>4. Basename(to) \in Names
      <3>1. to \in Seq(Names) /\ to # <<>>
        BY PathsAssumption
      <3> QED
        BY <3>1, DirnameType
    <2> QED
      BY <2>1, <2>2, <2>3, <2>4 DEF NodeRow
  <1>7. CASE /\ src.r = "OK" /\ dir.r = "OK" /\ dir.row.type = "DIR" /\ job' = NoJob
             /\ fs' = IF moved.r = "OK" THEN WriteEntry(moved, "MOVE", row) ELSE moved
    <2> DEFINE old == src.row
    <2>1. Moves(fs.nodes, from, to, old, row) /\ row \in NodeRow
      BY <1>6, <1>7
    <2>2. /\ fs' = IF MoveRow(fs, row).r = "OK" THEN WriteEntry(MoveRow(fs, row), "MOVE", row)
                   ELSE MoveRow(fs, row)
          /\ job' = NoJob
      BY <1>7
    <2> HIDE DEF row, old
    <2>3. \/ fs'.disk = fs.disk
          \/ /\ Lookup(fs.nodes, row.parent, row.name) = {}
             /\ fs'.nodes = InsertOrReplace(fs.nodes, row)
      BY <1>2, <2>1, <2>2, MoveRowEffect
    <2> QED
      BY <2>1, <2>2, <2>3
  <1>8. CASE /\ src.r = "OK" /\ dir.r = "OK" /\ dir.row.type = "DIR"
             /\ fs' = Delete(fs, to)
             /\ job' = IF fs'.r = "OK" THEN [kind |-> "move", row |-> row] ELSE NoJob
    <2> DEFINE old == src.row
    <2>1. Moves(fs.nodes, from, to, old, row)
      BY <1>6, <1>8
    <2>2. fs' = Delete(fs, to) /\ job' = IF fs'.r = "OK" THEN [kind |-> "move", row |-> row] ELSE NoJob
      BY <1>8
    <2> HIDE DEF row, old, src, dir, moved
    <2>3. \/ fs'.disk = fs.disk /\ fs'.r # "OK"
          \/ \E at : Uproots(fs.nodes, to, at, fs'.nodes)
      BY <1>2, <2>2, DeleteEffect
    <2>4. job' = NoJob \/ \E o, x : Moves(fs.nodes, from, to, o, x) /\ job' = [kind |-> "move", row |-> x]
      BY <2>1, <2>2
    <2> QED
      BY <2>2, <2>3, <2>4
  <1> QED
    BY <1>4, <1>5, <1>7, <1>8

\* A new time of a row.
Retimed(nodes, path, old, row) ==
    /\ <<path, old>> \in Places(nodes)
    /\ row.node = old.node /\ row.type = old.type
    /\ row.parent = old.parent /\ row.name = old.name

\* oncefs_set_time changes the time of one row in place, or logs nothing.
LEMMA SetTimeEffect ==
    ASSUME NEW m, Sound(m), Rooted(m, {}), NEW path \in Paths, NEW mtime \in Nat,
           NEW n, n = SetTimeOf(m, path, mtime)
    PROVE  \/ n.disk = m.disk
           \/ \E old, row : /\ Retimed(m.nodes, path, old, row)
                            /\ n.nodes = InsertOrReplace(m.nodes, row)
  <1> DEFINE at == Resolve(m.nodes, path)
             row == [at.row EXCEPT !.mtime = mtime]
             f == [m EXCEPT !.nodes = InsertOrReplace(@, row)]
  <1>1. m \in Machine /\ m.nodes \in SUBSET NodeRow
    BY DEF Sound, Good, Machine
  <1>2. CASE \E r : n = Return(m, r)
    BY <1>1, <1>2 DEF Return, Machine
  <1>3. CASE at.r = "OK" /\ n = WriteEntry(f, "NODE", row)
    <2>1. Family(m.nodes)
      <3>1. Family(m.nodes \cup Entries(m.disk) \cup {})
        BY DEF Rooted
      <3> QED
        BY <3>1, FamilySubset
    <2> DEFINE old == at.row
    <2>2. <<path, old>> \in Places(m.nodes)
      <3>1. path \in Below
        BY PathsAssumption DEF Below
      <3> QED
        BY <1>3, <2>1, <3>1, FoundPlace
    <2>3. old \in NodeRow
      BY <1>1, <2>2, PlaceType
    <2>4. Retimed(m.nodes, path, old, row) /\ row \in NodeRow
      <3> HIDE DEF at
      <3> QED
        BY <2>2, <2>3 DEF Retimed, NodeRow
    <2>5. n = Write(f, "NODE", row.node, 0, 0, row)
      BY <1>3 DEF WriteEntry
    <2> HIDE DEF row, old
    <2>6. f \in Machine /\ f.nodes = InsertOrReplace(m.nodes, row)
      <3>1. InsertOrReplace(m.nodes, row) \in SUBSET NodeRow
        BY <1>1, <2>4, InsertType
      <3> QED
        BY <1>1, <3>1 DEF Machine
    <2> HIDE DEF f
    <2>7. n.nodes = InsertOrReplace(m.nodes, row)
      BY <2>5, <2>6, WriteNodes
    <2> QED
      BY <2>4, <2>7
  <1>4. (\E r : n = Return(m, r)) \/ (at.r = "OK" /\ n = WriteEntry(f, "NODE", row))
    BY DEF SetTimeOf
  <1> QED
    BY <1>2, <1>3, <1>4

-----------------------------------------------------------------------------
(* What a call that has begun waits for. *)

\* All rows but the one that a link has yet to write are in the log; that one is not,
\* and its link has a place; a rename that made room still leads to a free place.
Waits ==
    /\ mode = "mounted" => Written(fs, Unwritten)
    /\ job.kind = "link" =>
         /\ Carriers(fs, job.row) = {}
         /\ \E path, at : <<path, at>> \in Places(fs.nodes) /\ at.type = "LINK"
                          /\ at.node = job.row.node
    /\ job.kind = "move" => \E from, to, old : Moves(fs.nodes, from, to, old, job.row)

\* The rows of a mounted process, as the namespace sees them.
Seen == mode = "mounted" => Sound(fs) /\ Proper(fs.nodes) /\ Tree(fs.nodes)

\* Where nothing was overwritten or refused, the rows of a process form a proper tree.
LEMMA SeenAlways == RInv /\ NInv /\ HInv /\ PInv /\ NeverFull => Seen
  <1> SUFFICES ASSUME RInv, NInv, HInv, PInv, NeverFull, mode = "mounted"
               PROVE  Sound(fs) /\ Proper(fs.nodes) /\ Tree(fs.nodes)
    BY DEF Seen
  <1>1. Sound(fs) /\ fs \in Machine /\ Rooted(fs, Pending) /\ Pending \subseteq NodeRow
    BY JobType DEF NInv, IInv, Typed, Pending
  <1>2. Tree(fs.nodes) /\ Ranked(fs)
    BY DEF HInv, PInv, NeverFull
  <1> QED
    BY <1>1, <1>2, ProperTable

\* A new link has its place, with its payload in the table.
LEMMA LinkPlaced ==
    ASSUME NEW nodes, Tree(nodes), Proper(nodes), NEW path \in Below, NEW row, NEW payload,
           NewAt(nodes, path, row), row.type = "LINK", payload.type = "LINK_PAYLOAD",
           Proper(nodes \cup {row, payload})
    PROVE  <<path, row>> \in Places(nodes \cup {row, payload})
  <1> DEFINE more == nodes \cup {row}
             both == nodes \cup {row, payload}
  <1>1. Proper(more)
    BY ProperSubset
  <1>2. row.node # 0 /\ \A x \in nodes : x.parent # row.node
    <2>1. row.node # 0
      BY <1>1 DEF Proper, Family
    <2> QED
      BY <2>1, ParentKnown DEF NewAt
  <1>3. Places(more) = Places(nodes) \cup {<<path, row>>}
    <2>1. Family(nodes) /\ Unique(nodes) /\ Apart(nodes) /\ Family(more) /\ Apart(more)
      BY <1>1 DEF Proper
    <2> QED
      BY <1>2, <2>1, PlantPlaces DEF NewAt
  <1>4. Places(more) = Places(both)
    <2>1. more \subseteq both /\ \A x \in both \ more : x.type = "LINK_PAYLOAD"
      OBVIOUS
    <2>2. Family(both) /\ Apart(both)
      BY DEF Proper
    <2> HIDE DEF more, both
    <2> QED
      BY <2>1, <2>2, PayloadPlaces
  <1> QED
    BY <1>3, <1>4

\* A step of a process that serves the container keeps what is waited for.
LEMMA ServeWaits ==
    ASSUME RInv, NInv, HInv, NeverFull, NeverFull', Seen, Seen', Waits, Call \/ Finish
    PROVE  Waits'
  <1>1. mode = "mounted" /\ mode' = "mounted"
    BY DEF Call, Finish, SetFile, SetDir, SetTime, DelNode, SetLink, MoveNode, DelData, SetData,
           FinishLink, FinishMove, WriteChunk, Begin
  <1>2. Sound(fs) /\ Proper(fs.nodes) /\ Tree(fs.nodes) /\ Proper(fs'.nodes)
    BY <1>1 DEF Seen
  <1>3. Written(fs', Unwritten')
    <2>1. Settled(fs) /\ Intact(fs.disk) /\ Known
      BY DEF RInv, SInv, HInv
    <2>2. Appended(fs'.disk) /\ fs'.r # "ENOSPC"
      BY DEF NeverFull
    <2>3. Traces(fs, Unwritten, fs', Unwritten')
      <3>1. Traced
        BY <2>1, CallTraced
      <3> QED
        BY <2>2, <3>1 DEF Traced
    <2> QED
      BY <1>1, <1>2, <2>1, <2>2, <2>3, TraceWritten DEF Waits
  <1>4. CASE job'.kind \notin {"link", "move"}
    BY <1>3, <1>4 DEF Waits
  <1>5. ASSUME NEW path \in Paths, NEW target \in Names, SetLink(path, target)
        PROVE  Waits'
    <2>1. CASE job' = NoJob
      BY <1>4, <2>1 DEF NoJob
    <2>2. CASE job' # NoJob
      <3>1. PICK row, payload :
                /\ NewAt(fs.nodes, path, row) /\ row.type = "LINK"
                /\ payload.node = row.node /\ payload.type = "LINK_PAYLOAD"
                /\ fs'.nodes = fs.nodes \cup {row, payload}
                /\ job' = [kind |-> "link", row |-> payload]
                /\ Carriers(fs', payload) = {}
        <4>1. fs'.r # "ENOSPC"
          BY DEF NeverFull
        <4> QED
          BY <1>5, <2>2, <4>1, SetLinkEffect
      <3>2. path \in Below
        BY PathsAssumption DEF Below
      <3>3. <<path, row>> \in Places(fs'.nodes)
        BY <1>2, <3>1, <3>2, LinkPlaced
      <3>4. job'.kind = "link" /\ job'.row = payload
        BY <3>1
      <3> QED
        BY <1>3, <3>1, <3>3, <3>4 DEF Waits
    <2> QED
      BY <2>1, <2>2
  <1>6. ASSUME NEW from \in Paths, NEW to \in Paths, MoveNode(from, to)
        PROVE  Waits'
    <2>1. CASE job' = NoJob
      BY <1>4, <2>1 DEF NoJob
    <2>2. CASE job' # NoJob
      <3>1. /\ \E at : Uproots(fs.nodes, to, at, fs'.nodes)
            /\ \E old, row : /\ Moves(fs.nodes, from, to, old, row)
                             /\ job' = [kind |-> "move", row |-> row]
        BY <1>6, <2>2, MoveNodeEffect
      <3>2. PICK at : Uproots(fs.nodes, to, at, fs'.nodes)
        BY <3>1
      <3>3. PICK old, row : /\ Moves(fs.nodes, from, to, old, row)
                            /\ job' = [kind |-> "move", row |-> row]
        BY <3>1
      <3>4. Moves(fs'.nodes, from, to, old, row)
        BY <1>2, <3>2, <3>3, MovesDropped
      <3>5. job'.kind = "move" /\ job'.row = row
        BY <3>3
      <3> QED
        BY <1>3, <3>4, <3>5 DEF Waits
    <2> QED
      BY <2>1, <2>2
  <1>7. CASE \/ \E path \in Paths : \/ SetFile(path) \/ SetDir(path)
                                    \/ SetTime(path) \/ DelNode(path)
             \/ \E node \in FileIds, size \in Sizes : DelData(node, size)
             \/ \E node \in FileIds, x \in Extents : SetData(node, x[1], x[2])
             \/ Finish
    <2>1. job' = NoJob \/ job'.kind = "data"
      <3>1. CASE \E path \in Paths : SetFile(path) \/ SetDir(path) \/ SetTime(path) \/ DelNode(path)
        BY <3>1 DEF SetFile, SetDir, SetTime, DelNode, Begin
      <3>2. CASE \E node \in FileIds, size \in Sizes : DelData(node, size)
        BY <3>2 DEF DelData, Begin
      <3>3. CASE \E node \in FileIds, x \in Extents : SetData(node, x[1], x[2])
        BY <3>3 DEF SetData
      <3>4. CASE FinishLink \/ FinishMove
        BY <3>4 DEF FinishLink, FinishMove
      <3>5. CASE WriteChunk
        <4>1. job.kind = "data" /\ job \in Job
          BY <3>5 DEF WriteChunk, NInv, IInv, Typed
        <4>2. job = [kind |-> "data", node |-> job.node, offset |-> job.offset, size |-> job.size]
          BY <4>1, JobType
        <4>3. \/ job' = NoJob
              \/ \E amount : job' = [job EXCEPT !.offset = @ + amount, !.size = @ - amount]
          BY <3>5 DEF WriteChunk
        <4>4. CASE \E amount : job' = [job EXCEPT !.offset = @ + amount, !.size = @ - amount]
          <5>1. PICK amount : job' = [job EXCEPT !.offset = @ + amount, !.size = @ - amount]
            BY <4>4
          <5>2. job' = [[kind |-> "data", node |-> job.node, offset |-> job.offset, size |-> job.size]
                           EXCEPT !.offset = @ + amount, !.size = @ - amount]
            BY <4>2, <5>1
          <5> QED
            BY <5>2
        <4> QED
          BY <4>3, <4>4
      <3> QED
        BY <1>7, <3>1, <3>2, <3>3, <3>4, <3>5 DEF Finish
    <2> QED
      BY <1>4, <2>1 DEF NoJob
  <1> QED
    BY <1>5, <1>6, <1>7 DEF Call

\* So does every step of a process.
LEMMA StepWaits ==
    ASSUME RInv, NInv, HInv, NeverFull, NeverFull', Seen, Seen', Waits, [Next]_vars
    PROVE  Waits'
  <1>1. CASE Call \/ Finish
    BY <1>1, ServeWaits
  <1>2. CASE Stop
    BY <1>2 DEF Stop, Waits, NoJob
  <1>3. CASE Mount \/ \E b \in Block : LoadRecord(b)
    <2>1. mode # "mounted" /\ mode' # "mounted" /\ job' = job
      BY <1>3 DEF Mount, LoadRecord
    <2>2. job = NoJob
      BY <2>1 DEF NInv, IInv, Typed
    <2> QED
      BY <2>1, <2>2 DEF Waits, NoJob
  <1>4. CASE Mounted
    <2>1. mode = "loading" /\ fs' = fs /\ job' = job
      BY <1>4 DEF Mounted
    <2>2. job = NoJob
      BY <2>1 DEF NInv, IInv, Typed
    <2>3. Written(fs, {})
      BY <2>1 DEF RInv, Youngest, Written
    <2>4. job'.kind = "none" /\ Unwritten' = {}
      BY <2>1, <2>2 DEF NoJob, Unwritten
    <2>5. Written(fs', Unwritten')
      BY <2>1, <2>3, <2>4
    <2> QED
      BY <2>4, <2>5 DEF Waits
  <1>5. CASE UNCHANGED vars
    <2>1. fs' = fs /\ mode' = mode /\ job' = job
      BY <1>5 DEF vars
    <2>2. Unwritten' = Unwritten
      BY <2>1 DEF Unwritten
    <2> QED
      BY <2>1, <2>2 DEF Waits
  <1> QED
    BY <1>1, <1>2, <1>3, <1>4, <1>5 DEF Next, Load

\* A process that just formatted has no call half way.
LEMMA InitWaits == RecInit => Waits
  <1> SUFFICES ASSUME RecInit PROVE Waits
    OBVIOUS
  <1>1. mode = "mounted" /\ fs = Fresh([b \in Block |-> NoRecord]) /\ job = NoJob
    BY DEF RecInit, Init
  <1>2. fs.nodes = {} /\ job.kind = "none"
    BY <1>1 DEF Fresh, NoJob
  <1> QED
    BY <1>2 DEF Waits, Written

-----------------------------------------------------------------------------
(* The tree can be read off the log, also while a process serves the container. *)

\* The tree is the one a mount of the records would make.
OnDisk == tree = TreeOf(Rebuilt(fs.disk).nodes)

\* A mount now would read the tree of this moment, also with a call half way.
LEMMA TreeOnDisk ==
    ASSUME RInv, NInv, HInv, PInv, Mirrored, NeverFull, Waits
    PROVE  OnDisk
  <1>1. CASE mode # "mounted"
    BY <1>1 DEF Mirrored, Committed, OnDisk
  <1>2. CASE mode = "mounted"
    <2>1. /\ Sound(fs) /\ Settled(fs) /\ Carried(fs) /\ Appended(fs.disk) /\ Faithful(fs)
          /\ Unique(fs.nodes) /\ fs.next_node_id >= 1
      <3>1. Sound(fs) /\ Settled(fs) /\ Carried(fs) /\ Appended(fs.disk) /\ Faithful(fs)
            /\ Unique(fs.nodes)
        BY <1>2 DEF RInv, SInv, Recoverable, HInv, NeverFull, NInv, IInv, Rooted
      <3>2. 0 < fs.next_node_id /\ fs.next_node_id \in Nat
        <4>1. fs.next_node_id \in Nat
          BY <3>1 DEF Sound, Good, Machine
        <4>2. Root.node < fs.next_node_id
          BY DEF NInv, Rooted
        <4>3. Root.node = 0
          BY DEF Root
        <4> QED
          BY <4>1, <4>2, <4>3
      <3> QED
        BY <3>1, <3>2
    <2>2. Rebuilt(fs.disk).nodes = Sure(fs)
      BY <2>1, RebuiltSure
    <2>3. Sure(fs) = fs.nodes \ Unwritten
      BY <1>2 DEF Sure, Waits, Written, Unwritten
    <2>4. Committed(fs, mode, job) = fs.nodes \ Unwritten
      BY <1>2 DEF Committed, Unwritten
    <2> QED
      BY <2>2, <2>3, <2>4 DEF Mirrored, OnDisk
  <1> QED
    BY <1>1, <1>2

-----------------------------------------------------------------------------
(* Every step is an operation of the namespace, or none of its business. *)

\* What a step shows.
Shows == NS!Next \/ tree' = tree

\* A create, a directory, a time or a deletion is one operation of the namespace, or
\* invisible.
LEMMA NameCallShows ==
    ASSUME NInv, Seen, Seen', Mirrored, Mirrored', OnDisk, OnDisk', NEW path \in Paths,
           SetFile(path) \/ SetDir(path) \/ SetTime(path) \/ DelNode(path)
    PROVE  Shows
  <1>1. mode = "mounted" /\ job = NoJob /\ mode' = "mounted" /\ job' = NoJob
    BY DEF SetFile, SetDir, SetTime, DelNode, Begin
  <1>2. /\ Sound(fs) /\ Rooted(fs, {}) /\ Proper(fs.nodes) /\ Tree(fs.nodes) /\ Proper(fs'.nodes)
        /\ tree = TreeOf(fs.nodes) /\ tree' = TreeOf(fs'.nodes)
    <2>1. job.kind = "none" /\ job'.kind = "none"
      BY <1>1 DEF NoJob
    <2> QED
      BY <1>1, <2>1 DEF Seen, NInv, Pending, Mirrored, Committed
  <1>3. path \in Below
    BY PathsAssumption DEF Below
  <1>4. fs'.disk = fs.disk => Shows
    BY DEF OnDisk, Shows
  <1>5. ASSUME NEW type \in {"FILE", "DIR"}, NEW now \in Times, fs' = Create(fs, path, type, now)
        PROVE  Shows
    <2>1. \/ fs'.disk = fs.disk
          \/ \E row : /\ NewAt(fs.nodes, path, row) /\ row.type = type
                      /\ fs'.nodes = fs.nodes \cup {row}
      <3>1. now \in Nat
        BY TimesAssumption
      <3> QED
        BY <1>2, <1>5, <3>1, CreateEffect
    <2>2. ASSUME NEW row, NewAt(fs.nodes, path, row), row.type = type,
                 fs'.nodes = fs.nodes \cup {row}
          PROVE  NS!Next
      <3>1. row.type \in {"DIR", "FILE", "LINK"}
        BY <2>2
      <3> QED
        BY <1>2, <1>3, <2>2, <3>1, CreateStep DEF NewAt
    <2> QED
      BY <1>4, <2>1, <2>2 DEF Shows
  <1>6. ASSUME NEW mtime \in Times, fs' = SetTimeOf(fs, path, mtime)
        PROVE  Shows
    <2>1. \/ fs'.disk = fs.disk
          \/ \E old, row : /\ Retimed(fs.nodes, path, old, row)
                           /\ fs'.nodes = InsertOrReplace(fs.nodes, row)
      <3>1. mtime \in Nat
        BY TimesAssumption
      <3> QED
        BY <1>2, <1>6, <3>1, SetTimeEffect
    <2>2. ASSUME NEW old, NEW row, Retimed(fs.nodes, path, old, row),
                 fs'.nodes = InsertOrReplace(fs.nodes, row)
          PROVE  TreeOf(fs'.nodes) = TreeOf(fs.nodes)
      BY <1>2, <1>3, <2>2, TimeStep DEF Retimed
    <2> QED
      BY <1>2, <1>4, <2>1, <2>2 DEF Shows
  <1>7. ASSUME fs' = Delete(fs, path)
        PROVE  Shows
    <2>1. fs'.disk = fs.disk \/ \E at : Uproots(fs.nodes, path, at, fs'.nodes)
      BY <1>2, <1>7, DeleteEffect
    <2>2. ASSUME NEW at, Uproots(fs.nodes, path, at, fs'.nodes)
          PROVE  NS!Next
      BY <1>2, <1>3, <2>2, UnlinkStep DEF Uproots
    <2> QED
      BY <1>4, <2>1, <2>2 DEF Shows
  <1>8. CASE SetFile(path)
    BY <1>5, <1>8 DEF SetFile
  <1>9. CASE SetDir(path)
    BY <1>5, <1>9 DEF SetDir
  <1>10. CASE SetTime(path)
    BY <1>6, <1>10 DEF SetTime
  <1>11. CASE DelNode(path)
    BY <1>7, <1>11 DEF DelNode
  <1> QED
    BY <1>8, <1>9, <1>10, <1>11

\* The first record of a symbolic link is its creation, with the empty target.
LEMMA SetLinkShows ==
    ASSUME NInv, NeverFull', Seen, Seen', Mirrored, Mirrored', OnDisk, OnDisk',
           NEW path \in Paths, NEW target \in Names, SetLink(path, target)
    PROVE  Shows
  <1>1. mode = "mounted" /\ job = NoJob /\ mode' = "mounted"
    BY DEF SetLink, Begin
  <1>2. /\ Proper(fs.nodes) /\ Tree(fs.nodes) /\ Proper(fs'.nodes) /\ tree = TreeOf(fs.nodes)
    <2>1. job.kind = "none"
      BY <1>1 DEF NoJob
    <2> QED
      BY <1>1, <2>1 DEF Seen, Mirrored, Committed
  <1>3. path \in Below /\ fs'.r # "ENOSPC"
    BY PathsAssumption DEF Below, NeverFull
  <1>4. CASE fs'.disk = fs.disk
    BY <1>4 DEF OnDisk, Shows
  <1>5. ASSUME NEW row, NEW payload, NewAt(fs.nodes, path, row), row.type = "LINK",
               payload.node = row.node, payload.type = "LINK_PAYLOAD",
               fs'.nodes = fs.nodes \cup {row, payload},
               job' = [kind |-> "link", row |-> payload]
        PROVE  NS!Next
    <2>1. Proper(fs.nodes \cup {row})
      BY <1>2, <1>5, ProperSubset
    <2>2. fs'.nodes \ {payload} = fs.nodes \cup {row}
      <3>1. payload \notin fs.nodes /\ payload # row
        BY <1>5 DEF NewAt
      <3> QED
        BY <1>5, <3>1
    <2>3. tree' = TreeOf(fs.nodes \cup {row})
      <3>1. job'.kind = "link" /\ job'.row = payload
        BY <1>5
      <3> QED
        BY <1>1, <2>2, <3>1 DEF Mirrored, Committed
    <2>4. row.type \in {"DIR", "FILE", "LINK"}
      BY <1>5
    <2> QED
      BY <1>2, <1>3, <1>5, <2>1, <2>3, <2>4, CreateStep DEF NewAt
  <1> QED
    BY <1>3, <1>4, <1>5, SetLinkEffect DEF Shows

\* The second record of a symbolic link gives it its target.
LEMMA FinishLinkShows ==
    ASSUME NInv, Known, PInv, Seen, Seen', Mirrored, Mirrored', Waits, FinishLink
    PROVE  Shows
  <1>1. mode = "mounted" /\ job.kind = "link" /\ mode' = "mounted" /\ job' = NoJob
        /\ fs' = WriteEntry(fs, "NODE", job.row)
    BY DEF FinishLink
  <1>2. fs'.nodes = fs.nodes
    BY <1>1, WriteNodes DEF NInv, IInv, Typed, WriteEntry
  <1>3. Proper(fs.nodes) /\ job.row \in fs.nodes /\ job.row.type = "LINK_PAYLOAD"
    BY <1>1 DEF Seen, Known, PInv
  <1>4. PICK path, at : <<path, at>> \in Places(fs.nodes) /\ at.type = "LINK"
                        /\ at.node = job.row.node
    BY <1>1 DEF Waits
  <1>5. tree = TreeOf(fs.nodes \ {job.row}) /\ tree' = TreeOf(fs.nodes)
    BY <1>1, <1>2 DEF Mirrored, Committed, NoJob
  <1>6. NS!Next
    BY <1>3, <1>4, <1>5, TargetStep
  <1> QED
    BY <1>6 DEF Shows

\* A rename, at once or when its goal is free.
LEMMA MoveShows ==
    ASSUME Proper(fs.nodes), Proper(fs'.nodes), tree = TreeOf(fs.nodes), tree' = TreeOf(fs'.nodes),
           NEW from, NEW to, NEW old, NEW row, Moves(fs.nodes, from, to, old, row),
           Lookup(fs.nodes, row.parent, row.name) = {},
           fs'.nodes = InsertOrReplace(fs.nodes, row)
    PROVE  NS!Next
  <1>1. \A x : <<to, x>> \notin Places(fs.nodes)
    BY FreePlace
  <1> QED
    BY <1>1, RenameStep DEF Moves

\* A rename: what it replaces goes first, in a step of its own.
LEMMA MoveNodeShows ==
    ASSUME NInv, Seen, Seen', Mirrored, Mirrored', OnDisk, OnDisk',
           NEW from \in Paths, NEW to \in Paths, MoveNode(from, to)
    PROVE  Shows
  <1>1. mode = "mounted" /\ job = NoJob /\ mode' = "mounted"
    BY DEF MoveNode, Begin
  <1>2. /\ Proper(fs.nodes) /\ Proper(fs'.nodes) /\ tree = TreeOf(fs.nodes)
    <2>1. job.kind = "none"
      BY <1>1 DEF NoJob
    <2> QED
      BY <1>1, <2>1 DEF Seen, Mirrored, Committed
  <1>3. CASE fs'.disk = fs.disk
    BY <1>3 DEF OnDisk, Shows
  <1>4. ASSUME job' = NoJob \/ job'.kind = "move"
        PROVE  tree' = TreeOf(fs'.nodes)
    <2>1. job'.kind # "link"
      BY <1>4 DEF NoJob
    <2> QED
      BY <1>1, <2>1 DEF Mirrored, Committed
  <1>5. CASE /\ job' = NoJob
             /\ \E old, row : /\ Moves(fs.nodes, from, to, old, row) /\ row \in NodeRow
                              /\ Lookup(fs.nodes, row.parent, row.name) = {}
                              /\ fs'.nodes = InsertOrReplace(fs.nodes, row)
    <2>1. PICK old, row : /\ Moves(fs.nodes, from, to, old, row)
                          /\ Lookup(fs.nodes, row.parent, row.name) = {}
                          /\ fs'.nodes = InsertOrReplace(fs.nodes, row)
      BY <1>5
    <2>2. NS!Next
      BY <1>2, <1>4, <1>5, <2>1, MoveShows
    <2> QED
      BY <2>2 DEF Shows
  <1>6. CASE /\ \E at : Uproots(fs.nodes, to, at, fs'.nodes)
             /\ \/ job' = NoJob
                \/ \E old, row : /\ Moves(fs.nodes, from, to, old, row)
                                 /\ job' = [kind |-> "move", row |-> row]
    <2>1. PICK at : Uproots(fs.nodes, to, at, fs'.nodes)
      BY <1>6
    <2>2. job' = NoJob \/ job'.kind = "move"
      BY <1>6
    <2>3. to \in Below
      BY PathsAssumption DEF Below
    <2>4. NS!Next
      BY <1>2, <1>4, <2>1, <2>2, <2>3, UnlinkStep DEF Uproots
    <2> QED
      BY <2>4 DEF Shows
  <1> QED
    BY <1>3, <1>5, <1>6, MoveNodeEffect

\* The second record of a rename moves the row and all below it.
LEMMA FinishMoveShows ==
    ASSUME NInv, Seen, Seen', Mirrored, Mirrored', OnDisk, OnDisk', Waits, FinishMove
    PROVE  Shows
  <1>1. /\ mode = "mounted" /\ job.kind = "move" /\ mode' = "mounted" /\ job' = NoJob
        /\ fs' = IF MoveRow(fs, job.row).r = "OK"
                 THEN WriteEntry(MoveRow(fs, job.row), "MOVE", job.row) ELSE MoveRow(fs, job.row)
    BY DEF FinishMove
  <1>2. Sound(fs) /\ Proper(fs.nodes) /\ Proper(fs'.nodes) /\ job.row \in NodeRow
    BY <1>1, JobType DEF Seen, NInv, IInv, Typed
  <1>3. tree = TreeOf(fs.nodes) /\ tree' = TreeOf(fs'.nodes)
    BY <1>1 DEF Mirrored, Committed, NoJob
  <1>4. CASE fs'.disk = fs.disk
    BY <1>4 DEF OnDisk, Shows
  <1>5. CASE /\ Lookup(fs.nodes, job.row.parent, job.row.name) = {}
             /\ fs'.nodes = InsertOrReplace(fs.nodes, job.row)
    <2>1. PICK from, to, old : Moves(fs.nodes, from, to, old, job.row)
      BY <1>1 DEF Waits
    <2>2. NS!Next
      BY <1>2, <1>3, <1>5, <2>1, MoveShows
    <2> QED
      BY <2>2 DEF Shows
  <1> QED
    BY <1>1, <1>2, <1>4, <1>5, MoveRowEffect

\* File data is none of the namespace's business.
LEMMA DataShows ==
    ASSUME NInv, Mirrored, Mirrored', OnDisk, OnDisk',
           \/ \E node \in FileIds, size \in Sizes : DelData(node, size)
           \/ \E node \in FileIds, x \in Extents : SetData(node, x[1], x[2])
           \/ WriteChunk
    PROVE  tree' = tree
  <1>1. CASE \E node \in FileIds, x \in Extents : SetData(node, x[1], x[2])
    BY <1>1 DEF SetData, OnDisk
  <1>2. CASE \E node \in FileIds, size \in Sizes : DelData(node, size)
    <2>1. PICK node \in FileIds, size \in Sizes : DelData(node, size)
      BY <1>2
    <2>2. /\ mode = "mounted" /\ mode' = "mounted" /\ job = NoJob /\ job' = NoJob
          /\ fs' = Truncate(fs, node, size) /\ fs \in Machine
      BY <2>1 DEF DelData, Begin, NInv, IInv, Typed
    <2>3. fs'.nodes = fs.nodes
      <3>1. CASE fs' = Return(fs, "ENOENT")
        BY <2>2, <3>1 DEF Return, Machine
      <3>2. CASE fs' = Write(DropData(fs, node, size), "TRUNCATE", node, 0, size, NoEntry)
        <4>1. DropData(fs, node, size).nodes = fs.nodes
          BY <2>2 DEF DropData, Machine
        <4> DEFINE f == DropData(fs, node, size)
        <4>2. Write(f, "TRUNCATE", node, 0, size, NoEntry).nodes = f.nodes
          BY <2>2 DEF Write, Return, DropData, Machine
        <4> QED
          BY <3>2, <4>1, <4>2
      <3> QED
        BY <2>2, <3>1, <3>2 DEF Truncate
    <2> QED
      BY <2>2, <2>3 DEF Mirrored, Committed, NoJob
  <1>3. CASE WriteChunk
    <2>1. /\ mode = "mounted" /\ mode' = "mounted" /\ job.kind = "data" /\ fs \in Machine
          /\ \E amount : fs' = Write(fs, "DATA", job.node, amount, job.offset, NoEntry)
      BY <1>3 DEF WriteChunk, NInv, IInv, Typed
    <2>2. fs'.nodes = fs.nodes
      BY <2>1, WriteNodes
    <2>3. job'.kind # "link"
      <3>1. job = [kind |-> "data", node |-> job.node, offset |-> job.offset, size |-> job.size]
        BY <2>1, JobType DEF NInv, IInv, Typed
      <3>2. \/ job' = NoJob
            \/ \E amount : job' = [job EXCEPT !.offset = @ + amount, !.size = @ - amount]
        BY <1>3 DEF WriteChunk
      <3>3. CASE job' = NoJob
        BY <3>3 DEF NoJob
      <3>4. CASE \E amount : job' = [job EXCEPT !.offset = @ + amount, !.size = @ - amount]
        <4>1. PICK amount : job' = [job EXCEPT !.offset = @ + amount, !.size = @ - amount]
          BY <3>4
        <4>2. job' = [[kind |-> "data", node |-> job.node, offset |-> job.offset, size |-> job.size]
                         EXCEPT !.offset = @ + amount, !.size = @ - amount]
          BY <3>1, <4>1
        <4> QED
          BY <4>2
      <3> QED
        BY <3>2, <3>3, <3>4
    <2> QED
      BY <2>1, <2>2, <2>3 DEF Mirrored, Committed
  <1> QED
    BY <1>1, <1>2, <1>3

\* The end of a process, and every step of a mount, leave the container alone.
LEMMA ProcessShows ==
    ASSUME NInv, OnDisk, OnDisk', Stop \/ Mount \/ Load
    PROVE  tree' = tree
  <1>1. fs'.disk = fs.disk
    <2>1. CASE Stop
      BY <2>1 DEF Stop, Fresh
    <2>2. CASE Mount \/ Mounted
      BY <2>2 DEF Mount, Mounted
    <2>3. ASSUME NEW b \in Block, LoadRecord(b)
          PROVE  fs'.disk = fs.disk
      <3>1. /\ fs' = Replay(fs, b) /\ mode = "loading" /\ b \in todo
            /\ \A c \in todo : fs.disk[b].seq <= fs.disk[c].seq
        BY <2>3 DEF LoadRecord
      <3> QED
        BY <3>1, ReplaySound DEF NInv, IInv
    <2> QED
      BY <2>1, <2>2, <2>3 DEF Load
  <1> QED
    BY <1>1 DEF OnDisk

\* What is true of every state of a container that is never full.
VInv == RInv /\ NInv /\ HInv /\ PInv /\ Mirrored /\ NeverFull /\ Seen /\ Waits /\ OnDisk

\* Every step of such a container, the end of the process and the mount included.
LEMMA StepShows ==
    ASSUME VInv, VInv', [NNext]_nvars
    PROVE  Shows
  <1>1. /\ NInv /\ NeverFull' /\ Seen /\ Seen' /\ Mirrored /\ Mirrored' /\ OnDisk /\ OnDisk'
        /\ Known /\ PInv /\ Waits
    BY DEF VInv, HInv
  <1>2. CASE UNCHANGED nvars
    BY <1>2 DEF nvars, Shows
  <1>3. ASSUME NEW path \in Paths, SetFile(path) \/ SetDir(path) \/ SetTime(path) \/ DelNode(path)
        PROVE  Shows
    BY <1>1, <1>3, NameCallShows
  <1>4. ASSUME NEW path \in Paths, NEW target \in Names, SetLink(path, target)
        PROVE  Shows
    BY <1>1, <1>4, SetLinkShows
  <1>5. ASSUME NEW from \in Paths, NEW to \in Paths, MoveNode(from, to)
        PROVE  Shows
    BY <1>1, <1>5, MoveNodeShows
  <1>6. CASE FinishLink
    BY <1>1, <1>6, FinishLinkShows
  <1>7. CASE FinishMove
    BY <1>1, <1>7, FinishMoveShows
  <1>8. CASE \/ \E node \in FileIds, size \in Sizes : DelData(node, size)
             \/ \E node \in FileIds, x \in Extents : SetData(node, x[1], x[2])
             \/ WriteChunk
    BY <1>1, <1>8, DataShows DEF Shows
  <1>9. CASE Stop \/ Mount \/ Load
    BY <1>1, <1>9, ProcessShows DEF Shows
  <1> QED
    BY <1>2, <1>3, <1>4, <1>5, <1>6, <1>7, <1>8, <1>9 DEF NNext, RecNext, Next, Call, Finish

\* The namespace starts empty.
LEMMA InitShows == NInit => NS!Init
  <1> SUFFICES ASSUME NInit PROVE NS!Init
    OBVIOUS
  <1>1. mode = "mounted" /\ fs = Fresh([b \in Block |-> NoRecord]) /\ job = NoJob
    BY DEF NInit, RecInit, Init
  <1>2. tree = TreeOf({})
    BY <1>1 DEF NInit, Committed, Fresh, NoJob
  <1>3. Proper({})
    BY DEF Proper, Family, Unique, Apart, Bounded
  <1> DEFINE t == tree
             no == {}
  <1>4. /\ \A p : p \in DOMAIN t <=> \E x : <<p, x>> \in Places(no)
        /\ t = [p \in DOMAIN t |-> t[p]]
    <2>1. Trees(t, Places(no), no)
      BY <1>2, <1>3, ProperTree
    <2> QED
      BY <2>1 DEF Trees
  <1>5. \A p, x : <<p, x>> \notin Places(no)
    BY DEF Places
  <1>6. DOMAIN t = {}
    BY <1>4, <1>5
  <1>7. t = [p \in {} |-> {}]
    BY <1>4, <1>6
  <1> QED
    BY <1>7 DEF NS!Init

\* On a container that is never full, OnceFS implements the namespace: every step of
\* every process, its end at any point and the next mount included, is one operation of
\* the namespace or invisible.
THEOREM NamespaceImplemented == NSpec /\ []NeverFull => ImplementsNamespace
  <1>1. NInit => Waits
    BY InitWaits DEF NInit
  <1>2. RInv /\ NInv /\ HInv /\ PInv /\ NeverFull => Seen
    BY SeenAlways
  <1>3. /\ RInv /\ NInv /\ HInv /\ NeverFull /\ NeverFull' /\ Seen /\ Seen' /\ Waits
        /\ [NNext]_nvars
        => Waits'
    <2>1. [NNext]_nvars => [Next]_vars
      BY DEF NNext, RecNext, nvars, vars
    <2> QED
      BY <2>1, StepWaits
  <1>4. NSpec /\ []NeverFull => []Seen
    BY <1>2, NamespaceInvariant, PTL
  <1>5. NSpec /\ []NeverFull => []Waits
    BY <1>1, <1>3, <1>4, NamespaceInvariant, PTL DEF NSpec
  <1>6. RInv /\ NInv /\ HInv /\ PInv /\ Mirrored /\ NeverFull /\ Seen /\ Waits => VInv
    BY TreeOnDisk DEF VInv
  <1>7. NSpec /\ []NeverFull => []VInv
    BY <1>4, <1>5, <1>6, NamespaceInvariant, PTL
  <1>8. VInv /\ VInv' /\ [NNext]_nvars => [NS!Next]_tree
    BY StepShows DEF Shows
  <1>9. NInit => NS!Init
    BY InitShows
  <1> QED
    BY <1>7, <1>8, <1>9, PTL DEF NSpec, ImplementsNamespace, NS!Spec
=============================================================================
