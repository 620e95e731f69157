------------------------------ MODULE Hashtable_walks ----------------------------
(***************************************************************************)
(* Whatever the keys and the capacity, and even by the nodes that lookups  *)
(* do not find any more, the iterator comes by every node that is there    *)
(* all the time, once, in either direction, while the table and the        *)
(* iterator change what it walks over.                                     *)
(***************************************************************************)
EXTENDS Hashtable_proofs

-----------------------------------------------------------------------------
(* The invariant: what a walk still has before it. *)

\* What next() can still return.
Ahead ==
  {i \in Wanted(filter) :
     IF at # None THEN Before(ht, at, i)
     ELSE index # AfterLast /\ ht.nodes[i].bucket > index}

\* What previous() can still return.
Behind ==
  {i \in Wanted(filter) :
     IF at # None THEN Before(ht, i, at)
     ELSE index # BeforeFirst /\ (index < 0 \/ ht.nodes[i].bucket <= index)}

Cursor ==
  /\ index \in Nat \cup {BeforeFirst, AfterLast, Start, Empty}
  /\ at # None => at \in DOMAIN ht.nodes /\ index = ht.nodes[at].bucket

\* Every node that is due was returned or is still to come, none is both.
Walking ==
  /\ filter \in {Text, Key} /\ walk \in {"new", "forward", "backward"}
  /\ due \subseteq Wanted(filter) /\ seen \subseteq Wanted(filter)
  /\ again = FALSE
  /\ walk = "new" => at = None /\ index \in {Start, Empty} /\ seen = {}
  /\ walk = "forward" => seen \cap Ahead = {} /\ due \subseteq seen \cup Ahead
  /\ walk = "backward" => seen \cap Behind = {} /\ due \subseteq seen \cup Behind

Sound == Good(ht) /\ Ordered(ht)
WalkInv == Sound /\ Cursor /\ Walking

LEMMA Placement ==
  ASSUME Sound
  PROVE  /\ DOMAIN ht.nodes \subseteq Id /\ None \notin DOMAIN ht.nodes
         /\ IsFiniteSet(DOMAIN ht.nodes) /\ ht.sz = Cardinality(DOMAIN ht.nodes)
         /\ ht.sz = 0 <=> DOMAIN ht.nodes = {}
         /\ ht.sz \in Nat /\ ht.cap \in Nat
         /\ \A i \in DOMAIN ht.nodes :
              /\ ht.nodes[i].bucket \in 0..ht.cap - 1 /\ ht.nodes[i].depth \in Nat
              /\ ht.nodes[i].hash \in 0..HashSize - 1
<1>1. DOMAIN ht.nodes \subseteq Id /\ ht.cap \in Nat /\ ht.cap >= 1 /\ ht.sz \in Nat
  BY NodeTyped DEF Sound, Good, Table, Held
<1>2. IsFiniteSet(DOMAIN ht.nodes) /\ ht.sz = Cardinality(DOMAIN ht.nodes)
  BY DEF Sound, Good, Counted
<1>3. ht.sz = 0 <=> DOMAIN ht.nodes = {}
  BY <1>2, FS_EmptySet
<1>4. \A i \in DOMAIN ht.nodes :
        /\ ht.nodes[i].bucket \in 0..ht.cap - 1 /\ ht.nodes[i].depth \in Nat
        /\ ht.nodes[i].hash \in 0..HashSize - 1
  BY DEF Sound, Good, Held, Ordered, Apart
<1> QED BY <1>1, <1>2, <1>3, <1>4, HashtableAssumption

\* Of the nodes that a call looks at, one comes last.
LEMMA LastIsThere ==
  ASSUME NEW h, Good(h), Ordered(h), NEW S \in SUBSET DOMAIN h.nodes, S # {}
  PROVE  LastOf(h, S) \in S /\ \A j \in S \ {LastOf(h, S)} : Before(h, j, LastOf(h, S))
<1> DEFINE after(i) == {j \in S : Before(h, i, j)}
           T == {Cardinality(after(i)) : i \in S}
<1>1. ASSUME NEW i \in S PROVE IsFiniteSet(after(i)) /\ Cardinality(after(i)) \in Nat
  <2>1. IsFiniteSet(DOMAIN h.nodes) /\ after(i) \in SUBSET DOMAIN h.nodes
    BY DEF Good, Counted
  <2> HIDE DEF after
  <2> QED BY <2>1, FS_Subset, FS_CardinalityType
<1>2. PICK m \in T : \A n \in T : m <= n
  <2>1. T \in SUBSET Nat /\ T # {}
    BY <1>1
  <2> HIDE DEF T
  <2> QED BY <2>1, LeastNumber
<1>3. PICK i \in S : m = Cardinality(after(i))
  OBVIOUS
<1>4. ASSUME NEW j \in after(i) PROVE FALSE
  <2>1. after(j) \in SUBSET after(i) /\ j \notin after(j)
    BY BeforeOrders
  <2>2. Cardinality(after(j)) < Cardinality(after(i))
    <3>1. IsFiniteSet(after(i)) /\ j \in S
      BY <1>1
    <3>2. after(j) # after(i)
      BY <2>1
    <3> HIDE DEF after
    <3>3. Cardinality(after(j)) <= Cardinality(after(i)) /\ Cardinality(after(j)) # Cardinality(after(i))
      BY <2>1, <3>1, <3>2, FS_Subset
    <3>4. Cardinality(after(j)) \in Nat /\ Cardinality(after(i)) \in Nat
      BY <1>1, <3>1
    <3> QED BY <3>3, <3>4
  <2>3. Cardinality(after(i)) <= Cardinality(after(j))
    BY <1>2, <1>3
  <2>4. Cardinality(after(j)) \in Nat /\ Cardinality(after(i)) \in Nat
    BY <1>1
  <2> HIDE DEF after
  <2> QED BY <2>2, <2>3, <2>4
<1>5. \A j \in S \ {i} : Before(h, j, i)
  BY <1>4, BeforeOrders
<1> QED
  BY <1>5 DEF LastOf

-----------------------------------------------------------------------------
(* Calls on the table. *)

\* A walk goes on over a table in which nodes keep their order.
LEMMA Carries ==
  ASSUME WalkInv, Sound', Kept(ht, ht'), at # None => at \in DOMAIN ht'.nodes,
         UNCHANGED <<at, index, filter, walk, again>>,
         due' = due \cap DOMAIN ht'.nodes, seen' = seen \cap DOMAIN ht'.nodes
  PROVE  WalkInv'
<1> DEFINE Both == DOMAIN ht.nodes \cap DOMAIN ht'.nodes
<1>1. \A i \in Both : ht'.nodes[i].bucket = ht.nodes[i].bucket
      /\ (at # None => (Before(ht', i, at) <=> Before(ht, i, at))
                       /\ (Before(ht', at, i) <=> Before(ht, at, i)))
  BY DEF Kept, WalkInv, Cursor
<1>2. \A i \in Both : /\ i \in Ahead' <=> i \in Ahead
                      /\ i \in Behind' <=> i \in Behind
  BY <1>1 DEF Ahead, Behind, Wanted
<1>3. /\ due \subseteq Wanted(filter) /\ seen \subseteq Wanted(filter)
      /\ due' \subseteq Both /\ seen' \subseteq Both
      /\ due' \subseteq Wanted(filter)' /\ seen' \subseteq Wanted(filter)'
  BY DEF WalkInv, Walking, Wanted
<1>4. Cursor'
  BY <1>1 DEF WalkInv, Cursor
<1> HIDE DEF Both
<1>5. Walking'
  BY <1>2, <1>3 DEF WalkInv, Walking
<1> QED BY <1>4, <1>5 DEF WalkInv

LEMMA GivenUpStarts ==
  ASSUME WalkInv, Sound', GivenUp
  PROVE  WalkInv'
BY DEF WalkInv, GivenUp, Goes, Cursor, Walking

\* put(), merges and the styles.
LEMMA BecomesCarries ==
  ASSUME WalkInv, Sound', NEW h, Becomes(h),
         (ht.table /\ h.cap # ht.cap) \/ Kept(ht, h),
         DOMAIN ht.nodes \subseteq DOMAIN h.nodes
  PROVE  WalkInv'
<1>1. CASE ht.table /\ h.cap # ht.cap
  BY <1>1, GivenUpStarts DEF Becomes
<1>2. CASE ~(ht.table /\ h.cap # ht.cap)
  <2>1. ht' = h /\ Kept(ht, ht') /\ UNCHANGED <<iterVars, walkVars>>
    BY <1>2 DEF Becomes
  <2>2. due \subseteq DOMAIN ht.nodes /\ seen \subseteq DOMAIN ht.nodes
    BY DEF WalkInv, Walking, Wanted
  <2>3. at # None => at \in DOMAIN ht.nodes
    BY DEF WalkInv, Cursor
  <2> QED BY <2>1, <2>2, <2>3, Carries DEF iterVars, walkVars
<1> QED BY <1>1, <1>2

\* remove() and removeAll().
LEMMA ForgetsCarries ==
  ASSUME WalkInv, Sound', NEW gone, Forgets(gone), Kept(ht, ht'),
         DOMAIN ht'.nodes = DOMAIN ht.nodes \ gone
  PROVE  WalkInv'
<1>1. CASE at \in gone
  BY <1>1, GivenUpStarts DEF Forgets
<1>2. CASE at \notin gone
  <2>1. /\ due' = due \ gone /\ seen' = seen \ gone
        /\ UNCHANGED <<at, index, filter, walk, again>>
    BY <1>2 DEF Forgets, iterVars
  <2>2. due \subseteq DOMAIN ht.nodes /\ seen \subseteq DOMAIN ht.nodes
    BY DEF WalkInv, Walking, Wanted
  <2>3. at # None => at \in DOMAIN ht'.nodes
    BY <1>2 DEF WalkInv, Cursor
  <2> QED BY <2>1, <2>2, <2>3, Carries
<1> QED BY <1>1, <1>2

-----------------------------------------------------------------------------
(* The iterator. *)

\* What a new walk has before it is everything that it is after.
LEMMA NewWalk ==
  ASSUME WalkInv, walk = "new"
  PROVE  /\ Ahead = Wanted(filter) /\ Behind = Wanted(filter)
         /\ seen \cap Ahead = {} /\ due \subseteq seen \cup Ahead
         /\ seen \cap Behind = {} /\ due \subseteq seen \cup Behind
<1>1. at = None /\ index < 0 /\ index # AfterLast /\ index # BeforeFirst
      /\ \A i \in DOMAIN ht.nodes : ht.nodes[i].bucket > index
  BY Placement DEF WalkInv, Walking, Start, Empty, AfterLast, BeforeFirst
<1>2. Ahead = Wanted(filter) /\ Behind = Wanted(filter)
  <2>1. Wanted(filter) \subseteq DOMAIN ht.nodes
    BY DEF Wanted
  <2>2. Ahead = Wanted(filter)
    BY <1>1, <2>1 DEF Ahead
  <2>3. Behind = Wanted(filter)
    BY <1>1, <2>1 DEF Behind
  <2> QED BY <2>2, <2>3
<1> QED BY <1>2 DEF WalkInv, Walking

\* An iterator on the first of what is ahead has the rest ahead of it.
LEMMA StepsForward ==
  ASSUME WalkInv, UNCHANGED <<ht, filter, due>>, walk \in {"new", "forward"},
         NEW f \in Ahead, \A j \in Ahead \ {f} : Before(ht, f, j),
         Goes(f, ht.nodes[f].bucket), Walks("forward", {f})
  PROVE  WalkInv'
<1>1. /\ at' = f /\ index' = ht.nodes[f].bucket /\ f \in DOMAIN ht.nodes /\ f # None
      /\ f \in Wanted(filter)
  BY Placement DEF Goes, Ahead, Wanted, WalkInv
<1>2. Wanted(filter)' = Wanted(filter)
  BY DEF Wanted
<1>3. seen \cap Ahead = {} /\ due \subseteq seen \cup Ahead
  BY NewWalk DEF WalkInv, Walking
<1>4. Ahead' = {i \in Wanted(filter) : Before(ht, f, i)}
  BY <1>1, <1>2 DEF Ahead
<1>5. ASSUME NEW i \in Wanted(filter), Before(ht, f, i)
      PROVE  i \in Ahead \ {f}
  <2>1. i \in DOMAIN ht.nodes /\ i # f
    BY <1>1, <1>5, BeforeOrders DEF Wanted, WalkInv, Sound
  <2>2. CASE at # None
    BY <1>1, <1>5, <2>1, <2>2, BeforeOrders DEF Ahead, WalkInv, Sound, Cursor
  <2>3. CASE at = None
    <3>1. index # AfterLast /\ ht.nodes[f].bucket > index
      BY <2>3 DEF Ahead
    <3>2. ht.nodes[i].bucket >= ht.nodes[f].bucket
          /\ ht.nodes[i].bucket \in Int /\ ht.nodes[f].bucket \in Int /\ index \in Int
      BY <1>1, <1>5, <2>1, Placement
      DEF WalkInv, Before, Cursor, BeforeFirst, AfterLast, Start, Empty
    <3>3. ht.nodes[i].bucket > index
      BY <3>1, <3>2
    <3> QED BY <2>1, <2>3, <3>1, <3>3 DEF Ahead
  <2> QED BY <2>2, <2>3
<1>6. Ahead' = Ahead \ {f}
  BY <1>4, <1>5 DEF Ahead
<1>7. /\ seen' = seen \cup {f} /\ walk' = "forward" /\ again' = (again \/ {f} \cap seen # {})
      /\ filter' = filter /\ due' = due
  BY DEF Walks
<1>8. Cursor' /\ Sound'
  BY <1>1, Placement DEF Cursor, WalkInv, Sound
<1>9. Walking'
  <2>1. f \notin seen /\ again = FALSE
    BY <1>3 DEF WalkInv, Walking
  <2>2. again' = FALSE
    BY <1>7, <2>1
  <2> QED BY <1>1, <1>2, <1>3, <1>6, <1>7, <2>2 DEF WalkInv, Walking
<1> QED BY <1>8, <1>9 DEF WalkInv

LEMMA StepsBackward ==
  ASSUME WalkInv, UNCHANGED <<ht, filter, due>>, walk \in {"new", "backward"},
         NEW f \in Behind, \A j \in Behind \ {f} : Before(ht, j, f),
         Goes(f, ht.nodes[f].bucket), Walks("backward", {f})
  PROVE  WalkInv'
<1>1. /\ at' = f /\ index' = ht.nodes[f].bucket /\ f \in DOMAIN ht.nodes /\ f # None
      /\ f \in Wanted(filter)
  BY Placement DEF Goes, Behind, Wanted, WalkInv
<1>2. Wanted(filter)' = Wanted(filter)
  BY DEF Wanted
<1>3. seen \cap Behind = {} /\ due \subseteq seen \cup Behind
  BY NewWalk DEF WalkInv, Walking
<1>4. Behind' = {i \in Wanted(filter) : Before(ht, i, f)}
  BY <1>1, <1>2 DEF Behind
<1>5. ASSUME NEW i \in Wanted(filter), Before(ht, i, f)
      PROVE  i \in Behind \ {f}
  <2>1. i \in DOMAIN ht.nodes /\ i # f
    BY <1>1, <1>5, BeforeOrders DEF Wanted, WalkInv, Sound
  <2>2. CASE at # None
    BY <1>1, <1>5, <2>1, <2>2, BeforeOrders DEF Behind, WalkInv, Sound, Cursor
  <2>3. CASE at = None
    <3>1. index # BeforeFirst /\ (index < 0 \/ ht.nodes[f].bucket <= index)
      BY <2>3 DEF Behind
    <3>2. ht.nodes[i].bucket <= ht.nodes[f].bucket
          /\ ht.nodes[i].bucket \in Int /\ ht.nodes[f].bucket \in Int /\ index \in Int
      BY <1>1, <1>5, <2>1, Placement
      DEF WalkInv, Before, Cursor, BeforeFirst, AfterLast, Start, Empty
    <3>3. index < 0 \/ ht.nodes[i].bucket <= index
      BY <3>1, <3>2
    <3> QED BY <2>1, <2>3, <3>1, <3>3 DEF Behind
  <2> QED BY <2>2, <2>3
<1>6. Behind' = Behind \ {f}
  BY <1>4, <1>5 DEF Behind
<1>7. /\ seen' = seen \cup {f} /\ walk' = "backward" /\ again' = (again \/ {f} \cap seen # {})
      /\ filter' = filter /\ due' = due
  BY DEF Walks
<1>8. Cursor' /\ Sound'
  BY <1>1, Placement DEF Cursor, WalkInv, Sound
<1>9. Walking'
  <2>1. f \notin seen /\ again = FALSE
    BY <1>3 DEF WalkInv, Walking
  <2>2. again' = FALSE
    BY <1>7, <2>1
  <2> QED BY <1>1, <1>2, <1>3, <1>6, <1>7, <2>2 DEF WalkInv, Walking
<1> QED BY <1>8, <1>9 DEF WalkInv

\* The end of the table.
LEMMA StepsOut ==
  ASSUME WalkInv, UNCHANGED ht,
         \/ Goes(None, AfterLast) /\ Walks("forward", {}) /\ Ahead = {}
         \/ Goes(None, BeforeFirst) /\ Walks("backward", {}) /\ Behind = {}
         \/ Goes(None, Empty) /\ UNCHANGED walkVars /\ ht.sz = 0
  PROVE  WalkInv'
<1>1. UNCHANGED <<filter, due>> /\ Wanted(filter)' = Wanted(filter)
  BY DEF Walks, walkVars, Wanted
<1>2. Cursor' /\ Sound'
  BY DEF Goes, Cursor, WalkInv, Sound
<1>3. CASE Goes(None, AfterLast) /\ Walks("forward", {}) /\ Ahead = {}
  <2>1. at' = None /\ index' = AfterLast /\ walk' = "forward" /\ seen' = seen /\ again' = FALSE
    BY <1>3 DEF Goes, Walks, WalkInv, Walking
  <2>2. due \subseteq seen
    <3>1. walk \in {"new", "forward"}
      BY <1>3 DEF Walks
    <3> QED BY <1>3, <3>1, NewWalk DEF WalkInv, Walking
  <2>3. Ahead' = {}
    BY <2>1 DEF Ahead
  <2> QED BY <1>1, <1>2, <2>1, <2>2, <2>3 DEF WalkInv, Walking
<1>4. CASE Goes(None, BeforeFirst) /\ Walks("backward", {}) /\ Behind = {}
  <2>1. at' = None /\ index' = BeforeFirst /\ walk' = "backward" /\ seen' = seen /\ again' = FALSE
    BY <1>4 DEF Goes, Walks, WalkInv, Walking
  <2>2. due \subseteq seen
    <3>1. walk \in {"new", "backward"}
      BY <1>4 DEF Walks
    <3> QED BY <1>4, <3>1, NewWalk DEF WalkInv, Walking
  <2>3. Behind' = {}
    BY <2>1 DEF Behind
  <2> QED BY <1>1, <1>2, <2>1, <2>2, <2>3 DEF WalkInv, Walking
<1>5. CASE Goes(None, Empty) /\ UNCHANGED walkVars /\ ht.sz = 0
  <2>1. at' = None /\ index' = Empty /\ UNCHANGED <<walk, seen, again>>
    BY <1>5 DEF Goes, walkVars
  <2>2. Wanted(filter) = {} /\ due = {} /\ seen = {}
    BY <1>5, Placement DEF WalkInv, Walking, Wanted
  <2> QED BY <1>1, <1>2, <2>1, <2>2 DEF WalkInv, Walking
<1> QED BY <1>3, <1>4, <1>5

LEMMA BeginsRight ==
  ASSUME WalkInv, NEW F \in {Text, Key}, iterate(F) \/ first(F) \/ last(F)
  PROVE  WalkInv'
<1> DEFINE S == Wanted(F)
           f == FirstOf(ht, S)
           l == LastOf(ht, S)
<1>1. /\ ht' = ht /\ filter' = F /\ due' = S /\ again' = FALSE /\ Wanted(filter)' = S
      /\ S \in SUBSET DOMAIN ht.nodes
  BY DEF iterate, first, last, Begins, Wanted
<1>2. Sound'
  BY <1>1 DEF WalkInv, Sound
<1>3. CASE iterate(F)
  <2>1. at' = None /\ index' \in {Start, Empty} /\ walk' = "new" /\ seen' = {}
    BY <1>3 DEF iterate, Goes, Begins
  <2> QED BY <1>1, <1>2, <2>1 DEF WalkInv, Cursor, Walking
<1>4. CASE (first(F) \/ last(F)) /\ S = {}
  <2>1. at' = None /\ index' = Empty /\ walk' \in {"forward", "backward"} /\ seen' = {}
    BY <1>4 DEF first, last, Goes, Begins
  <2> QED BY <1>1, <1>2, <1>4, <2>1 DEF WalkInv, Cursor, Walking
<1>5. CASE first(F) /\ S # {}
  <2>1. f \in S /\ \A j \in S \ {f} : Before(ht, f, j)
    <3> HIDE DEF S
    <3> QED BY <1>1, <1>5, FirstIsThere DEF WalkInv, Sound
  <2>2. at' = f /\ index' = ht.nodes[f].bucket /\ walk' = "forward" /\ seen' = {f}
    BY <1>5 DEF first, Returns, Goes, Begins
  <2> HIDE DEF f, S
  <2>3. f \in DOMAIN ht.nodes /\ f # None /\ ht.nodes[f].bucket \in Nat
    BY <1>1, <2>1, Placement DEF WalkInv
  <2>4. Ahead' = {i \in S : Before(ht, f, i)}
    BY <1>1, <2>2, <2>3 DEF Ahead
  <2>5. Ahead' = S \ {f}
    BY <1>1, <2>1, <2>3, <2>4, BeforeOrders DEF WalkInv, Sound
  <2> QED BY <1>1, <1>2, <2>1, <2>2, <2>3, <2>5 DEF WalkInv, Cursor, Walking
<1>6. CASE last(F) /\ S # {}
  <2>1. l \in S /\ \A j \in S \ {l} : Before(ht, j, l)
    <3> HIDE DEF S
    <3> QED BY <1>1, <1>6, LastIsThere DEF WalkInv, Sound
  <2>2. at' = l /\ index' = ht.nodes[l].bucket /\ walk' = "backward" /\ seen' = {l}
    BY <1>6 DEF last, Returns, Goes, Begins
  <2> HIDE DEF l, S
  <2>3. l \in DOMAIN ht.nodes /\ l # None /\ ht.nodes[l].bucket \in Nat
    BY <1>1, <2>1, Placement DEF WalkInv
  <2>4. Behind' = {i \in S : Before(ht, i, l)}
    BY <1>1, <2>2, <2>3 DEF Behind
  <2>5. Behind' = S \ {l}
    BY <1>1, <2>1, <2>3, <2>4, BeforeOrders DEF WalkInv, Sound
  <2> QED BY <1>1, <1>2, <2>1, <2>2, <2>3, <2>5 DEF WalkInv, Cursor, Walking
<1> QED BY <1>3, <1>4, <1>5, <1>6

LEMMA NextWalks ==
  ASSUME WalkInv, next
  PROVE  WalkInv'
<1> DEFINE place == IF index < 0 THEN BeforeFirst ELSE index
           chain == IF index >= 0 /\ at # None THEN Deeper(at) \cap Wanted(filter) ELSE {}
           later == {i \in Wanted(filter) : ht.nodes[i].bucket > place}
<1>1. /\ UNCHANGED ht
      /\ \/ ht.sz = 0 /\ Goes(None, Empty) /\ UNCHANGED walkVars
         \/ /\ ht.sz > 0 /\ index # AfterLast
            /\ \/ /\ chain # {}
                  /\ Goes(FirstOf(ht, chain), place) /\ Walks("forward", {FirstOf(ht, chain)})
               \/ /\ chain = {} /\ later # {}
                  /\ Returns(FirstOf(ht, later)) /\ Walks("forward", {FirstOf(ht, later)})
               \/ /\ chain \cup later = {}
                  /\ Goes(None, AfterLast) /\ Walks("forward", {})
  BY DEF next
<1>2. /\ Wanted(filter) \in SUBSET DOMAIN ht.nodes
      /\ \A i \in DOMAIN ht.nodes : ht.nodes[i].bucket \in Nat /\ ht.nodes[i].depth \in Nat
      /\ index \in Int /\ (index < 0 <=> index \in {BeforeFirst, AfterLast, Start, Empty})
  BY Placement DEF WalkInv, Wanted, Cursor, BeforeFirst, AfterLast, Start, Empty
<1>3. at # None => at \in DOMAIN ht.nodes /\ index = ht.nodes[at].bucket
  BY DEF WalkInv, Cursor
<1>4. ASSUME at # None
      PROVE  chain = {i \in Wanted(filter) : ht.nodes[i].bucket = index /\ Before(ht, at, i)}
  BY <1>2, <1>3, <1>4 DEF Deeper, Chain, Before
<1>5. ASSUME index # AfterLast PROVE Ahead = chain \cup later
  <2>1. CASE at # None
    <3>1. place = index
      BY <1>2, <1>3, <2>1
    <3>2. later = {i \in Wanted(filter) : ht.nodes[i].bucket > index}
      BY <3>1
    <3> HIDE DEF chain, later, place
    <3> QED BY <1>2, <1>3, <1>4, <2>1, <3>2 DEF Ahead, Before
  <2>2. CASE at = None
    <3>1. chain = {}
      BY <2>2
    <3>2. ASSUME NEW i \in Wanted(filter)
          PROVE  ht.nodes[i].bucket > index <=> ht.nodes[i].bucket > place
      <4>1. ht.nodes[i].bucket \in Nat
        BY <1>2
      <4> QED BY <1>2, <4>1 DEF BeforeFirst
    <3> HIDE DEF chain, place
    <3> QED BY <1>5, <2>2, <3>1, <3>2 DEF Ahead
  <2> QED BY <2>1, <2>2
<1>6. ASSUME NEW S, NEW f, S \in SUBSET Ahead, S # {}, f = FirstOf(ht, S),
             \A i \in S, j \in Ahead \ S : Before(ht, i, j),
             ht.sz > 0, UNCHANGED ht, Goes(f, ht.nodes[f].bucket), Walks("forward", {f})
      PROVE  WalkInv'
  <2>1. S \in SUBSET DOMAIN ht.nodes
    BY <1>2, <1>6 DEF Ahead
  <2>2. f \in S /\ \A j \in S \ {f} : Before(ht, f, j)
    BY <1>6, <2>1, FirstIsThere DEF WalkInv, Sound
  <2>3. \A j \in Ahead \ {f} : Before(ht, f, j)
    BY <1>6, <2>2
  <2>4. UNCHANGED <<filter, due>> /\ walk \in {"new", "forward"}
    BY <1>6 DEF Walks
  <2> QED BY <1>6, <2>2, <2>3, <2>4, StepsForward
<1>7. CASE ht.sz = 0 /\ Goes(None, Empty) /\ UNCHANGED walkVars
  BY <1>1, <1>7, StepsOut
<1>8. CASE /\ ht.sz > 0 /\ index # AfterLast /\ chain # {}
           /\ Goes(FirstOf(ht, chain), place) /\ Walks("forward", {FirstOf(ht, chain)})
  <2> DEFINE f == FirstOf(ht, chain)
  <2>1. Ahead = chain \cup later /\ at # None
    BY <1>5, <1>8
  <2>2. chain = {i \in Wanted(filter) : ht.nodes[i].bucket = index /\ Before(ht, at, i)}
    BY <1>4, <2>1
  <2>3. place = index
    BY <1>2, <1>3, <2>1
  <2>4. chain \in SUBSET DOMAIN ht.nodes /\ \A i \in chain : ht.nodes[i].bucket = index
    BY <1>2, <2>2
  <2>5. \A i \in later : i \in DOMAIN ht.nodes /\ ht.nodes[i].bucket > index
    BY <1>2, <2>3
  <2> HIDE DEF chain, later, place
  <2>6. f \in chain
    BY <1>8, <2>4, FirstIsThere DEF WalkInv, Sound
  <2>7. \A i \in chain, j \in Ahead \ chain : Before(ht, i, j)
    BY <1>2, <2>1, <2>4, <2>5 DEF Before
  <2>8. place = ht.nodes[f].bucket
    BY <2>3, <2>4, <2>6
  <2> QED BY <1>1, <1>6, <1>8, <2>1, <2>7, <2>8
<1>9. CASE /\ ht.sz > 0 /\ index # AfterLast /\ chain = {} /\ later # {}
           /\ Returns(FirstOf(ht, later)) /\ Walks("forward", {FirstOf(ht, later)})
  <2>1. Ahead = later
    BY <1>5, <1>9
  <2> HIDE DEF chain, later, place
  <2> QED BY <1>1, <1>6, <1>9, <2>1 DEF Returns
<1>10. CASE /\ ht.sz > 0 /\ index # AfterLast /\ chain \cup later = {}
            /\ Goes(None, AfterLast) /\ Walks("forward", {})
  <2>1. Ahead = {}
    BY <1>5, <1>10
  <2> QED BY <1>1, <1>10, <2>1, StepsOut
<1> HIDE DEF chain, later, place
<1> QED BY <1>1, <1>7, <1>8, <1>9, <1>10

LEMMA PreviousWalks ==
  ASSUME WalkInv, previous
  PROVE  WalkInv'
<1> DEFINE head  == index >= 0 /\ at # None /\ at \in Chain(index) /\ ht.nodes[at].depth = 0
           place == IF index < 0 THEN ht.cap - 1 ELSE IF head THEN index - 1 ELSE index
           node  == IF index < 0 \/ head THEN None ELSE at
           rest  == {i \in Wanted(filter) :
                       \/ ht.nodes[i].bucket < place
                       \/ /\ ht.nodes[i].bucket = place
                          /\ node \in Chain(place) => Before(ht, i, node)}
<1>1. /\ UNCHANGED ht
      /\ \/ ht.sz = 0 /\ Goes(None, Empty) /\ UNCHANGED walkVars
         \/ /\ ht.sz > 0 /\ index # BeforeFirst
            /\ \/ /\ rest # {}
                  /\ Returns(LastOf(ht, rest)) /\ Walks("backward", {LastOf(ht, rest)})
               \/ /\ rest = {}
                  /\ Goes(None, BeforeFirst) /\ Walks("backward", {})
  BY DEF previous
<1>2. /\ Wanted(filter) \in SUBSET DOMAIN ht.nodes
      /\ \A i \in DOMAIN ht.nodes : ht.nodes[i].bucket \in 0..ht.cap - 1 /\ ht.nodes[i].depth \in Nat
      /\ index \in Int /\ ht.cap \in Nat /\ None \notin DOMAIN ht.nodes
  BY Placement DEF WalkInv, Wanted, Cursor, BeforeFirst, AfterLast, Start, Empty
<1>3. at # None => at \in DOMAIN ht.nodes /\ index = ht.nodes[at].bucket
  BY DEF WalkInv, Cursor
<1>4. ASSUME index # BeforeFirst PROVE Behind = rest
  <2>1. CASE at # None /\ head
    <3>1. place = index - 1 /\ node = None
      BY <1>2, <1>3, <2>1
    <3>2. None \notin Chain(place)
      BY <1>2 DEF Chain
    <3>3. rest = {i \in Wanted(filter) : ht.nodes[i].bucket < index}
      <4>1. ASSUME NEW i \in Wanted(filter)
            PROVE  ht.nodes[i].bucket < place \/ ht.nodes[i].bucket = place
                     <=> ht.nodes[i].bucket < index
        <5>1. ht.nodes[i].bucket \in Int
          BY <1>2
        <5> QED BY <1>2, <3>1, <5>1
      <4> HIDE DEF place, node
      <4> QED BY <3>1, <3>2, <4>1
    <3>4. ht.nodes[at].depth = 0 /\ at \in DOMAIN ht.nodes /\ index = ht.nodes[at].bucket
      BY <1>3, <2>1
    <3> HIDE DEF head, place, node, rest
    <3> QED BY <1>2, <2>1, <3>3, <3>4 DEF Behind, Before
  <2>2. CASE at # None /\ ~head
    <3>1. place = index /\ node = at /\ at \in Chain(place)
      BY <1>2, <1>3, <2>2 DEF Chain
    <3>2. rest = {i \in Wanted(filter) :
                    ht.nodes[i].bucket < index \/ (ht.nodes[i].bucket = index /\ Before(ht, i, at))}
      <4> HIDE DEF head, place, node
      <4> QED BY <3>1
    <3> HIDE DEF head, place, node, rest
    <3> QED BY <1>2, <1>3, <2>2, <3>2 DEF Behind, Before
  <2>3. CASE at = None /\ index < 0
    <3>1. place = ht.cap - 1 /\ node = None /\ None \notin Chain(place)
      BY <1>2, <2>3 DEF Chain
    <3>2. ASSUME NEW i \in Wanted(filter)
          PROVE  ht.nodes[i].bucket < place \/ ht.nodes[i].bucket = place
      <4>1. ht.nodes[i].bucket \in 0..ht.cap - 1
        BY <1>2
      <4> HIDE DEF place
      <4> QED BY <1>2, <3>1, <4>1
    <3>3. rest = Wanted(filter)
      <4> HIDE DEF place, node
      <4> QED BY <3>1, <3>2
    <3> HIDE DEF rest
    <3> QED BY <1>4, <2>3, <3>3 DEF Behind
  <2>4. CASE at = None /\ ~(index < 0)
    <3>1. place = index /\ node = None /\ None \notin Chain(place)
      BY <1>2, <2>4 DEF Chain
    <3>2. ASSUME NEW i \in Wanted(filter)
          PROVE  ht.nodes[i].bucket < place \/ ht.nodes[i].bucket = place
                   <=> ht.nodes[i].bucket <= index
      <4>1. ht.nodes[i].bucket \in Int
        BY <1>2
      <4> HIDE DEF place
      <4> QED BY <1>2, <3>1, <4>1
    <3>3. rest = {i \in Wanted(filter) : ht.nodes[i].bucket <= index}
      <4> HIDE DEF place, node
      <4> QED BY <3>1, <3>2
    <3> HIDE DEF rest
    <3> QED BY <1>4, <2>4, <3>3 DEF Behind
  <2> HIDE DEF head
  <2> QED BY <2>1, <2>2, <2>3, <2>4
<1> HIDE DEF head, place, node, rest
<1>5. CASE ht.sz = 0 /\ Goes(None, Empty) /\ UNCHANGED walkVars
  BY <1>1, <1>5, StepsOut
<1>6. CASE /\ ht.sz > 0 /\ index # BeforeFirst /\ rest # {}
           /\ Returns(LastOf(ht, rest)) /\ Walks("backward", {LastOf(ht, rest)})
  <2> DEFINE f == LastOf(ht, rest)
  <2>1. Behind = rest
    BY <1>4, <1>6
  <2>2. rest \in SUBSET DOMAIN ht.nodes
    BY <1>2, <2>1 DEF Behind
  <2>3. f \in rest /\ \A j \in rest \ {f} : Before(ht, j, f)
    BY <1>6, <2>2, LastIsThere DEF WalkInv, Sound
  <2>4. UNCHANGED <<filter, due>> /\ walk \in {"new", "backward"}
    BY <1>6 DEF Walks
  <2> HIDE DEF f
  <2>5. Goes(f, ht.nodes[f].bucket) /\ Walks("backward", {f})
    BY <1>6 DEF Returns, f
  <2> QED BY <1>1, <2>1, <2>3, <2>4, <2>5, StepsBackward
<1>7. CASE /\ ht.sz > 0 /\ index # BeforeFirst /\ rest = {}
           /\ Goes(None, BeforeFirst) /\ Walks("backward", {})
  BY <1>1, <1>4, <1>7, StepsOut
<1> QED BY <1>1, <1>5, <1>6, <1>7

\* A node that the iterator removes leaves it before the same nodes.
LEMMA RemovalWalks ==
  ASSUME WalkInv, Sound', iteratorRemove
  PROVE  WalkInv'
<1> DEFINE n == ht.nodes[at]
           before == {i \in Chain(index) : ht.nodes[i].depth = n.depth - 1}
           b == FirstOf(ht, before)
           Rest == DOMAIN ht.nodes \ {at}
<1>1. /\ index >= 0 /\ at # None /\ at \in DOMAIN ht.nodes /\ n.bucket = index
      /\ ht' = Unlink(ht, at)
      /\ \/ walk = "backward" /\ before # {} /\ GivenUp
         \/ /\ ~(walk = "backward" /\ before # {})
            /\ Goes(IF before = {} THEN None ELSE b, PlaceAfter(before))
            /\ due' = due \ {at} /\ seen' = seen \ {at}
            /\ UNCHANGED <<filter, walk, again>>
  BY DEF iteratorRemove, Chain
<1>2. Kept(ht, ht') /\ DOMAIN ht'.nodes = Rest
  BY <1>1, UnlinkKeeps DEF WalkInv, Sound
<1>3. /\ DOMAIN ht.nodes \subseteq Id /\ None \notin DOMAIN ht.nodes
      /\ \A i \in DOMAIN ht.nodes : ht.nodes[i].bucket \in Nat /\ ht.nodes[i].depth \in Nat
      /\ index \in Nat
  BY <1>1, Placement DEF WalkInv
<1>4. \A i \in Rest, j \in Rest :
        ht'.nodes[i].bucket = ht.nodes[i].bucket /\ (Before(ht', i, j) <=> Before(ht, i, j))
  BY <1>2 DEF Kept
<1>5. \A i \in Rest : ht.nodes[i].bucket = index => ht.nodes[i].depth # n.depth
  BY <1>1 DEF WalkInv, Sound, Ordered, Apart
<1>6. walk \in {"forward", "backward"} /\ again = FALSE /\ filter \in {Text, Key}
      /\ due \subseteq Wanted(filter) /\ seen \subseteq Wanted(filter)
  BY <1>1 DEF WalkInv, Walking
<1>7. CASE walk = "backward" /\ before # {} /\ GivenUp
  BY <1>7, GivenUpStarts
<1>8. CASE ~(walk = "backward" /\ before # {} /\ GivenUp)
  <2>1. /\ at' = (IF before = {} THEN None ELSE b) /\ index' = PlaceAfter(before)
        /\ due' = due \ {at} /\ seen' = seen \ {at}
        /\ UNCHANGED <<filter, walk, again>>
        /\ ~(walk = "backward" /\ before # {})
    <3> HIDE DEF before, n, b
    <3> QED BY <1>1, <1>8 DEF Goes
  <2>2. Wanted(filter)' = Wanted(filter) \ {at}
    BY <1>2, <2>1 DEF Wanted
  <2>3. due' \subseteq Wanted(filter)' /\ seen' \subseteq Wanted(filter)'
    BY <1>6, <2>1, <2>2
  <2>4. ASSUME NEW A, NEW B, B = A \ {at}, seen \cap A = {}, due \subseteq seen \cup A
        PROVE  seen' \cap B = {} /\ due' \subseteq seen' \cup B
    BY <2>1, <2>4
  <2>5. ht.sz = 1 => Rest = {} /\ before = {}
    <3>1. ht.sz = 1 => DOMAIN ht.nodes = {at}
      BY <1>1, Placement, FS_Singleton DEF WalkInv
    <3>2. before \subseteq DOMAIN ht.nodes
      BY DEF Chain
    <3>3. at \notin before
      BY <1>1, <1>3
    <3> HIDE DEF before
    <3> QED BY <3>1, <3>2, <3>3
  <2>6. CASE ht.sz = 1
    <3>1. at' = None /\ index' = Empty /\ Wanted(filter)' = {}
      <4> HIDE DEF before
      <4> QED BY <1>2, <2>1, <2>2, <2>5, <2>6 DEF PlaceAfter, Wanted
    <3>2. due' = {} /\ seen' = {}
      BY <2>3, <3>1
    <3>3. Cursor'
      BY <3>1 DEF Cursor
    <3> QED BY <1>6, <2>1, <3>1, <3>2, <3>3 DEF WalkInv, Walking
  <2>7. CASE ht.sz # 1 /\ before = {}
    <3>1. at' = None /\ index' = index - 1
      <4> HIDE DEF before
      <4> QED BY <2>1, <2>7 DEF PlaceAfter
    <3>2. n.depth = 0
      <4> SUFFICES ASSUME n.depth > 0 PROVE FALSE
        BY <1>1, <1>3
      <4>1. PICK j \in DOMAIN ht.nodes : ht.nodes[j].bucket = n.bucket /\ ht.nodes[j].depth = n.depth - 1
        BY <1>1 DEF WalkInv, Sound, Ordered, Linked
      <4>2. j \in before
        BY <1>1, <4>1 DEF Chain
      <4> QED BY <2>7, <4>2
    <3>3. index' \in Int /\ index' # AfterLast /\ (index' < 0 => index' = BeforeFirst)
          /\ \A m \in Nat : (m > index' <=> m >= index) /\ (m <= index' <=> m < index)
      BY <1>3, <3>1 DEF AfterLast, BeforeFirst
    <3>4. ASSUME NEW i \in Rest
          PROVE  /\ ht.nodes[i].bucket >= index <=> Before(ht, at, i)
                 /\ ht.nodes[i].bucket < index <=> Before(ht, i, at)
      <4>1. ht.nodes[i].bucket \in Nat /\ ht.nodes[i].depth \in Nat
        BY <1>3
      <4>2. ht.nodes[i].bucket = index => ht.nodes[i].depth > 0
        BY <1>5, <3>2, <4>1
      <4> QED BY <1>1, <1>3, <3>2, <4>1, <4>2 DEF Before
    <3>5. Ahead' = Ahead \ {at}
      <4>1. Ahead' = {i \in Wanted(filter) \ {at} : ht'.nodes[i].bucket > index'}
        BY <2>2, <3>1, <3>3 DEF Ahead
      <4>2. Ahead = {i \in Wanted(filter) : Before(ht, at, i)}
        BY <1>1 DEF Ahead
      <4>3. \A i \in Wanted(filter) \ {at} :
              i \in Rest /\ ht'.nodes[i].bucket = ht.nodes[i].bucket /\ ht.nodes[i].bucket \in Nat
        BY <1>3, <1>4 DEF Wanted
      <4> HIDE DEF Rest
      <4> QED BY <3>3, <3>4, <4>1, <4>2, <4>3
    <3>6. Behind' = Behind \ {at}
      <4>1. \A i \in Wanted(filter) \ {at} :
              i \in Rest /\ ht'.nodes[i].bucket = ht.nodes[i].bucket /\ ht.nodes[i].bucket \in Nat
        BY <1>3, <1>4 DEF Wanted
      <4>2. Behind = {i \in Wanted(filter) : Before(ht, i, at)}
        BY <1>1 DEF Behind
      <4>3. Behind' = {i \in Wanted(filter) \ {at} :
                         index' # BeforeFirst
                         /\ (index' < 0 \/ ht'.nodes[i].bucket <= index')}
        BY <2>2, <3>1 DEF Behind
      <4>4. \A i \in Wanted(filter) \ {at} :
              ht.nodes[i].bucket <= index' => index' # BeforeFirst
        BY <4>1, <3>3 DEF BeforeFirst
      <4> HIDE DEF Rest
      <4> QED BY <3>3, <3>4, <4>1, <4>2, <4>3, <4>4
    <3>7. Cursor'
      BY <1>3, <3>1 DEF Cursor, BeforeFirst
    <3> QED BY <1>6, <2>1, <2>3, <2>4, <3>5, <3>6, <3>7 DEF WalkInv, Walking
  <2>8. CASE ht.sz # 1 /\ before # {}
    <3>1. before \in SUBSET DOMAIN ht.nodes
      BY DEF Chain
    <3>2. b \in before
      <4> HIDE DEF before
      <4> QED BY <2>8, <3>1, FirstIsThere DEF WalkInv, Sound
    <3>3. b \in Rest /\ ht.nodes[b].bucket = index /\ ht.nodes[b].depth = n.depth - 1
      <4> HIDE DEF b
      <4>1. b \in DOMAIN ht.nodes /\ ht.nodes[b].bucket = index /\ ht.nodes[b].depth = n.depth - 1
        BY <3>2 DEF Chain
      <4>2. b # at
        BY <1>1, <1>3, <4>1
      <4> QED BY <4>1, <4>2
    <3>4. at' = b /\ index' = index /\ walk = "forward"
      <4> HIDE DEF before, b
      <4> QED BY <1>6, <2>1, <2>8 DEF PlaceAfter
    <3> HIDE DEF before, b
    <3>5. ASSUME NEW i \in Rest PROVE Before(ht, b, i) <=> Before(ht, at, i)
      <4>1. ht.nodes[i].bucket \in Nat /\ ht.nodes[i].depth \in Nat /\ n.depth \in Nat
        BY <1>1, <1>3
      <4>2. ht.nodes[i].bucket = index => ht.nodes[i].depth # n.depth
        BY <1>5
      <4> HIDE DEF Rest
      <4> QED BY <1>1, <1>3, <3>3, <4>1, <4>2 DEF Before
    <3>6. Ahead' = Ahead \ {at}
      <4>1. b # None
        BY <1>3, <3>3
      <4>2. Ahead' = {i \in Wanted(filter) \ {at} : Before(ht', b, i)}
        BY <2>2, <3>4, <4>1 DEF Ahead
      <4>3. Ahead = {i \in Wanted(filter) : Before(ht, at, i)}
        BY <1>1 DEF Ahead
      <4>4. Wanted(filter) \ {at} \subseteq Rest
        BY DEF Wanted
      <4> HIDE DEF Rest
      <4> QED BY <1>4, <3>3, <3>5, <4>2, <4>3, <4>4
    <3>7. Cursor'
      BY <1>2, <1>3, <1>4, <3>3, <3>4 DEF Cursor
    <3> QED BY <1>6, <2>1, <2>3, <2>4, <3>4, <3>6, <3>7 DEF WalkInv, Walking
  <2> HIDE DEF before
  <2> QED BY <2>6, <2>7, <2>8
<1> QED BY <1>7, <1>8

-----------------------------------------------------------------------------
(* The theorems. *)

LEMMA InitWalks ==
  ASSUME Init
  PROVE  WalkInv
<1>1. Sound
  BY InitGood, InitMaps DEF Sound
<1>2. Cursor /\ Walking
  BY DEF Init, Cursor, Walking
<1> QED BY <1>1, <1>2 DEF WalkInv

\* Every call leaves the walk with what it still has before it.
LEMMA NextWalking ==
  ASSUME WalkInv, [Next]_vars
  PROVE  WalkInv'
<1>1. Good(ht) /\ Ordered(ht) /\ ht.fold \in BOOLEAN
  BY DEF WalkInv, Sound, Good, Table
<1>2. Sound'
  BY <1>1, NextGood, NextMaps DEF Sound
<1>3. ASSUME NEW k \in Key, NEW v \in Value, put(k, v) \/ mergeTable(k, v)
      PROVE  WalkInv'
  <2>1. PICK code \in Nat, there \in SUBSET DOMAIN ht.nodes :
          /\ Becomes(PutAt(ht, k, v, code, there))
          /\ \E i \in {k} \X (1..Copies) : i \notin DOMAIN ht.nodes
    BY <1>1, <1>3, PutsAt
  <2> DEFINE h == PutAt(ht, k, v, code, there)
  <2>2. /\ (ht.table /\ h.cap # ht.cap) \/ Kept(ht, h)
        /\ \E n \in DOMAIN h.nodes : DOMAIN h.nodes = DOMAIN ht.nodes \cup {n}
    BY <1>1, <2>1, PutKeeps
  <2> HIDE DEF h
  <2>3. Becomes(h) /\ DOMAIN ht.nodes \subseteq DOMAIN h.nodes
    BY <2>1, <2>2 DEF h
  <2> QED BY <1>2, <2>2, <2>3, BecomesCarries
<1>4. ASSUME NEW k \in Key, NEW values, remove(k, values)
      PROVE  WalkInv'
  <2>1. PICK i \in Get(ht, k) : ht' = Unlink(ht, i) /\ Forgets({i})
    BY <1>4 DEF remove
  <2>2. i \in DOMAIN ht.nodes
    BY <2>1 DEF Get, Chained
  <2>3. Kept(ht, ht') /\ DOMAIN ht'.nodes = DOMAIN ht.nodes \ {i}
    BY <1>1, <2>1, <2>2, UnlinkKeeps
  <2> QED BY <1>2, <2>1, <2>3, ForgetsCarries
<1>5. ASSUME removeAll
      PROVE  WalkInv'
  <2>1. ht' = RemoveAll(ht) /\ Forgets(Id)
    BY <1>5 DEF removeAll
  <2> DEFINE none == [i \in {} |-> 0]
  <2>2. ht'.nodes = none
    BY <1>1, <2>1 DEF RemoveAll, Good, Table
  <2>3. DOMAIN ht'.nodes = {}
    BY <2>2
  <2>4. Kept(ht, ht') /\ DOMAIN ht'.nodes = DOMAIN ht.nodes \ Id
    BY <2>3, Placement DEF Kept, WalkInv
  <2> QED BY <1>2, <2>1, <2>4, ForgetsCarries
<1>6. ASSUME NEW b \in BOOLEAN, setCaseInsensitiveKeys(b)
      PROVE  WalkInv'
  <2>1. CASE ht.sz > 0
    <3>1. Becomes(Rehash(ht, b))
      BY <1>6, <2>1 DEF setCaseInsensitiveKeys
    <3>2. ht.table /\ Rehash(ht, b).cap = 2 * ht.cap + 1 /\ ht.cap \in Nat
      <4>1. ht.table
        BY <2>1 DEF WalkInv, Sound, Good, Held
      <4> QED BY <1>1, <4>1 DEF Rehash, Good, Table
    <3>3. Rehash(ht, b).cap # ht.cap
      <4> HIDE DEF Rehash
      <4> QED BY <3>2
    <3>4. DOMAIN Rehash(ht, b).nodes = DOMAIN ht.nodes
      BY <1>1, RehashKeeps
    <3> QED BY <1>2, <3>1, <3>2, <3>3, <3>4, BecomesCarries
  <2>2. CASE ~(ht.sz > 0)
    <3> DEFINE h == [ht EXCEPT !.fold = b]
    <3>1. Becomes(h)
      BY <1>6, <2>2 DEF setCaseInsensitiveKeys
    <3>2. h.nodes = ht.nodes
      BY <1>1 DEF Good, Table
    <3> HIDE DEF h
    <3>3. Kept(ht, h)
      BY <3>2 DEF Kept, Before
    <3> QED BY <1>2, <3>1, <3>2, <3>3, BecomesCarries
  <2> QED BY <2>1, <2>2
<1>7. ASSUME NEW b \in BOOLEAN, setAllowKeyMultiples(b)
      PROVE  WalkInv'
  <2> DEFINE h == [ht EXCEPT !.multiples = b]
  <2>1. Becomes(h)
    BY <1>7 DEF setAllowKeyMultiples
  <2>2. h.nodes = ht.nodes
    BY <1>1 DEF Good, Table
  <2> HIDE DEF h
  <2>3. Kept(ht, h)
    BY <2>2 DEF Kept, Before
  <2> QED BY <1>2, <2>1, <2>2, <2>3, BecomesCarries
<1>8. ASSUME IteratorStep
       PROVE  WalkInv'
  BY <1>2, <1>8, BeginsRight, NextWalks, PreviousWalks, RemovalWalks DEF IteratorStep
<1>9. CASE TableStep
  BY <1>3, <1>4, <1>5, <1>6, <1>7, <1>9 DEF TableStep
<1>10. CASE UNCHANGED vars
  BY <1>10 DEF vars, iterVars, walkVars, WalkInv, Sound, Cursor, Walking, Ahead, Behind, Wanted
<1> QED BY <1>8, <1>9, <1>10 DEF Next

\* An iterator that goes over the table, in either direction, returns every
\* node that is there all the time once, whatever is put and removed meanwhile.
THEOREM EveryNodeOnce ==
  Spec => [](ForwardOnce /\ BackwardOnce)
<1>1. Init => WalkInv
  BY InitWalks
<1>2. WalkInv /\ [Next]_vars => WalkInv'
  BY NextWalking
<1>3. ASSUME WalkInv PROVE ForwardOnce /\ BackwardOnce
  <2>1. at # None => index \in Nat
    BY <1>3, Placement DEF WalkInv, Cursor
  <2>2. index = AfterLast => Ahead = {}
    BY <2>1 DEF Ahead, AfterLast
  <2>3. index = BeforeFirst => Behind = {}
    BY <2>1 DEF Behind, BeforeFirst
  <2> QED BY <1>3, <2>2, <2>3 DEF WalkInv, Walking, ForwardOnce, BackwardOnce
<1> QED BY <1>1, <1>2, <1>3, PTL DEF Spec

\* Every field of the table and of the iterator stays in its range.
THEOREM Typing ==
  Spec => []TypeOK
<1>1. Init => WalkInv
  BY InitWalks
<1>2. WalkInv /\ [Next]_vars => WalkInv'
  BY NextWalking
<1>3. ASSUME WalkInv PROVE TypeOK
  <2> DEFINE Row == [hash : Nat, value : Value, bucket : Nat, depth : Int]
  <2>1. ht \in Table /\ ht.nodes \in [DOMAIN ht.nodes -> Row] /\ ht.cap >= 1
    BY <1>3, NodeTyped DEF WalkInv, Sound, Good, Held
  <2>2. ASSUME NEW i \in DOMAIN ht.nodes PROVE ht.nodes[i] \in NodeType(ht.cap)
    <3>1. ht.nodes[i] \in Row
      BY <2>1
    <3>2. /\ ht.nodes[i].bucket \in 0..ht.cap - 1 /\ ht.nodes[i].depth \in Nat
          /\ ht.nodes[i].hash \in 0..HashSize - 1
      BY <1>3, Placement DEF WalkInv
    <3> QED BY <3>1, <3>2 DEF NodeType
  <2>3. ht.nodes \in [DOMAIN ht.nodes -> NodeType(ht.cap)]
    BY <2>1, <2>2
  <2>4. /\ ht.cap \in Nat \ {0} /\ ht.full \in Nat /\ ht.sz \in Nat
        /\ {ht.table, ht.fold, ht.multiples} \subseteq BOOLEAN
    BY <2>1 DEF Table
  <2>5. DOMAIN ht.nodes \subseteq Id
    BY <1>3, Placement DEF WalkInv
  <2>6. /\ at \in Id \cup {None} /\ index \in Int
        /\ due \subseteq Id /\ seen \subseteq Id
    BY <1>3, <2>5
    DEF WalkInv, Cursor, Walking, Wanted, BeforeFirst, AfterLast, Start, Empty
  <2> QED BY <1>3, <2>3, <2>4, <2>5, <2>6 DEF WalkInv, Walking, TypeOK
<1> QED BY <1>1, <1>2, <1>3, PTL DEF Spec
===============================================================================
