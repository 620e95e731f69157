---------------------------- MODULE Hashtable_proofs ---------------------------
(***************************************************************************)
(* A table finds every key that fits a hash_t, whatever else it holds, and *)
(* with a capacity of two or more it grows before its chains do; when all  *)
(* of its keys fit it is a map: every call is one of KeyMap, or changes    *)
(* nothing of it.                                                          *)
(***************************************************************************)
EXTENDS Hashtable, FiniteSetTheorems, WellFoundedInduction, TLAPS

\* The keys that no node cuts off, and that no change of style leaves behind.
Fit == {k \in Number : k < HashSize} \cup (IF Restyle THEN {} ELSE Text)

\* What some of the theorems ask of the instance: all keys are such ones.
Narrow == Number \subseteq 0..HashSize - 1 /\ ~Restyle

Table ==
  [nodes : UNION {[S -> [hash : Nat, value : Value, bucket : Nat, depth : Int]] :
                    S \in SUBSET Id},
   table : BOOLEAN, cap : Nat, sz : Nat, full : Nat, fold : BOOLEAN, multiples : BOOLEAN]

\* A node with a key that fits hangs in the chain of its code, which is that of
\* its key.
Placed(h) ==
  \A i \in DOMAIN h.nodes : KeyOf(i) \in Fit =>
    /\ h.nodes[i].hash = Hash(KeyOf(i), h.fold)
    /\ h.nodes[i].bucket = h.nodes[i].hash % h.cap

Counted(h) ==
  IsFiniteSet(DOMAIN h.nodes) /\ h.sz = Cardinality(DOMAIN h.nodes)

\* Every node hangs in some chain; a table that is not allocated is empty.
Held(h) ==
  /\ h.cap >= 1
  /\ h.table \/ (h.sz = 0 /\ h.full = 0)
  /\ \A i \in DOMAIN h.nodes :
       /\ h.nodes[i].hash \in 0..HashSize - 1
       /\ h.nodes[i].bucket \in 0..h.cap - 1

Good(h) == h \in Table /\ Placed(h) /\ Counted(h) /\ Held(h)

\* A table that is allocated has grown in time.
Roomy(h) ==
  /\ h.cap >= 2
  /\ IF h.table THEN h.full = FullOf(h.cap) /\ h.sz <= h.full
     ELSE h.sz = 0 /\ h.full = 0

LEMMA HashTyped ==
  ASSUME NEW k \in Key, NEW fold \in BOOLEAN
  PROVE  Hash(k, fold) \in Nat /\ Hash(k, fold) \in 0..HashSize - 1
<1>1. CASE k \in Text
  BY <1>1, HashtableAssumption DEF Hash
<1>2. CASE k \notin Text
  <2>1. k \in Nat /\ HashSize \in Nat \ {0}
    BY <1>2, HashtableAssumption DEF Key
  <2>2. k % HashSize \in 0..HashSize - 1
    BY <2>1
  <2> QED BY <1>2, <2>1, <2>2 DEF Hash
<1> QED BY <1>1, <1>2

\* Lookups and nodes go by the same number, if the key fits.
LEMMA CodeIsHash ==
  ASSUME NEW k \in Key, NEW fold \in BOOLEAN
  PROVE  /\ k \in Fit => Code(k, fold) = Hash(k, fold)
         /\ Code(k, fold) \in Nat
<1>1. CASE k \in Text
  BY <1>1, HashTyped DEF Code
<1>2. CASE k \notin Text
  <2>1. k \in Nat /\ k \in Number /\ HashSize \in Nat \ {0}
    BY <1>2, HashtableAssumption DEF Key
  <2>2. k < HashSize => k % HashSize = k
    BY <2>1
  <2>3. k \in Fit => k < HashSize
    BY <1>2 DEF Fit
  <2> QED BY <1>2, <2>1, <2>2, <2>3 DEF Code, Hash
<1> QED BY <1>1, <1>2

LEMMA NarrowFits ==
  ASSUME Narrow
  PROVE  Fit = Key
<1>1. \A k \in Number : k \in 0..HashSize - 1 /\ k < HashSize
  BY HashtableAssumption DEF Narrow
<1> QED BY <1>1 DEF Narrow, Fit, Key

LEMMA NodeTyped ==
  ASSUME NEW h \in Table
  PROVE  /\ DOMAIN h.nodes \subseteq Id
         /\ h.nodes \in [DOMAIN h.nodes -> [hash : Nat, value : Value, bucket : Nat, depth : Int]]
BY DEF Table

\* A number's hash does not depend on the style.
LEMMA NumberHash ==
  ASSUME NEW k, k \notin Text, NEW f, NEW g
  PROVE  Hash(k, f) = Hash(k, g)
BY DEF Hash

\* Growth places every node by the code that it has.
LEMMA RehashGood ==
  ASSUME NEW h, Good(h), NEW fold \in BOOLEAN,
         fold = h.fold \/ Restyle \/ \A i \in DOMAIN h.nodes : KeyOf(i) \notin Text
  PROVE  /\ Good(Rehash(h, fold))
         /\ DOMAIN Rehash(h, fold).nodes = DOMAIN h.nodes
         /\ Rehash(h, fold).table
         /\ Rehash(h, fold).fold = fold
         /\ Rehash(h, fold).multiples = h.multiples
<1>1. /\ h \in Table /\ h.cap \in Nat /\ h.cap >= 1 /\ h.sz \in Nat
      /\ h.table \in BOOLEAN /\ h.fold \in BOOLEAN
  BY DEF Good, Table, Held
<1>2. /\ DOMAIN h.nodes \subseteq Id
      /\ h.nodes \in [DOMAIN h.nodes -> [hash : Nat, value : Value, bucket : Nat, depth : Int]]
  BY <1>1, NodeTyped
<1>3. CASE ~h.table
  <2>1. Rehash(h, fold) = [h EXCEPT !.table = TRUE, !.sz = 0, !.fold = fold, !.full = FullOf(h.cap)]
    BY <1>3 DEF Rehash
  <2> DEFINE r == Rehash(h, fold)
  <2>2. /\ r.nodes = h.nodes /\ r.table = TRUE /\ r.cap = h.cap /\ r.sz = 0
        /\ r.full = FullOf(h.cap) /\ r.fold = fold /\ r.multiples = h.multiples
        /\ r \in Table
    <3>1. r = [nodes |-> h.nodes, table |-> TRUE, cap |-> h.cap, sz |-> 0,
               full |-> FullOf(h.cap), fold |-> fold, multiples |-> h.multiples]
      BY <2>1, <1>1 DEF Table
    <3>2. FullOf(h.cap) \in Nat /\ h.multiples \in BOOLEAN
      BY <1>1 DEF FullOf, Table
    <3>3. h.nodes \in UNION {[S -> [hash : Nat, value : Value, bucket : Nat, depth : Int]] :
                               S \in SUBSET Id}
      BY <1>1 DEF Table
    <3> QED BY <3>1, <3>2, <3>3, <1>1 DEF Table
  <2>3. h.sz = 0 /\ IsFiniteSet(DOMAIN h.nodes) /\ Cardinality(DOMAIN h.nodes) = 0
    BY <1>3 DEF Good, Held, Counted
  <2>4. DOMAIN h.nodes = {}
    BY <2>3, FS_EmptySet
  <2> HIDE DEF r
  <2>5. Placed(r) /\ Counted(r)
    BY <2>2, <2>3, <2>4 DEF Placed, Counted
  <2>6. Held(r)
    BY <2>2, <2>4, <1>1 DEF Held
  <2> QED BY <2>2, <2>5, <2>6 DEF Good, r
<1>4. CASE h.table
  <2> DEFINE c == 2 * h.cap + 1
             hash(i) == IF fold # h.fold /\ KeyOf(i) \in Text
                        THEN Hash(KeyOf(i), h.fold) ELSE h.nodes[i].hash
             after(i) == {j \in DOMAIN h.nodes :
                            hash(j) % c = hash(i) % c /\ Before(h, i, j)}
             node(i) == [hash |-> hash(i), value |-> h.nodes[i].value,
                         bucket |-> hash(i) % c, depth |-> Cardinality(after(i))]
             nodes == [i \in DOMAIN h.nodes |-> node(i)]
             r == Rehash(h, fold)
  <2>1. r = [h EXCEPT !.cap = c, !.fold = fold, !.full = FullOf(c), !.nodes = nodes]
    BY <1>4 DEF Rehash
  <2>2. ASSUME NEW i \in DOMAIN h.nodes
        PROVE  /\ hash(i) \in 0..HashSize - 1
               /\ KeyOf(i) \in Fit => hash(i) = Hash(KeyOf(i), fold)
    <3>1. KeyOf(i) \in Key /\ h.nodes[i].hash \in 0..HashSize - 1
      BY <1>2 DEF Id, KeyOf, Good, Held
    <3>2. KeyOf(i) \in Fit => h.nodes[i].hash = Hash(KeyOf(i), h.fold)
      BY DEF Good, Placed
    <3>3. CASE fold = h.fold
      BY <3>1, <3>2, <3>3
    <3>4. CASE KeyOf(i) \notin Text
      BY <3>1, <3>2, <3>4, NumberHash
    <3>5. CASE Restyle /\ KeyOf(i) \in Text
      <4>1. KeyOf(i) \notin Fit
        BY <3>5, HashtableAssumption DEF Fit
      <4> QED BY <1>1, <3>1, <4>1, HashTyped
    <3> QED BY <3>3, <3>4, <3>5
  <2>3. ASSUME NEW i \in DOMAIN h.nodes
        PROVE  node(i) \in [hash : Nat, value : Value, bucket : Nat, depth : Int]
    <3>1. h.nodes[i] \in [hash : Nat, value : Value, bucket : Nat, depth : Int]
      BY <1>2
    <3>2. hash(i) \in Nat /\ h.nodes[i].value \in Value
      <4>1. hash(i) \in 0..HashSize - 1
        BY <2>2
      <4> HIDE DEF hash
      <4> QED BY <3>1, <4>1, HashtableAssumption
    <3>3. hash(i) % c \in Nat
      <4> HIDE DEF hash
      <4>1. c \in Nat /\ c > 0
        BY <1>1
      <4> QED BY <3>2, <4>1
    <3>4. Cardinality(after(i)) \in Int
      <4>1. IsFiniteSet(DOMAIN h.nodes) /\ after(i) \subseteq DOMAIN h.nodes
        BY DEF Good, Counted
      <4>2. IsFiniteSet(after(i))
        BY <4>1, FS_Subset
      <4> HIDE DEF after
      <4>3. Cardinality(after(i)) \in Nat
        BY <4>2, FS_CardinalityType
      <4> QED BY <4>3
    <3> HIDE DEF hash, after, c
    <3> QED BY <3>2, <3>3, <3>4
  <2>4. nodes \in [DOMAIN h.nodes -> [hash : Nat, value : Value, bucket : Nat, depth : Int]]
    <3> HIDE DEF node
    <3> QED BY <2>3
  <2>5. \A i \in DOMAIN h.nodes :
          /\ KeyOf(i) \in Fit => nodes[i].hash = Hash(KeyOf(i), fold)
          /\ nodes[i].bucket = nodes[i].hash % c
          /\ nodes[i].hash \in 0..HashSize - 1 /\ nodes[i].bucket \in 0..c - 1
    <3>1. \A i \in DOMAIN h.nodes : nodes[i].hash = hash(i) /\ nodes[i].bucket = hash(i) % c
      OBVIOUS
    <3>2. c \in Nat /\ c > 0
      BY <1>1
    <3> HIDE DEF hash, nodes, c
    <3>3. \A n \in 0..HashSize - 1 : n % c \in 0..c - 1
      BY <3>2, HashtableAssumption
    <3> QED BY <3>1, <3>3, <2>2
  <2>6. DOMAIN nodes = DOMAIN h.nodes
    OBVIOUS
  <2>7. c \in Nat /\ c >= 1 /\ FullOf(c) \in Nat
    BY <1>1 DEF FullOf
  <2> HIDE DEF nodes, c
  <2>8. /\ r.nodes = nodes /\ r.table = TRUE /\ r.cap = c /\ r.sz = h.sz
        /\ r.full = FullOf(c) /\ r.fold = fold /\ r.multiples = h.multiples
    BY <2>1, <1>1, <1>4 DEF Table
  <2>9. r \in Table
    <3>1. r = [nodes |-> nodes, table |-> h.table, cap |-> c, sz |-> h.sz, full |-> FullOf(c),
               fold |-> fold, multiples |-> h.multiples]
      BY <2>1, <1>1 DEF Table
    <3>2. nodes \in UNION {[S -> [hash : Nat, value : Value, bucket : Nat, depth : Int]] :
                             S \in SUBSET Id}
      BY <2>4, <1>2
    <3>3. h.multiples \in BOOLEAN
      BY <1>1 DEF Table
    <3> QED BY <3>1, <3>2, <3>3, <2>7, <1>1 DEF Table
  <2> HIDE DEF r
  <2>10. Placed(r)
    BY <2>5, <2>6, <2>8 DEF Placed
  <2>11. Counted(r)
    BY <2>6, <2>8 DEF Good, Counted
  <2>12. Held(r)
    BY <2>5, <2>6, <2>7, <2>8 DEF Held
  <2> QED BY <2>6, <2>8, <2>9, <2>10, <2>11, <2>12 DEF Good, r
<1> QED BY <1>1, <1>3, <1>4

\* A new node goes to the chain of the number by which it was looked up, which
\* is chosen after growth.
LEMMA InsertGood ==
  ASSUME NEW h, Good(h), NEW k \in Key, NEW v \in Value,
         NEW code \in Nat, k \in Fit => code = Hash(k, h.fold),
         \E i \in {k} \X (1..Copies) : i \notin DOMAIN h.nodes
  PROVE  Good(Insert(h, k, v, code))
<1> DEFINE g == IF h.sz = h.full THEN Rehash(h, h.fold) ELSE h
           b == code % g.cap
           new == CHOOSE i \in {k} \X (1..Copies) : i \notin DOMAIN g.nodes
           added == [hash |-> Hash(k, g.fold), value |-> v, bucket |-> b, depth |-> 0]
           S == DOMAIN g.nodes \cup {new}
           moved(i) == [g.nodes[i] EXCEPT !.depth = IF g.nodes[i].bucket = b THEN @ + 1 ELSE @]
           nodes == [i \in S |-> IF i = new THEN added ELSE moved(i)]
           r == Insert(h, k, v, code)
           Row == [hash : Nat, value : Value, bucket : Nat, depth : Int]
<1>1. h.fold \in BOOLEAN /\ h \in Table
  BY DEF Good, Table
<1>2. Good(g) /\ DOMAIN g.nodes = DOMAIN h.nodes /\ g.fold = h.fold /\ g.table
  <2>1. CASE h.sz = h.full
    BY <2>1, <1>1, RehashGood
  <2>2. CASE h.sz # h.full
    BY <2>2 DEF Good, Held, Table
  <2> QED BY <2>1, <2>2
<1> HIDE DEF g
<1>3. r = [g EXCEPT !.sz = @ + 1, !.nodes = nodes]
  BY DEF Insert, g
<1>4. /\ g \in Table /\ g.cap \in Nat /\ g.cap >= 1 /\ g.sz \in Nat /\ g.full \in Nat
      /\ g.fold \in BOOLEAN /\ g.multiples \in BOOLEAN
  BY <1>2 DEF Good, Table, Held
<1>5. DOMAIN g.nodes \subseteq Id /\ g.nodes \in [DOMAIN g.nodes -> Row]
  BY <1>4, NodeTyped
<1>6. new \in {k} \X (1..Copies) /\ new \notin DOMAIN g.nodes
  BY <1>2
<1>7. new \in Id /\ KeyOf(new) = k
  BY <1>6 DEF Id, KeyOf
<1>8. /\ b \in Nat /\ b \in 0..g.cap - 1
      /\ Hash(k, g.fold) \in Nat /\ Hash(k, g.fold) \in 0..HashSize - 1
      /\ k \in Fit => Hash(k, g.fold) = code
  BY <1>2, <1>4, HashTyped
<1> HIDE DEF new, b
<1>9. added \in Row /\ added.hash = Hash(k, g.fold) /\ added.bucket = b
  BY <1>8
<1>10. ASSUME NEW i \in DOMAIN g.nodes
       PROVE  /\ moved(i) \in Row
              /\ moved(i).hash = g.nodes[i].hash /\ moved(i).bucket = g.nodes[i].bucket
  <2>1. g.nodes[i] \in Row
    BY <1>5
  <2> QED BY <2>1
<1>11. nodes \in [S -> Row] /\ S \in SUBSET Id
  <2> HIDE DEF moved, added, Row
  <2> QED BY <1>5, <1>7, <1>9, <1>10
<1>12. \A i \in S : /\ KeyOf(i) \in Fit => /\ nodes[i].hash = Hash(KeyOf(i), g.fold)
                                             /\ nodes[i].bucket = nodes[i].hash % g.cap
                    /\ nodes[i].hash \in 0..HashSize - 1 /\ nodes[i].bucket \in 0..g.cap - 1
  <2>1. \A i \in DOMAIN g.nodes :
          /\ KeyOf(i) \in Fit => /\ g.nodes[i].hash = Hash(KeyOf(i), g.fold)
                                 /\ g.nodes[i].bucket = g.nodes[i].hash % g.cap
          /\ g.nodes[i].hash \in 0..HashSize - 1 /\ g.nodes[i].bucket \in 0..g.cap - 1
    BY <1>2 DEF Good, Placed, Held
  <2>2. b = code % g.cap
    BY DEF b
  <2> HIDE DEF moved, added
  <2> QED BY <2>1, <2>2, <1>6, <1>7, <1>8, <1>9, <1>10
<1>13. DOMAIN nodes = S
  OBVIOUS
<1>14. IsFiniteSet(S) /\ Cardinality(S) = g.sz + 1
  BY <1>2, <1>6, FS_AddElement DEF Good, Counted
<1> HIDE DEF nodes, S
<1>15. r = [nodes |-> nodes, table |-> g.table, cap |-> g.cap, sz |-> g.sz + 1,
            full |-> g.full, fold |-> g.fold, multiples |-> g.multiples]
  BY <1>3, <1>4 DEF Table
<1>16. r \in Table
  <2>1. nodes \in UNION {[T -> Row] : T \in SUBSET Id}
    BY <1>11
  <2> QED BY <2>1, <1>2, <1>4, <1>15 DEF Table
<1>17. Placed(r)
  BY <1>12, <1>13, <1>15 DEF Placed
<1>18. Counted(r)
  BY <1>13, <1>14, <1>15 DEF Counted
<1>19. Held(r)
  <2>1. r.cap = g.cap /\ r.table = TRUE /\ r.nodes = nodes
    BY <1>2, <1>4, <1>15 DEF Table
  <2> HIDE DEF r
  <2> QED BY <1>4, <1>12, <1>13, <2>1 DEF Held
<1> QED BY <1>16, <1>17, <1>18, <1>19 DEF Good

\* Another value of a node changes nothing of this.
LEMMA PutAtGood ==
  ASSUME NEW h, Good(h), NEW k \in Key, NEW v \in Value, NEW there,
         NEW code \in Nat, k \in Fit => code = Hash(k, h.fold),
         \E i \in {k} \X (1..Copies) : i \notin DOMAIN h.nodes
  PROVE  Good(PutAt(h, k, v, code, there))
<1>1. CASE ~(there # {} /\ ~h.multiples)
  BY <1>1, InsertGood DEF PutAt
<1>2. CASE there # {} /\ ~h.multiples
  <2> DEFINE i == FirstOf(h, there)
             nodes == [h.nodes EXCEPT ![i].value = v]
             r == PutAt(h, k, v, code, there)
             Row == [hash : Nat, value : Value, bucket : Nat, depth : Int]
  <2>1. h \in Table /\ DOMAIN h.nodes \in SUBSET Id /\ h.nodes \in [DOMAIN h.nodes -> Row]
    BY NodeTyped DEF Good
  <2>2. r = [h EXCEPT !.nodes = nodes]
    BY <1>2, <2>1 DEF PutAt, Table
  <2> HIDE DEF i
  <2>3. ASSUME NEW j \in DOMAIN h.nodes
        PROVE  /\ nodes[j] \in Row
               /\ nodes[j].hash = h.nodes[j].hash /\ nodes[j].bucket = h.nodes[j].bucket
    <3>1. h.nodes[j] \in Row
      BY <2>1
    <3>2. nodes[j] = IF j = i THEN [h.nodes[j] EXCEPT !.value = v] ELSE h.nodes[j]
      BY <2>1
    <3> QED BY <3>1, <3>2
  <2>4. DOMAIN nodes = DOMAIN h.nodes /\ nodes \in [DOMAIN h.nodes -> Row]
    <3>1. nodes = [j \in DOMAIN h.nodes |-> nodes[j]]
      BY <2>1
    <3> HIDE DEF nodes
    <3> QED BY <2>3, <3>1
  <2> HIDE DEF nodes
  <2>5. r = [nodes |-> nodes, table |-> h.table, cap |-> h.cap, sz |-> h.sz,
             full |-> h.full, fold |-> h.fold, multiples |-> h.multiples]
    BY <2>1, <2>2 DEF Table
  <2>6. r \in Table
    <3>1. nodes \in UNION {[T -> Row] : T \in SUBSET Id}
      BY <2>1, <2>4
    <3> QED BY <3>1, <2>1, <2>5 DEF Table
  <2>7. Placed(r) /\ Counted(r) /\ Held(r)
    BY <2>3, <2>4, <2>5 DEF Good, Placed, Counted, Held
  <2> QED BY <2>6, <2>7 DEF Good
<1> QED BY <1>1, <1>2

LEMMA UnlinkGood ==
  ASSUME NEW h, Good(h), NEW i \in DOMAIN h.nodes
  PROVE  Good(Unlink(h, i))
<1> DEFINE S == DOMAIN h.nodes \ {i}
           moved(j) == [h.nodes[j] EXCEPT !.depth =
             IF h.nodes[j].bucket = h.nodes[i].bucket /\ @ > h.nodes[i].depth THEN @ - 1 ELSE @]
           nodes == [j \in S |-> moved(j)]
           r == Unlink(h, i)
           Row == [hash : Nat, value : Value, bucket : Nat, depth : Int]
<1>1. h \in Table /\ DOMAIN h.nodes \in SUBSET Id /\ h.nodes \in [DOMAIN h.nodes -> Row]
  BY NodeTyped DEF Good
<1>2. r = [h EXCEPT !.sz = @ - 1, !.nodes = nodes]
  BY DEF Unlink
<1>3. ASSUME NEW j \in S
      PROVE  /\ moved(j) \in Row
             /\ moved(j).hash = h.nodes[j].hash /\ moved(j).bucket = h.nodes[j].bucket
  <2>1. h.nodes[j] \in Row /\ h.nodes[i] \in Row
    BY <1>1
  <2> QED BY <2>1
<1>4. DOMAIN nodes = S /\ nodes \in [S -> Row] /\ S \in SUBSET Id
      /\ \A j \in S : nodes[j].hash = h.nodes[j].hash /\ nodes[j].bucket = h.nodes[j].bucket
  <2> HIDE DEF moved
  <2> QED BY <1>1, <1>3
<1>5. IsFiniteSet(S) /\ Cardinality(S) = h.sz - 1 /\ h.sz - 1 \in Nat
  <2>1. IsFiniteSet(DOMAIN h.nodes) /\ h.sz = Cardinality(DOMAIN h.nodes)
    BY DEF Good, Counted
  <2>2. IsFiniteSet(S) /\ Cardinality(S) = Cardinality(DOMAIN h.nodes) - 1
    BY <2>1, FS_RemoveElement
  <2>3. Cardinality(S) \in Nat
    BY <2>2, FS_CardinalityType
  <2> QED BY <2>1, <2>2, <2>3
<1> HIDE DEF nodes
<1>6. r = [nodes |-> nodes, table |-> h.table, cap |-> h.cap, sz |-> h.sz - 1,
           full |-> h.full, fold |-> h.fold, multiples |-> h.multiples]
  BY <1>1, <1>2 DEF Table
<1>7. r \in Table
  <2>1. nodes \in UNION {[T -> Row] : T \in SUBSET Id}
    BY <1>4
  <2> QED BY <2>1, <1>1, <1>5, <1>6 DEF Table
<1>8. Placed(r)
  BY <1>4, <1>6 DEF Good, Placed
<1>9. Counted(r)
  BY <1>4, <1>5, <1>6 DEF Counted
<1>10. h.sz # 0
  BY FS_EmptySet DEF Good, Counted
<1>11. Held(r)
  <2>1. h.table
    BY <1>10 DEF Good, Held
  <2>2. r.cap = h.cap /\ r.table = h.table /\ r.nodes = nodes
    BY <1>6
  <2>3. \A j \in S : nodes[j].hash = h.nodes[j].hash /\ nodes[j].bucket = h.nodes[j].bucket
    BY <1>4
  <2> HIDE DEF r
  <2> QED BY <1>4, <2>1, <2>2, <2>3 DEF Good, Held
<1> QED BY <1>7, <1>8, <1>9, <1>11 DEF Good

LEMMA RemoveAllGood ==
  ASSUME NEW h, Good(h)
  PROVE  Good(RemoveAll(h))
<1> DEFINE none == [i \in {} |-> 0]
           r == RemoveAll(h)
<1>1. none \in UNION {[S -> [hash : Nat, value : Value, bucket : Nat, depth : Int]] :
                        S \in SUBSET Id}
  <2>1. none \in [{} -> [hash : Nat, value : Value, bucket : Nat, depth : Int]]
    OBVIOUS
  <2> HIDE DEF none
  <2>2. {} \in SUBSET Id
    OBVIOUS
  <2> QED BY <2>1, <2>2
<1>2. DOMAIN none = {} /\ IsFiniteSet({}) /\ Cardinality({}) = 0
  BY FS_EmptySet
<1>3. r = [nodes |-> none, table |-> FALSE, cap |-> 11, sz |-> 0,
           full |-> 0, fold |-> h.fold, multiples |-> h.multiples]
  <2>1. r = [h EXCEPT !.nodes = none, !.table = FALSE, !.cap = 11, !.sz = 0, !.full = 0]
    BY DEF RemoveAll
  <2>2. h \in Table
    BY DEF Good
  <2> HIDE DEF none, r
  <2> QED BY <2>1, <2>2 DEF Table
<1> HIDE DEF none
<1>4. h.fold \in BOOLEAN /\ h.multiples \in BOOLEAN
  BY DEF Good, Table
<1>5. r \in Table
  BY <1>1, <1>3, <1>4 DEF Table
<1> QED BY <1>2, <1>3, <1>5 DEF Good, Placed, Counted, Held

\* No node depends on whether keys can have several, nor an empty table on
\* whether case counts.
LEMMA StyleGood ==
  ASSUME NEW h, Good(h), NEW b \in BOOLEAN
  PROVE  /\ Good([h EXCEPT !.multiples = b])
         /\ h.sz = 0 => Good([h EXCEPT !.fold = b])
<1>1. h \in Table /\ h.nodes \in UNION {[S -> [hash : Nat, value : Value, bucket : Nat, depth : Int]] :
                                          S \in SUBSET Id}
  BY DEF Good, Table
<1>2. ASSUME NEW f \in BOOLEAN, NEW m \in BOOLEAN, f = h.fold \/ h.sz = 0,
             NEW r, r = [nodes |-> h.nodes, table |-> h.table, cap |-> h.cap, sz |-> h.sz,
                         full |-> h.full, fold |-> f, multiples |-> m]
      PROVE  Good(r)
  <2>1. r \in Table
    BY <1>1, <1>2 DEF Table
  <2>2. h.sz = 0 => DOMAIN h.nodes = {}
    BY FS_EmptySet DEF Good, Counted
  <2>3. Counted(r) /\ Held(r)
    BY <1>2, <2>2 DEF Good, Counted, Held
  <2>4. Placed(r)
    BY <1>2, <2>2 DEF Good, Placed
  <2> QED BY <2>1, <2>3, <2>4 DEF Good
<1>3. [h EXCEPT !.multiples = b] =
        [nodes |-> h.nodes, table |-> h.table, cap |-> h.cap, sz |-> h.sz,
         full |-> h.full, fold |-> h.fold, multiples |-> b]
  BY <1>1 DEF Table
<1>4. [h EXCEPT !.fold = b] =
        [nodes |-> h.nodes, table |-> h.table, cap |-> h.cap, sz |-> h.sz,
         full |-> h.full, fold |-> b, multiples |-> h.multiples]
  BY <1>1 DEF Table
<1>5. h.fold \in BOOLEAN /\ h.multiples \in BOOLEAN
  BY <1>1 DEF Table
<1> QED BY <1>2, <1>3, <1>4, <1>5

\* What a good table gives.
LEMMA GoodFinds ==
  ASSUME NEW h, Good(h), NEW i \in DOMAIN h.nodes, KeyOf(i) \in Fit
  PROVE  i \in Get(h, KeyOf(i))
<1>1. h \in Table /\ DOMAIN h.nodes \subseteq Id /\ h.fold \in BOOLEAN /\ h.sz \in Nat
  BY NodeTyped DEF Good, Table
<1>2. KeyOf(i) \in Key
  BY <1>1 DEF Id, KeyOf
<1>3. Code(KeyOf(i), h.fold) = Hash(KeyOf(i), h.fold)
  BY <1>1, <1>2, CodeIsHash
<1>4. h.sz > 0
  <2>1. h.sz # 0
    BY FS_EmptySet DEF Good, Counted
  <2> QED BY <2>1, <1>1
<1>5. h.nodes[i].hash = Hash(KeyOf(i), h.fold) /\ h.nodes[i].bucket = h.nodes[i].hash % h.cap
  BY DEF Good, Placed
<1> QED BY <1>3, <1>4, <1>5 DEF Get, Chained, SameKey

LEMMA InitGood ==
  ASSUME Init
  PROVE  Good(ht)
<1> DEFINE none == [i \in {} |-> 0]
<1>1. none \in UNION {[S -> [hash : Nat, value : Value, bucket : Nat, depth : Int]] :
                        S \in SUBSET Id}
  <2>1. none \in [{} -> [hash : Nat, value : Value, bucket : Nat, depth : Int]]
    OBVIOUS
  <2> HIDE DEF none
  <2>2. {} \in SUBSET Id
    OBVIOUS
  <2> QED BY <2>1, <2>2
<1>2. DOMAIN none = {} /\ IsFiniteSet({}) /\ Cardinality({}) = 0
  BY FS_EmptySet
<1>3. ht = [nodes |-> none, table |-> FALSE, cap |-> Cap, sz |-> 0,
            full |-> 0, fold |-> FALSE, multiples |-> FALSE]
  BY DEF Init
<1> HIDE DEF none
<1>4. ht \in Table
  BY <1>1, <1>3, HashtableAssumption DEF Table
<1> QED BY <1>2, <1>3, <1>4, HashtableAssumption DEF Good, Placed, Counted, Held

\* put() and an entry of a merge are PutAt, with a number to look up by that is
\* the key's hash if the key fits; neither overlooks a node of that very key.
LEMMA PutsAt ==
  ASSUME Good(ht), NEW k \in Key, NEW v \in Value, put(k, v) \/ mergeTable(k, v)
  PROVE  \E code \in Nat, there \in SUBSET DOMAIN ht.nodes :
           /\ k \in Fit => code = Hash(k, ht.fold)
           /\ k \in Fit => \A i \in DOMAIN ht.nodes : KeyOf(i) = k => i \in there
           /\ Becomes(PutAt(ht, k, v, code, there))
           /\ \E i \in {k} \X (1..Copies) : i \notin DOMAIN ht.nodes
<1>1. ht.fold \in BOOLEAN
  BY DEF Good, Table
<1>2. ASSUME put(k, v)
      PROVE  Becomes(PutAt(ht, k, v, Code(k, ht.fold), Get(ht, k)))
  BY <1>2 DEF put, Put
<1>3. ASSUME mergeTable(k, v)
      PROVE  Becomes(PutAt(ht, k, v, Hash(k, ht.fold), Chained(ht, k, Hash(k, ht.fold), FALSE)))
  BY <1>3 DEF mergeTable, PutNode
<1>4. /\ Get(ht, k) \in SUBSET DOMAIN ht.nodes
      /\ Chained(ht, k, Hash(k, ht.fold), FALSE) \in SUBSET DOMAIN ht.nodes
  BY DEF Get, Chained
<1>5. \E i \in {k} \X (1..Copies) : i \notin DOMAIN ht.nodes
  BY DEF put, mergeTable, Room
<1>6. /\ Code(k, ht.fold) \in Nat /\ Hash(k, ht.fold) \in Nat
      /\ k \in Fit => Code(k, ht.fold) = Hash(k, ht.fold)
  BY <1>1, CodeIsHash, HashTyped
<1>7. ASSUME k \in Fit, NEW i \in DOMAIN ht.nodes, KeyOf(i) = k
      PROVE  i \in Get(ht, k) /\ i \in Chained(ht, k, Hash(k, ht.fold), FALSE)
  <2>1. i \in Get(ht, k)
    BY <1>7, GoodFinds
  <2> QED BY <1>6, <1>7, <2>1 DEF Get, Chained, SameKey
<1>8. CASE put(k, v)
  BY <1>2, <1>4, <1>5, <1>6, <1>7, <1>8
<1>9. CASE mergeTable(k, v)
  BY <1>3, <1>4, <1>5, <1>6, <1>7, <1>9
<1> QED BY <1>8, <1>9

\* Every call leaves a good table.
LEMMA NextGood ==
  ASSUME Good(ht), [Next]_vars
  PROVE  Good(ht')
<1>1. ASSUME NEW k \in Key, NEW v \in Value, put(k, v) \/ mergeTable(k, v)
      PROVE  Good(ht')
  <2>1. PICK code \in Nat, there \in SUBSET DOMAIN ht.nodes :
          /\ k \in Fit => code = Hash(k, ht.fold)
          /\ Becomes(PutAt(ht, k, v, code, there))
          /\ \E i \in {k} \X (1..Copies) : i \notin DOMAIN ht.nodes
    BY <1>1, PutsAt
  <2>2. ht' = PutAt(ht, k, v, code, there)
    BY <2>1 DEF Becomes
  <2>3. Good(PutAt(ht, k, v, code, there))
    BY <2>1, PutAtGood
  <2> QED BY <2>2, <2>3
<1>2. ASSUME NEW k \in Key, NEW values, remove(k, values)
      PROVE  Good(ht')
  <2>1. PICK i \in Get(ht, k) : ht' = Unlink(ht, i)
    BY <1>2 DEF remove
  <2>2. i \in DOMAIN ht.nodes
    BY <2>1 DEF Get, Chained
  <2> QED BY <2>1, <2>2, UnlinkGood
<1>3. ASSUME removeAll
      PROVE  Good(ht')
  BY <1>3, RemoveAllGood DEF removeAll
<1>4. ASSUME NEW b \in BOOLEAN, setCaseInsensitiveKeys(b)
      PROVE  Good(ht')
  <2>1. Restyle \/ \A i \in DOMAIN ht.nodes : KeyOf(i) \notin Text
    BY <1>4 DEF setCaseInsensitiveKeys
  <2>2. CASE ht.sz > 0
    <3>1. ht' = Rehash(ht, b)
      BY <1>4, <2>2 DEF setCaseInsensitiveKeys, Becomes
    <3> QED BY <3>1, <2>1, RehashGood
  <2>3. CASE ~(ht.sz > 0)
    <3>1. ht' = [ht EXCEPT !.fold = b]
      BY <1>4, <2>3 DEF setCaseInsensitiveKeys, Becomes
    <3>2. ht.sz = 0
      BY <2>3 DEF Good, Table
    <3> QED BY <3>1, <3>2, StyleGood
  <2> QED BY <2>2, <2>3
<1>5. ASSUME NEW b \in BOOLEAN, setAllowKeyMultiples(b)
      PROVE  Good(ht')
  <2>1. ht' = [ht EXCEPT !.multiples = b]
    BY <1>5 DEF setAllowKeyMultiples, Becomes
  <2> QED BY <2>1, StyleGood
<1>6. ASSUME iteratorRemove
      PROVE  Good(ht')
  <2>1. at \in DOMAIN ht.nodes /\ ht' = Unlink(ht, at)
    BY <1>6 DEF iteratorRemove, Chain
  <2> QED BY <2>1, UnlinkGood
<1>7. CASE UNCHANGED ht
  BY <1>7
<1>8. ASSUME IteratorStep
      PROVE  UNCHANGED ht \/ iteratorRemove
  BY <1>8 DEF IteratorStep, iterate, first, last, next, previous, Begins
<1>9. CASE TableStep
  BY <1>1, <1>2, <1>3, <1>4, <1>5, <1>9 DEF TableStep
<1>10. CASE IteratorStep
  BY <1>6, <1>7, <1>8, <1>10
<1>11. CASE UNCHANGED vars
  BY <1>11 DEF vars
<1> QED BY <1>9, <1>10, <1>11 DEF Next

\* Whatever else is in the table, wide integers and texts that a change of the
\* style left behind among it: every key that fits is found by every lookup,
\* over growth, merges and removals.
THEOREM FittingKeysAreFound ==
  Spec => [](\A i \in DOMAIN ht.nodes : KeyOf(i) \in Fit => i \in Get(ht, KeyOf(i)))
<1>1. Init => Good(ht)
  BY InitGood
<1>2. Good(ht) /\ [Next]_vars => Good(ht)'
  BY NextGood
<1>3. Good(ht) => \A i \in DOMAIN ht.nodes : KeyOf(i) \in Fit => i \in Get(ht, KeyOf(i))
  BY GoodFinds
<1> QED BY <1>1, <1>2, <1>3, PTL DEF Spec

\* If all keys fit a hash_t and the style stays with the texts, every key is
\* found, whatever the capacity.
THEOREM EveryKeyIsFound ==
  ASSUME Narrow
  PROVE  Spec => []Found
<1>1. (\A i \in DOMAIN ht.nodes : KeyOf(i) \in Fit => i \in Get(ht, KeyOf(i)))
        /\ Good(ht) => Found
  BY NarrowFits, NodeTyped DEF Good, Found, Id, KeyOf
<1>2. Init => Good(ht)
  BY InitGood
<1>3. Good(ht) /\ [Next]_vars => Good(ht)'
  BY NextGood
<1> QED BY <1>1, <1>2, <1>3, FittingKeysAreFound, PTL DEF Spec

-----------------------------------------------------------------------------
(* The load.  Here the keys are of no account. *)

\* Growth makes room for one more node.
LEMMA RehashRoomy ==
  ASSUME NEW h \in Table, Roomy(h), NEW fold
  PROVE  LET r == Rehash(h, fold) IN
         Roomy(r) /\ r.table /\ r.sz < r.full /\ r.sz = h.sz
<1>1. h.cap \in Nat /\ h.sz \in Nat
  BY DEF Table
<1>2. CASE ~h.table
  <2> DEFINE r == Rehash(h, fold)
  <2>1. r.table /\ r.cap = h.cap /\ r.sz = 0 /\ r.full = FullOf(h.cap) /\ h.sz = 0
    BY <1>2 DEF Rehash, Table, Roomy
  <2> HIDE DEF r
  <2>2. h.cap >= 2
    BY DEF Roomy
  <2>3. Roomy(r) /\ r.table /\ r.sz < r.full /\ r.sz = h.sz
    BY <1>1, <2>1, <2>2 DEF Roomy, FullOf
  <2> QED BY <2>3 DEF r
<1>3. CASE h.table
  <2> DEFINE r == Rehash(h, fold)
  <2>1. r.table /\ r.cap = 2 * h.cap + 1 /\ r.sz = h.sz /\ r.full = FullOf(2 * h.cap + 1)
    BY <1>3 DEF Rehash, Table
  <2> HIDE DEF r
  <2>2. h.cap >= 2 /\ h.sz <= h.cap \div 2
    BY <1>3 DEF Roomy, FullOf
  <2>3. Roomy(r) /\ r.sz < r.full
    BY <1>1, <2>1, <2>2 DEF Roomy, FullOf
  <2> QED BY <2>1, <2>3 DEF r
<1> QED BY <1>2, <1>3

LEMMA PutAtRoomy ==
  ASSUME NEW h \in Table, Roomy(h), NEW k, NEW v, NEW code, NEW there
  PROVE  Roomy(PutAt(h, k, v, code, there))
<1>1. h.cap \in Nat /\ h.sz \in Nat /\ h.full \in Nat
  BY DEF Table
<1>2. CASE there # {} /\ ~h.multiples
  BY <1>2 DEF PutAt, Table, Roomy
<1>3. CASE ~(there # {} /\ ~h.multiples)
  <2> DEFINE g == IF h.sz = h.full THEN Rehash(h, h.fold) ELSE h
             r == PutAt(h, k, v, code, there)
  <2>1. /\ Roomy(g) /\ g.table /\ g.sz < g.full /\ g.sz = h.sz
        /\ {"sz", "cap", "full", "table", "nodes"} \subseteq DOMAIN g
    <3>1. CASE h.sz = h.full
      <4>1. {"sz", "cap", "full", "table", "nodes"} \subseteq DOMAIN Rehash(h, h.fold)
        BY DEF Rehash, Table
      <4> QED BY <3>1, <4>1, RehashRoomy
    <3>2. CASE h.sz # h.full
      BY <3>2, <1>1 DEF Roomy, Table
    <3> QED BY <3>1, <3>2
  <2>2. r.sz = g.sz + 1 /\ r.cap = g.cap /\ r.full = g.full /\ r.table = g.table
    <3> HIDE DEF g
    <3> QED BY <1>3, <2>1 DEF PutAt, Insert, g
  <2> HIDE DEF g, r
  <2>3. g.full \in Int
    <3>1. g.full = h.full \/ g.full = h.cap \div 2 \/ g.full = (2 * h.cap + 1) \div 2
      BY DEF g, Rehash, Table, FullOf
    <3> QED BY <1>1, <3>1
  <2>4. Roomy(r)
    BY <1>1, <2>1, <2>2, <2>3 DEF Roomy
  <2> QED BY <2>4 DEF r
<1> QED BY <1>2, <1>3

LEMMA NextRoomy ==
  ASSUME Good(ht), Roomy(ht), [Next]_vars
  PROVE  Roomy(ht')
<1>1. ht \in Table /\ ht.sz \in Nat /\ ht.cap \in Nat /\ ht.full \in Nat
  BY DEF Good, Table
<1>2. ASSUME NEW k \in Key, NEW v \in Value, put(k, v) \/ mergeTable(k, v)
      PROVE  Roomy(ht')
  BY <1>1, <1>2, PutAtRoomy DEF put, mergeTable, Put, PutNode, Becomes
<1>3. ASSUME NEW i \in DOMAIN ht.nodes, ht' = Unlink(ht, i)
      PROVE  Roomy(ht')
  <2>1. ht'.sz = ht.sz - 1 /\ ht'.cap = ht.cap /\ ht'.full = ht.full /\ ht'.table = ht.table
    BY <1>1, <1>3 DEF Unlink, Table
  <2>2. ht.sz # 0
    BY FS_EmptySet DEF Good, Counted
  <2> QED BY <1>1, <2>1, <2>2 DEF Roomy
<1>4. ASSUME NEW k \in Key, NEW values, remove(k, values)
      PROVE  Roomy(ht')
  <2>1. PICK i \in Get(ht, k) : ht' = Unlink(ht, i)
    BY <1>4 DEF remove
  <2>2. i \in DOMAIN ht.nodes
    BY <2>1 DEF Get, Chained
  <2> QED BY <1>3, <2>1, <2>2
<1>5. ASSUME removeAll
      PROVE  Roomy(ht')
  BY <1>1, <1>5 DEF removeAll, RemoveAll, Table, Roomy
<1>6. ASSUME NEW b \in BOOLEAN, setCaseInsensitiveKeys(b)
      PROVE  Roomy(ht')
  <2>1. CASE ht.sz > 0
    BY <1>1, <1>6, <2>1, RehashRoomy DEF setCaseInsensitiveKeys, Becomes
  <2>2. CASE ~(ht.sz > 0)
    BY <1>1, <1>6, <2>2 DEF setCaseInsensitiveKeys, Becomes, Table, Roomy
  <2> QED BY <2>1, <2>2
<1>7. ASSUME NEW b \in BOOLEAN, setAllowKeyMultiples(b)
      PROVE  Roomy(ht')
  BY <1>1, <1>7 DEF setAllowKeyMultiples, Becomes, Table, Roomy
<1>8. ASSUME IteratorStep
      PROVE  Roomy(ht')
  <2>1. UNCHANGED ht \/ iteratorRemove
    BY <1>8 DEF IteratorStep, iterate, first, last, next, previous, Begins
  <2>2. ASSUME iteratorRemove PROVE Roomy(ht')
    BY <1>3, <2>2 DEF iteratorRemove, Chain
  <2>3. CASE UNCHANGED ht
    BY <2>3
  <2> QED BY <2>1, <2>2, <2>3
<1>9. CASE TableStep
  BY <1>2, <1>4, <1>5, <1>6, <1>7, <1>9 DEF TableStep
<1>10. CASE UNCHANGED vars
  BY <1>10 DEF vars
<1> QED BY <1>8, <1>9, <1>10 DEF Next

\* A table of two chains or more never holds more than its load, whatever the
\* keys: what removals take away is counted, and a change of style that makes
\* it larger makes room as well.
THEOREM TheTableGrowsInTime ==
  ASSUME Cap >= 2
  PROVE  Spec => []GrowsInTime
<1>1. Init => Good(ht) /\ Roomy(ht)
  <2>1. Init => Roomy(ht)
    BY DEF Init, Roomy
  <2> QED BY <2>1, InitGood
<1>2. Good(ht) /\ Roomy(ht) /\ [Next]_vars => (Good(ht) /\ Roomy(ht))'
  BY NextGood, NextRoomy
<1>3. Good(ht) /\ Roomy(ht) => GrowsInTime
  BY DEF Good, Table, Roomy, GrowsInTime
<1> QED BY <1>1, <1>2, <1>3, PTL DEF Spec

-----------------------------------------------------------------------------
(* The order of a chain. *)

\* No two nodes of a chain have the same depth.
Apart(h) ==
  /\ \A i \in DOMAIN h.nodes : h.nodes[i].depth \in Nat
  /\ \A i, j \in DOMAIN h.nodes :
       i # j /\ h.nodes[i].bucket = h.nodes[j].bucket =>
         h.nodes[i].depth # h.nodes[j].depth

\* No depth of a chain is left out: a node that is not the head of its chain
\* has another one before it.
Linked(h) ==
  \A i \in DOMAIN h.nodes : h.nodes[i].depth > 0 =>
    \E j \in DOMAIN h.nodes : /\ h.nodes[j].bucket = h.nodes[i].bucket
                              /\ h.nodes[j].depth = h.nodes[i].depth - 1

Ordered(h) == Apart(h) /\ Linked(h)

\* The nodes that are in both tables follow each other in the same way.
Kept(h, g) ==
  \A i, j \in DOMAIN h.nodes \cap DOMAIN g.nodes :
    /\ g.nodes[i].bucket = h.nodes[i].bucket
    /\ Before(g, i, j) <=> Before(h, i, j)

\* A set of numbers that is not empty has a least one.
LEMMA LeastNumber ==
  ASSUME NEW T \in SUBSET Nat, T # {}
  PROVE  \E m \in T : \A n \in T : m <= n
<1> DEFINE R == {p \in Nat \X Nat : p[1] < p[2]}
<1>1. IsWellFoundedOn(R, Nat)
  BY NatLessThanWellFounded DEF OpToRel
<1>2. PICK m \in T : \A n \in T : <<n, m>> \notin R
  <2> HIDE DEF R
  <2> QED BY <1>1, WFMin
<1>3. ASSUME NEW n \in T PROVE m <= n
  <2>1. n < m => <<n, m>> \in R
    OBVIOUS
  <2> QED BY <1>2, <2>1
<1> QED
  BY <1>3

\* Of the nodes that a call looks at, one comes first.
LEMMA FirstIsThere ==
  ASSUME NEW h, Good(h), Ordered(h), NEW S \in SUBSET DOMAIN h.nodes, S # {}
  PROVE  FirstOf(h, S) \in S /\ \A j \in S \ {FirstOf(h, S)} : Before(h, FirstOf(h, S), j)
<1> DEFINE B == {h.nodes[i].bucket : i \in S}
<1>1. \A i \in S : h.nodes[i].bucket \in Nat /\ h.nodes[i].depth \in Nat
  BY NodeTyped DEF Good, Ordered, Apart
<1>2. PICK b \in B : \A c \in B : b <= c
  <2>1. B \in SUBSET Nat /\ B # {}
    BY <1>1
  <2> HIDE DEF B
  <2> QED BY <2>1, LeastNumber
<1> DEFINE C == {i \in S : h.nodes[i].bucket = b}
           D == {h.nodes[i].depth : i \in C}
<1>3. PICK d \in D : \A e \in D : d <= e
  <2>1. D \in SUBSET Nat /\ D # {}
    BY <1>1
  <2> HIDE DEF D
  <2> QED BY <2>1, LeastNumber
<1>4. PICK i \in S : h.nodes[i].bucket = b /\ h.nodes[i].depth = d
  OBVIOUS
<1>5. ASSUME NEW j \in S \ {i}
      PROVE  Before(h, i, j)
  <2>1. b <= h.nodes[j].bucket
    BY <1>2
  <2>2. h.nodes[j].bucket = b => d <= h.nodes[j].depth
    BY <1>3
  <2>3. h.nodes[j].bucket = b => d # h.nodes[j].depth
    BY <1>4 DEF Ordered, Apart
  <2>4. h.nodes[j].bucket \in Nat /\ h.nodes[j].depth \in Nat /\ b \in Nat /\ d \in Nat
    BY <1>1, <1>4
  <2> HIDE DEF B, C, D
  <2> QED BY <1>4, <2>1, <2>2, <2>3, <2>4 DEF Before
<1> QED
  BY <1>5 DEF FirstOf

\* Of two nodes of a table one comes before the other, and what comes after the
\* other comes after the one.
LEMMA BeforeOrders ==
  ASSUME NEW h, Good(h), Ordered(h)
  PROVE  /\ \A i, j \in DOMAIN h.nodes : i # j => Before(h, i, j) \/ Before(h, j, i)
         /\ \A i \in DOMAIN h.nodes : ~Before(h, i, i)
         /\ \A i, j, k \in DOMAIN h.nodes :
              Before(h, i, j) /\ Before(h, j, k) => Before(h, i, k)
<1>1. \A i \in DOMAIN h.nodes : h.nodes[i].bucket \in Nat /\ h.nodes[i].depth \in Nat
  BY NodeTyped DEF Good, Ordered, Apart
<1>2. \A i, j \in DOMAIN h.nodes : i # j => Before(h, i, j) \/ Before(h, j, i)
  BY <1>1 DEF Ordered, Apart, Before
<1>3. \A i \in DOMAIN h.nodes : ~Before(h, i, i)
  BY <1>1 DEF Before
<1>4. \A i, j, k \in DOMAIN h.nodes :
        Before(h, i, j) /\ Before(h, j, k) => Before(h, i, k)
  BY <1>1 DEF Before
<1> QED
  BY <1>2, <1>3, <1>4

-----------------------------------------------------------------------------
(* What each operation does to the nodes: their names, values and order. *)

\* Growth keeps the values and counts the depths anew.
LEMMA RehashKeeps ==
  ASSUME NEW h, Good(h), Ordered(h), NEW fold \in BOOLEAN
  PROVE  LET r == Rehash(h, fold) IN
         /\ DOMAIN r.nodes = DOMAIN h.nodes
         /\ \A i \in DOMAIN h.nodes : r.nodes[i].value = h.nodes[i].value
         /\ Ordered(r)
<1>1. h \in Table
  BY DEF Good
<1>2. CASE ~h.table
  <2>1. Rehash(h, fold) = [h EXCEPT !.table = TRUE, !.sz = 0, !.fold = fold, !.full = FullOf(h.cap)]
    BY <1>2 DEF Rehash
  <2>2. Rehash(h, fold).nodes = h.nodes
    BY <1>1, <2>1 DEF Table
  <2> QED BY <2>2 DEF Ordered, Apart, Linked
<1>3. CASE h.table
  <2> DEFINE c == 2 * h.cap + 1
             hash(i) == IF fold # h.fold /\ KeyOf(i) \in Text
                        THEN Hash(KeyOf(i), h.fold) ELSE h.nodes[i].hash
             after(i) == {j \in DOMAIN h.nodes :
                            hash(j) % c = hash(i) % c /\ Before(h, i, j)}
             node(i) == [hash |-> hash(i), value |-> h.nodes[i].value,
                         bucket |-> hash(i) % c, depth |-> Cardinality(after(i))]
             nodes == [i \in DOMAIN h.nodes |-> node(i)]
             r == Rehash(h, fold)
  <2>1. r = [h EXCEPT !.cap = c, !.fold = fold, !.full = FullOf(c), !.nodes = nodes]
    BY <1>3 DEF Rehash
  <2>2. r.nodes = nodes
    BY <1>1, <2>1 DEF Table
  <2>3. ASSUME NEW i \in DOMAIN h.nodes
        PROVE  /\ r.nodes[i].value = h.nodes[i].value
               /\ r.nodes[i].bucket = hash(i) % c
               /\ r.nodes[i].depth = Cardinality(after(i))
    <3> HIDE DEF hash, after, r, c
    <3> QED BY <2>2
  <2>4. DOMAIN r.nodes = DOMAIN h.nodes
    BY <2>2
  <2>5. ASSUME NEW i \in DOMAIN h.nodes
        PROVE  IsFiniteSet(after(i)) /\ Cardinality(after(i)) \in Nat
    <3>1. IsFiniteSet(DOMAIN h.nodes) /\ after(i) \in SUBSET DOMAIN h.nodes
      BY DEF Good, Counted
    <3> HIDE DEF after
    <3> QED BY <3>1, FS_Subset, FS_CardinalityType
  <2>6. ASSUME NEW i \in DOMAIN h.nodes, NEW j \in DOMAIN h.nodes,
               Before(h, i, j), hash(i) % c = hash(j) % c
        PROVE  Cardinality(after(i)) # Cardinality(after(j))
    <3> HIDE DEF hash, c
    <3>1. after(j) \in SUBSET after(i)
      BY <2>6, BeforeOrders
    <3>2. j \in after(i) /\ j \notin after(j)
      BY <2>6, BeforeOrders
    <3> HIDE DEF after
    <3> QED BY <2>5, <3>1, <3>2, FS_Subset
  <2>7. Ordered(r)
    <3>1. ASSUME NEW i \in DOMAIN r.nodes, NEW j \in DOMAIN r.nodes,
                 i # j, r.nodes[i].bucket = r.nodes[j].bucket
          PROVE  r.nodes[i].depth # r.nodes[j].depth
      <4>1. hash(i) % c = hash(j) % c
        BY <2>3, <2>4, <3>1
      <4>2. Before(h, i, j) \/ Before(h, j, i)
        BY <2>4, <3>1, BeforeOrders
      <4>3. Cardinality(after(i)) # Cardinality(after(j))
        <5> HIDE DEF hash, after, c
        <5> QED BY <2>4, <2>6, <4>1, <4>2
      <4> HIDE DEF hash, after, c
      <4> QED BY <2>3, <2>4, <4>3
    <3>2. ASSUME NEW i \in DOMAIN r.nodes, r.nodes[i].depth > 0
          PROVE  \E j \in DOMAIN r.nodes : /\ r.nodes[j].bucket = r.nodes[i].bucket
                                           /\ r.nodes[j].depth = r.nodes[i].depth - 1
      <4>1. i \in DOMAIN h.nodes /\ r.nodes[i].depth = Cardinality(after(i))
        BY <2>3, <2>4
      <4>2. after(i) # {} /\ after(i) \in SUBSET DOMAIN h.nodes
        <5>1. Cardinality(after(i)) > 0
          BY <3>2, <4>1
        <5>2. after(i) # {}
          <6> HIDE DEF after
          <6> QED BY <5>1, FS_EmptySet
        <5> QED BY <5>2
      <4> DEFINE j == FirstOf(h, after(i))
      <4>3. j \in after(i) /\ \A k \in after(i) \ {j} : Before(h, j, k)
        <5> HIDE DEF after
        <5> QED BY <4>2, FirstIsThere
      <4> HIDE DEF j
      <4>4. j \in DOMAIN h.nodes /\ hash(j) % c = hash(i) % c /\ Before(h, i, j)
        BY <4>3
      <4>5. after(j) = after(i) \ {j}
        <5> HIDE DEF hash, c, r
        <5> QED BY <4>1, <4>3, <4>4, BeforeOrders
      <4>6. Cardinality(after(j)) = Cardinality(after(i)) - 1
        <5> HIDE DEF after
        <5> QED BY <2>5, <4>1, <4>3, <4>5, FS_RemoveElement
      <4> HIDE DEF hash, after, c, r
      <4> QED BY <2>3, <2>4, <4>1, <4>4, <4>6
    <3>3. \A i \in DOMAIN r.nodes : r.nodes[i].depth \in Nat
      BY <2>3, <2>4, <2>5
    <3> HIDE DEF r
    <3> QED BY <3>1, <3>2, <3>3 DEF Ordered, Apart, Linked
  <2> QED BY <2>3, <2>4, <2>7
<1> QED
  BY <1>1, <1>2, <1>3 DEF Table

\* A new node is the first of its chain, and the others stay.
LEMMA InsertKeeps ==
  ASSUME NEW h, Good(h), Ordered(h), NEW k \in Key, NEW v \in Value, NEW code \in Nat,
         \E i \in {k} \X (1..Copies) : i \notin DOMAIN h.nodes
  PROVE  LET r == Insert(h, k, v, code) IN
         /\ r.fold = h.fold /\ r.multiples = h.multiples
         /\ Ordered(r)
         /\ (h.table /\ r.cap # h.cap) \/ Kept(h, r)
         /\ \E n \in Id \ DOMAIN h.nodes :
              /\ KeyOf(n) = k /\ r.nodes[n].value = v
              /\ DOMAIN r.nodes = DOMAIN h.nodes \cup {n}
              /\ \A i \in DOMAIN h.nodes : r.nodes[i].value = h.nodes[i].value
<1> DEFINE g == IF h.sz = h.full THEN Rehash(h, h.fold) ELSE h
           b == code % g.cap
           new == CHOOSE i \in {k} \X (1..Copies) : i \notin DOMAIN g.nodes
           added == [hash |-> Hash(k, g.fold), value |-> v, bucket |-> b, depth |-> 0]
           S == DOMAIN g.nodes \cup {new}
           moved(i) == [g.nodes[i] EXCEPT !.depth = IF g.nodes[i].bucket = b THEN @ + 1 ELSE @]
           nodes == [i \in S |-> IF i = new THEN added ELSE moved(i)]
           r == Insert(h, k, v, code)
<1>1. h.fold \in BOOLEAN /\ h \in Table
  BY DEF Good, Table
<1>2. /\ Good(g) /\ Ordered(g) /\ DOMAIN g.nodes = DOMAIN h.nodes
      /\ g.fold = h.fold /\ g.multiples = h.multiples
      /\ \A i \in DOMAIN h.nodes : g.nodes[i].value = h.nodes[i].value
  <2>1. CASE h.sz = h.full
    BY <2>1, <1>1, RehashGood, RehashKeeps
  <2>2. CASE h.sz # h.full
    BY <2>2
  <2> QED BY <2>1, <2>2
<1>13. (h.table /\ g.cap # h.cap) \/ g.nodes = h.nodes
  <2>1. CASE h.table /\ h.sz = h.full
    <3>1. g.cap = 2 * h.cap + 1
      BY <1>1, <2>1 DEF Rehash, Table
    <3>2. h.cap \in Nat
      BY <1>1 DEF Table
    <3> HIDE DEF g
    <3> QED BY <2>1, <3>1, <3>2
  <2>2. CASE ~h.table /\ h.sz = h.full
    BY <1>1, <2>2 DEF Rehash, Table
  <2>3. CASE h.sz # h.full
    BY <2>3
  <2> QED BY <2>1, <2>2, <2>3
<1> HIDE DEF g
<1>3. r = [g EXCEPT !.sz = @ + 1, !.nodes = nodes]
  BY DEF Insert, g
<1>4. g \in Table
  BY <1>2 DEF Good
<1>5. new \in {k} \X (1..Copies) /\ new \notin DOMAIN g.nodes
  BY <1>2
<1>6. new \in Id \ DOMAIN h.nodes /\ KeyOf(new) = k
  BY <1>2, <1>5 DEF Id, KeyOf
<1> HIDE DEF new, b
<1>7. r.nodes = nodes /\ r.cap = g.cap /\ r.fold = h.fold /\ r.multiples = h.multiples
  <2> HIDE DEF nodes
  <2> QED BY <1>2, <1>3, <1>4 DEF Table
<1>8. DOMAIN r.nodes = S
  BY <1>7
<1>9. r.nodes[new].value = v /\ r.nodes[new].bucket = b /\ r.nodes[new].depth = 0
  <2>1. r.nodes[new] = added
    BY <1>7
  <2> QED BY <2>1
<1>10. ASSUME NEW i \in DOMAIN g.nodes
       PROVE  /\ r.nodes[i].value = g.nodes[i].value
              /\ r.nodes[i].bucket = g.nodes[i].bucket
              /\ r.nodes[i].depth = IF g.nodes[i].bucket = b THEN g.nodes[i].depth + 1
                                    ELSE g.nodes[i].depth
  <2>1. r.nodes[i] = moved(i)
    BY <1>5, <1>7
  <2>2. g.nodes[i] \in [hash : Nat, value : Value, bucket : Nat, depth : Int]
    BY <1>4, NodeTyped
  <2> QED BY <2>1, <2>2
<1>11. \A i \in DOMAIN g.nodes : g.nodes[i].depth \in Nat
  BY <1>2 DEF Ordered, Apart
<1>14. Apart(r)
  <2> HIDE DEF nodes, r
  <2>2. \A i \in DOMAIN r.nodes : r.nodes[i].depth \in Nat
    BY <1>8, <1>9, <1>10, <1>11
  <2>3. \A i, j \in DOMAIN g.nodes :
          i # j /\ r.nodes[i].bucket = r.nodes[j].bucket => r.nodes[i].depth # r.nodes[j].depth
    BY <1>2, <1>10, <1>11 DEF Ordered, Apart
  <2>4. \A j \in DOMAIN g.nodes :
          r.nodes[new].bucket = r.nodes[j].bucket => r.nodes[new].depth # r.nodes[j].depth
    BY <1>9, <1>10, <1>11
  <2> QED BY <1>8, <2>2, <2>3, <2>4 DEF Apart
<1>15. Linked(r)
  <2> HIDE DEF nodes, r
  <2> SUFFICES ASSUME NEW i \in DOMAIN r.nodes, r.nodes[i].depth > 0
               PROVE  \E j \in DOMAIN r.nodes : /\ r.nodes[j].bucket = r.nodes[i].bucket
                                                /\ r.nodes[j].depth = r.nodes[i].depth - 1
    BY DEF Linked
  <2>1. i \in DOMAIN g.nodes
    BY <1>8, <1>9
  <2>2. CASE g.nodes[i].depth > 0
    <3>1. PICK j \in DOMAIN g.nodes : /\ g.nodes[j].bucket = g.nodes[i].bucket
                                      /\ g.nodes[j].depth = g.nodes[i].depth - 1
      BY <1>2, <2>1, <2>2 DEF Ordered, Linked
    <3>2. j \in DOMAIN r.nodes
      BY <1>8
    <3> QED BY <1>10, <1>11, <2>1, <3>1, <3>2
  <2>3. CASE ~(g.nodes[i].depth > 0)
    <3>1. g.nodes[i].depth = 0
      BY <1>11, <2>1, <2>3
    <3>2. r.nodes[i].bucket = b /\ r.nodes[i].depth = 1
      BY <1>10, <2>1, <3>1
    <3> QED BY <1>8, <1>9, <3>2
  <2> QED BY <2>2, <2>3
<1>16. (h.table /\ r.cap # h.cap) \/ Kept(h, r)
  <2> SUFFICES ASSUME g.nodes = h.nodes PROVE Kept(h, r)
    BY <1>7, <1>13
  <2> HIDE DEF nodes, r
  <2> SUFFICES ASSUME NEW i \in DOMAIN g.nodes, NEW j \in DOMAIN g.nodes
               PROVE  /\ r.nodes[i].bucket = g.nodes[i].bucket
                      /\ Before(r, i, j) <=> Before(g, i, j)
    BY DEF Kept, Before
  <2> QED BY <1>10, <1>11 DEF Before
<1>12. \A i \in DOMAIN h.nodes : r.nodes[i].value = h.nodes[i].value
  BY <1>2, <1>10
<1> HIDE DEF r
<1> QED
  BY <1>2, <1>6, <1>7, <1>8, <1>9, <1>12, <1>14, <1>15, <1>16 DEF r, Ordered

\* An overwritten node keeps its place.
LEMMA OverwriteKeeps ==
  ASSUME NEW h, Good(h), Ordered(h), NEW i \in DOMAIN h.nodes, NEW v \in Value,
         NEW r, r = [h EXCEPT !.nodes[i].value = v]
  PROVE  /\ r.fold = h.fold /\ r.multiples = h.multiples
         /\ Ordered(r) /\ Kept(h, r)
         /\ DOMAIN r.nodes = DOMAIN h.nodes /\ r.nodes[i].value = v
         /\ \A j \in DOMAIN h.nodes \ {i} : r.nodes[j].value = h.nodes[j].value
<1> DEFINE Row == [hash : Nat, value : Value, bucket : Nat, depth : Int]
           nodes == [h.nodes EXCEPT ![i].value = v]
<1>1. h \in Table /\ h.nodes \in [DOMAIN h.nodes -> Row]
  BY NodeTyped DEF Good
<1>2. r.nodes = nodes /\ r.fold = h.fold /\ r.multiples = h.multiples
  BY <1>1 DEF Table
<1>3. ASSUME NEW j \in DOMAIN h.nodes
      PROVE  /\ nodes[j].bucket = h.nodes[j].bucket /\ nodes[j].depth = h.nodes[j].depth
             /\ nodes[j].value = IF j = i THEN v ELSE h.nodes[j].value
  <2>1. h.nodes[j] \in Row
    BY <1>1
  <2>2. nodes[j] = IF j = i THEN [h.nodes[j] EXCEPT !.value = v] ELSE h.nodes[j]
    BY <1>1
  <2> QED BY <2>1, <2>2
<1>4. DOMAIN nodes = DOMAIN h.nodes
  BY <1>1
<1> HIDE DEF nodes
<1>5. Ordered(r)
  BY <1>2, <1>3, <1>4 DEF Ordered, Apart, Linked
<1>6. Kept(h, r)
  BY <1>2, <1>3, <1>4 DEF Kept, Before
<1> QED BY <1>2, <1>3, <1>4, <1>5, <1>6

\* The nodes behind a removed one move up.
LEMMA UnlinkKeeps ==
  ASSUME NEW h, Good(h), Ordered(h), NEW i \in DOMAIN h.nodes,
         NEW r, r = Unlink(h, i)
  PROVE  /\ r.fold = h.fold /\ r.multiples = h.multiples
         /\ Ordered(r) /\ Kept(h, r)
         /\ DOMAIN r.nodes = DOMAIN h.nodes \ {i}
         /\ \A j \in DOMAIN h.nodes \ {i} : r.nodes[j].value = h.nodes[j].value
<1> DEFINE S == DOMAIN h.nodes \ {i}
           n == h.nodes[i]
           moved(j) == [h.nodes[j] EXCEPT !.depth =
             IF h.nodes[j].bucket = h.nodes[i].bucket /\ @ > h.nodes[i].depth THEN @ - 1 ELSE @]
           nodes == [j \in S |-> moved(j)]
           Row == [hash : Nat, value : Value, bucket : Nat, depth : Int]
<1>1. h \in Table /\ h.nodes \in [DOMAIN h.nodes -> Row]
  BY NodeTyped DEF Good
<1>2. r = [h EXCEPT !.sz = @ - 1, !.nodes = nodes]
  BY DEF Unlink
<1>3. r.nodes = nodes /\ r.fold = h.fold /\ r.multiples = h.multiples
  <2> HIDE DEF nodes
  <2> QED BY <1>1, <1>2 DEF Table
<1>4. ASSUME NEW j \in S
      PROVE  /\ r.nodes[j].bucket = h.nodes[j].bucket
             /\ r.nodes[j].value = h.nodes[j].value
             /\ r.nodes[j].depth = IF h.nodes[j].bucket = n.bucket /\ h.nodes[j].depth > n.depth
                                   THEN h.nodes[j].depth - 1 ELSE h.nodes[j].depth
  <2>1. h.nodes[j] \in Row
    BY <1>1
  <2>2. r.nodes[j] = moved(j)
    BY <1>3
  <2> QED BY <2>1, <2>2
<1>5. DOMAIN r.nodes = S
  BY <1>3
<1>6. \A j \in DOMAIN h.nodes : h.nodes[j].depth \in Nat
  BY DEF Ordered, Apart
<1>7. ASSUME NEW j \in S
      PROVE  r.nodes[j].depth \in Nat
  <2>1. n.depth \in Nat /\ h.nodes[j].depth \in Nat
    BY <1>6
  <2> HIDE DEF n
  <2> QED BY <1>4, <2>1
<1>8. ASSUME NEW j \in S, NEW k \in S, j # k, r.nodes[j].bucket = r.nodes[k].bucket
      PROVE  r.nodes[j].depth # r.nodes[k].depth
  <2>1. h.nodes[j].bucket = h.nodes[k].bucket
    BY <1>4, <1>8
  <2>2. /\ h.nodes[j].depth # h.nodes[k].depth
        /\ h.nodes[j].bucket = n.bucket =>
             h.nodes[j].depth # n.depth /\ h.nodes[k].depth # n.depth
    BY <1>8, <2>1 DEF Ordered, Apart
  <2>3. n.depth \in Nat /\ h.nodes[j].depth \in Nat /\ h.nodes[k].depth \in Nat
    BY <1>6
  <2> HIDE DEF n, S
  <2> QED BY <1>4, <2>1, <2>2, <2>3
<1>9. Apart(r)
  <2> HIDE DEF S
  <2> QED BY <1>5, <1>7, <1>8 DEF Apart
<1>10. ASSUME NEW j \in S, r.nodes[j].depth > 0
       PROVE  \E k \in S : /\ r.nodes[k].bucket = r.nodes[j].bucket
                           /\ r.nodes[k].depth = r.nodes[j].depth - 1
  <2>1. n.depth \in Nat /\ h.nodes[j].depth \in Nat
    BY <1>6
  <2>2. h.nodes[j].depth > 0
    <3> HIDE DEF n, S
    <3> QED BY <1>4, <1>10, <2>1
  <2>3. PICK k \in DOMAIN h.nodes : /\ h.nodes[k].bucket = h.nodes[j].bucket
                                    /\ h.nodes[k].depth = h.nodes[j].depth - 1
    BY <2>2 DEF Ordered, Linked
  <2>4. CASE k # i
    <3>1. k \in S /\ h.nodes[k].depth \in Nat
      BY <1>6, <2>4
    <3>2. h.nodes[j].bucket = n.bucket => h.nodes[k].depth # n.depth /\ h.nodes[j].depth # n.depth
      BY <2>3, <2>4 DEF Ordered, Apart
    <3> HIDE DEF n, S
    <3> QED BY <1>4, <2>1, <2>3, <3>1, <3>2
  <2>5. CASE k = i
    <3>1. h.nodes[j].bucket = n.bucket /\ h.nodes[j].depth = n.depth + 1
      BY <2>1, <2>3, <2>5
    <3>2. r.nodes[j].depth = n.depth /\ r.nodes[j].bucket = n.bucket
      <4> HIDE DEF n, S
      <4> QED BY <1>4, <2>1, <3>1
    <3>3. PICK l \in DOMAIN h.nodes : h.nodes[l].bucket = n.bucket /\ h.nodes[l].depth = n.depth - 1
      BY <1>10, <3>2 DEF Ordered, Linked
    <3>4. l \in S
      <4>1. l # i
        BY <2>1, <3>3
      <4> QED BY <4>1
    <3>5. r.nodes[l].depth = n.depth - 1 /\ r.nodes[l].bucket = n.bucket
      <4> HIDE DEF n, S
      <4> QED BY <1>4, <2>1, <3>3, <3>4
    <3> HIDE DEF n, S
    <3> QED BY <3>2, <3>4, <3>5
  <2> QED BY <2>4, <2>5
<1>11. Linked(r)
  <2> HIDE DEF S
  <2> QED BY <1>5, <1>10 DEF Linked
<1>12. Kept(h, r)
  <2> SUFFICES ASSUME NEW j \in S, NEW k \in S
               PROVE  /\ r.nodes[j].bucket = h.nodes[j].bucket
                      /\ Before(r, j, k) <=> Before(h, j, k)
    BY <1>5 DEF Kept
  <2>1. /\ n.depth \in Nat /\ h.nodes[j].depth \in Nat /\ h.nodes[k].depth \in Nat
    BY <1>6
  <2>2. /\ h.nodes[j].bucket = n.bucket => h.nodes[j].depth # n.depth
        /\ h.nodes[k].bucket = n.bucket => h.nodes[k].depth # n.depth
    BY DEF Ordered, Apart
  <2> HIDE DEF n, S
  <2> QED BY <1>4, <2>1, <2>2 DEF Before
<1> QED BY <1>3, <1>4, <1>5, <1>9, <1>11, <1>12 DEF Ordered

-----------------------------------------------------------------------------
(* What is found of the keys that fit. *)

FitIn(h) == {x \in FoundIn(h) : x[1] \in Fit}

FitSame(fold) == [k \in Fit |-> {l \in Fit : SameKey(k, l, fold)}]

\* The table seen by those who look up keys that fit.
Fits == INSTANCE KeyMap WITH
  found <- FitIn(ht), same <- FitSame(ht.fold), multiples <- ht.multiples

LEMMA SameKeyEquals ==
  ASSUME NEW fold \in BOOLEAN, NEW k \in Key, NEW l \in Key
  PROVE  /\ SameKey(k, k, fold)
         /\ SameKey(k, l, fold) <=> SameKey(l, k, fold)
         /\ SameKey(k, l, fold) => Hash(k, fold) = Hash(l, fold)
         /\ SameKey(k, l, fold) => (k \in Fit <=> l \in Fit)
<1>1. SameKey(k, k, fold) /\ (SameKey(k, l, fold) <=> SameKey(l, k, fold))
  BY DEF SameKey
<1>2. SameKey(k, l, fold) => Hash(k, fold) = Hash(l, fold)
  BY DEF SameKey, Hash
<1>3. SameKey(k, l, fold) => (k \in Fit <=> l \in Fit)
  BY HashtableAssumption DEF SameKey, Fit
<1> QED BY <1>1, <1>2, <1>3

LEMMA FitIsKey ==
  /\ Fit \subseteq Key
  /\ \A h \in Table : \A i \in DOMAIN h.nodes : KeyOf(i) \in Key
<1>1. Fit \subseteq Key
  BY DEF Fit, Key
<1>2. ASSUME NEW h \in Table, NEW i \in DOMAIN h.nodes PROVE KeyOf(i) \in Key
  BY NodeTyped DEF Id, KeyOf
<1> QED BY <1>1, <1>2

\* A lookup comes by the nodes whose key counts as its own, and by no other.
LEMMA GetIs ==
  ASSUME NEW h, Good(h), NEW k \in Fit
  PROVE  Get(h, k) = {i \in DOMAIN h.nodes : SameKey(KeyOf(i), k, h.fold)}
<1>1. h \in Table /\ DOMAIN h.nodes \subseteq Id /\ h.fold \in BOOLEAN /\ h.sz \in Nat
  BY NodeTyped DEF Good, Table
<1>2. k \in Key /\ Code(k, h.fold) = Hash(k, h.fold)
  BY <1>1, FitIsKey, CodeIsHash
<1>3. ASSUME NEW i \in DOMAIN h.nodes, SameKey(KeyOf(i), k, h.fold)
      PROVE  i \in Get(h, k)
  <2>1. KeyOf(i) \in Key
    BY <1>1, FitIsKey
  <2>2. Hash(KeyOf(i), h.fold) = Hash(k, h.fold) /\ KeyOf(i) \in Fit
    BY <1>1, <1>2, <1>3, <2>1, SameKeyEquals
  <2>3. h.sz > 0
    <3>1. h.sz # 0
      BY FS_EmptySet DEF Good, Counted
    <3> QED BY <3>1, <1>1
  <2>4. h.nodes[i].hash = Hash(KeyOf(i), h.fold) /\ h.nodes[i].bucket = h.nodes[i].hash % h.cap
    BY <2>2 DEF Good, Placed
  <2> QED BY <1>2, <1>3, <2>2, <2>3, <2>4 DEF Get, Chained
<1>4. Get(h, k) \subseteq {i \in DOMAIN h.nodes : SameKey(KeyOf(i), k, h.fold)}
  BY DEF Get, Chained
<1> QED BY <1>3, <1>4

\* What is found are the nodes, under every key that counts as theirs.
LEMMA FoundIs ==
  ASSUME NEW h, Good(h)
  PROVE  /\ \A k \in Fit, i \in DOMAIN h.nodes :
              SameKey(KeyOf(i), k, h.fold) => <<k, i, h.nodes[i].value>> \in FitIn(h)
         /\ \A x \in FitIn(h) : \E k \in Fit, i \in DOMAIN h.nodes :
              SameKey(KeyOf(i), k, h.fold) /\ x = <<k, i, h.nodes[i].value>>
<1>1. ASSUME NEW x \in FitIn(h)
      PROVE  \E k \in Fit, i \in DOMAIN h.nodes :
               SameKey(KeyOf(i), k, h.fold) /\ x = <<k, i, h.nodes[i].value>>
  <2>1. PICK k \in Key : x \in {<<k, i, h.nodes[i].value>> : i \in Get(h, k)}
    BY DEF FitIn, FoundIn
  <2>2. PICK i \in Get(h, k) : x = <<k, i, h.nodes[i].value>>
    BY <2>1
  <2>3. k \in Fit
    BY <2>2 DEF FitIn
  <2>4. Get(h, k) = {j \in DOMAIN h.nodes : SameKey(KeyOf(j), k, h.fold)}
    BY <2>3, GetIs
  <2>5. i \in DOMAIN h.nodes /\ SameKey(KeyOf(i), k, h.fold)
    BY <2>4
  <2> QED BY <2>2, <2>3, <2>5
<1>2. ASSUME NEW k \in Fit, NEW i \in DOMAIN h.nodes, SameKey(KeyOf(i), k, h.fold)
      PROVE  <<k, i, h.nodes[i].value>> \in FitIn(h)
  <2>1. Get(h, k) = {j \in DOMAIN h.nodes : SameKey(KeyOf(j), k, h.fold)}
    BY GetIs
  <2>2. i \in Get(h, k) /\ k \in Key
    BY <1>2, <2>1, FitIsKey
  <2>3. <<k, i, h.nodes[i].value>> \in FoundIn(h)
    BY <2>2 DEF FoundIn
  <2> QED BY <2>3 DEF FitIn
<1> QED BY <1>1, <1>2

LEMMA EntriesAre ==
  ASSUME NEW h, Good(h)
  PROVE  Fits!Entries(FitIn(h)) = {i \in DOMAIN h.nodes : KeyOf(i) \in Fit}
<1>0. h \in Table /\ h.fold \in BOOLEAN
  BY DEF Good, Table
<1>1. ASSUME NEW i \in DOMAIN h.nodes, KeyOf(i) \in Fit PROVE i \in Fits!Entries(FitIn(h))
  <2> DEFINE x == <<KeyOf(i), i, h.nodes[i].value>>
  <2>1. x \in FitIn(h)
    BY <1>1, FoundIs DEF SameKey
  <2>2. x[2] = i
    OBVIOUS
  <2> HIDE DEF x
  <2> QED BY <2>1, <2>2 DEF Fits!Entries
<1>2. ASSUME NEW i \in Fits!Entries(FitIn(h)) PROVE i \in DOMAIN h.nodes /\ KeyOf(i) \in Fit
  <2>1. PICK x \in FitIn(h) : i = x[2]
    BY DEF Fits!Entries
  <2>2. PICK k \in Fit, j \in DOMAIN h.nodes :
          SameKey(KeyOf(j), k, h.fold) /\ x = <<k, j, h.nodes[j].value>>
    BY FoundIs
  <2>3. i = j
    BY <2>1, <2>2
  <2> QED BY <1>0, <2>2, <2>3, FitIsKey, SameKeyEquals
<1> QED BY <1>1, <1>2

\* A node that is new, or has a new value, is one entry of the map if its key
\* fits, and none of it if it does not.
LEMMA EntryAdded ==
  ASSUME NEW h, Good(h), NEW g, Good(g), NEW n \in DOMAIN g.nodes,
         NEW v, g.nodes[n].value = v,
         g.fold = h.fold, DOMAIN g.nodes = DOMAIN h.nodes \cup {n},
         \A i \in DOMAIN h.nodes \ {n} : g.nodes[i].value = h.nodes[i].value
  PROVE  IF KeyOf(n) \in Fit
         THEN FitIn(g) = Fits!Without(FitIn(h), n)
                \cup {<<l, n, v>> : l \in FitSame(h.fold)[KeyOf(n)]}
         ELSE FitIn(g) = FitIn(h)
<1> DEFINE E == {<<l, n, v>> : l \in FitSame(h.fold)[KeyOf(n)]}
           W == Fits!Without(FitIn(h), n)
<1>0. KeyOf(n) \in Key /\ h.fold \in BOOLEAN
  BY FitIsKey DEF Good, Table
<1>1. ASSUME NEW x \in FitIn(g)
      PROVE  x \in W \/ (KeyOf(n) \in Fit /\ x \in E)
  <2>1. PICK k \in Fit, i \in DOMAIN g.nodes :
          SameKey(KeyOf(i), k, h.fold) /\ x = <<k, i, g.nodes[i].value>>
    BY FoundIs
  <2>2. CASE i = n
    <3>1. KeyOf(n) \in Fit
      BY <1>0, <2>1, <2>2, FitIsKey, SameKeyEquals
    <3>2. k \in FitSame(h.fold)[KeyOf(n)]
      BY <2>1, <2>2, <3>1 DEF FitSame
    <3> QED BY <2>1, <2>2, <3>1, <3>2
  <2>3. CASE i # n
    <3>1. x \in FitIn(h)
      BY <2>1, <2>3, FoundIs
    <3>2. x[2] # n
      BY <2>1, <2>3
    <3> QED BY <3>1, <3>2 DEF Fits!Without
  <2> QED BY <2>2, <2>3
<1>2. ASSUME NEW x \in W PROVE x \in FitIn(g)
  <2>1. x \in FitIn(h) /\ x[2] # n
    BY DEF Fits!Without
  <2>2. PICK k \in Fit, i \in DOMAIN h.nodes :
          SameKey(KeyOf(i), k, h.fold) /\ x = <<k, i, h.nodes[i].value>>
    BY <2>1, FoundIs
  <2>3. i # n
    BY <2>1, <2>2
  <2> QED BY <2>2, <2>3, FoundIs
<1>3. ASSUME KeyOf(n) \in Fit, NEW x \in E PROVE x \in FitIn(g)
  <2>1. PICK l \in Fit : SameKey(KeyOf(n), l, h.fold) /\ x = <<l, n, v>>
    BY <1>3 DEF FitSame
  <2> QED BY <2>1, FoundIs
<1>4. KeyOf(n) \notin Fit => W = FitIn(h)
  <2>1. KeyOf(n) \notin Fit => n \notin Fits!Entries(FitIn(h))
    BY EntriesAre
  <2> QED BY <2>1 DEF Fits!Without, Fits!Entries
<1> HIDE DEF W, E
<1>5. CASE KeyOf(n) \in Fit
  <2>1. FitIn(g) = W \cup E
    BY <1>1, <1>2, <1>3, <1>5
  <2> QED BY <1>5, <2>1 DEF W, E
<1>6. CASE KeyOf(n) \notin Fit
  <2>1. FitIn(g) = W
    BY <1>1, <1>2, <1>6
  <2> QED BY <1>4, <1>6, <2>1
<1> QED BY <1>5, <1>6

LEMMA EntryDropped ==
  ASSUME NEW h, Good(h), NEW g, Good(g), NEW n \in DOMAIN h.nodes,
         g.fold = h.fold, DOMAIN g.nodes = DOMAIN h.nodes \ {n},
         \A i \in DOMAIN h.nodes \ {n} : g.nodes[i].value = h.nodes[i].value
  PROVE  FitIn(g) = Fits!Without(FitIn(h), n)
<1>1. ASSUME NEW x \in FitIn(g) PROVE x \in Fits!Without(FitIn(h), n)
  <2>1. PICK k \in Fit, i \in DOMAIN g.nodes :
          SameKey(KeyOf(i), k, h.fold) /\ x = <<k, i, g.nodes[i].value>>
    BY FoundIs
  <2>2. x \in FitIn(h)
    BY <2>1, FoundIs
  <2>3. x[2] # n
    BY <2>1
  <2> QED BY <2>2, <2>3 DEF Fits!Without
<1>2. ASSUME NEW x \in Fits!Without(FitIn(h), n) PROVE x \in FitIn(g)
  <2>1. x \in FitIn(h) /\ x[2] # n
    BY DEF Fits!Without
  <2>2. PICK k \in Fit, i \in DOMAIN h.nodes :
          SameKey(KeyOf(i), k, h.fold) /\ x = <<k, i, h.nodes[i].value>>
    BY <2>1, FoundIs
  <2>3. i # n
    BY <2>1, <2>2
  <2> QED BY <2>2, <2>3, FoundIs
<1> QED BY <1>1, <1>2

-----------------------------------------------------------------------------
(* Every call is one of the map. *)

\* From h to g one entry of the value v comes in with the key k, or one of those
\* that are there gets it.
Adds(h, g, k, v, there) ==
  \E n \in DOMAIN g.nodes :
    /\ KeyOf(n) \in Fit
    /\ DOMAIN g.nodes = DOMAIN h.nodes \cup {n}
    /\ FitIn(g) = Fits!Without(FitIn(h), n)
         \cup {<<l, n, v>> : l \in FitSame(h.fold)[KeyOf(n)]}
    /\ IF h.multiples \/ there = {} THEN KeyOf(n) = k /\ n \notin DOMAIN h.nodes
       ELSE n \in there

\* put() keeps the nodes that are there and their order, unless the table grows.
LEMMA PutKeeps ==
  ASSUME NEW h, Good(h), Ordered(h), NEW k \in Key, NEW v \in Value, NEW code \in Nat,
         \E i \in {k} \X (1..Copies) : i \notin DOMAIN h.nodes,
         NEW there \in SUBSET DOMAIN h.nodes,
         NEW g, g = PutAt(h, k, v, code, there)
  PROVE  /\ g.fold = h.fold /\ g.multiples = h.multiples
         /\ Ordered(g)
         /\ (h.table /\ g.cap # h.cap) \/ Kept(h, g)
         /\ \E n \in DOMAIN g.nodes :
              /\ DOMAIN g.nodes = DOMAIN h.nodes \cup {n}
              /\ g.nodes[n].value = v
              /\ \A i \in DOMAIN h.nodes \ {n} : g.nodes[i].value = h.nodes[i].value
              /\ IF n \in DOMAIN h.nodes THEN n \in there /\ ~h.multiples
                 ELSE KeyOf(n) = k /\ (there = {} \/ h.multiples)
<1>1. CASE there # {} /\ ~h.multiples
  <2> DEFINE i == FirstOf(h, there)
  <2>1. i \in there
    BY <1>1, FirstIsThere
  <2>2. g = [h EXCEPT !.nodes[i].value = v]
    BY <1>1 DEF PutAt
  <2> HIDE DEF i
  <2>3. /\ g.fold = h.fold /\ g.multiples = h.multiples
        /\ Ordered(g) /\ Kept(h, g)
        /\ DOMAIN g.nodes = DOMAIN h.nodes /\ g.nodes[i].value = v
        /\ \A j \in DOMAIN h.nodes \ {i} : g.nodes[j].value = h.nodes[j].value
    BY <2>1, <2>2, OverwriteKeeps
  <2>4. DOMAIN g.nodes = DOMAIN h.nodes \cup {i} /\ i \in DOMAIN g.nodes
    BY <2>1, <2>3
  <2> QED BY <1>1, <2>1, <2>3, <2>4
<1>2. CASE ~(there # {} /\ ~h.multiples)
  <2>1. g = Insert(h, k, v, code)
    BY <1>2 DEF PutAt
  <2>2. /\ g.fold = h.fold /\ g.multiples = h.multiples
        /\ Ordered(g)
        /\ (h.table /\ g.cap # h.cap) \/ Kept(h, g)
        /\ \E n \in Id \ DOMAIN h.nodes :
             /\ KeyOf(n) = k /\ g.nodes[n].value = v
             /\ DOMAIN g.nodes = DOMAIN h.nodes \cup {n}
             /\ \A i \in DOMAIN h.nodes : g.nodes[i].value = h.nodes[i].value
    BY <2>1, InsertKeeps
  <2>3. PICK n \in Id \ DOMAIN h.nodes :
          /\ KeyOf(n) = k /\ g.nodes[n].value = v
          /\ DOMAIN g.nodes = DOMAIN h.nodes \cup {n}
          /\ \A i \in DOMAIN h.nodes : g.nodes[i].value = h.nodes[i].value
    BY <2>2
  <2>4. n \in DOMAIN g.nodes
    BY <2>3
  <2>5. h.multiples \in BOOLEAN
    BY DEF Good, Table
  <2> QED BY <1>2, <2>2, <2>3, <2>4, <2>5
<1> QED BY <1>1, <1>2

LEMMA PutAdds ==
  ASSUME NEW h, Good(h), Ordered(h), NEW k \in Key, NEW v \in Value, NEW code \in Nat,
         k \in Fit => code = Hash(k, h.fold),
         \E i \in {k} \X (1..Copies) : i \notin DOMAIN h.nodes,
         NEW there, there \subseteq {i \in DOMAIN h.nodes : SameKey(KeyOf(i), k, h.fold)},
         NEW g, g = PutAt(h, k, v, code, there)
  PROVE  /\ g.fold = h.fold /\ g.multiples = h.multiples /\ Ordered(g)
         /\ IF k \in Fit THEN Adds(h, g, k, v, there) ELSE FitIn(g) = FitIn(h)
<1>1. Good(g)
  BY PutAtGood
<1>2. there \in SUBSET DOMAIN h.nodes /\ h.multiples \in BOOLEAN /\ h.fold \in BOOLEAN
  BY DEF Good, Table
<1>3. /\ g.fold = h.fold /\ g.multiples = h.multiples
      /\ Ordered(g)
      /\ \E n \in DOMAIN g.nodes :
           /\ DOMAIN g.nodes = DOMAIN h.nodes \cup {n}
           /\ g.nodes[n].value = v
           /\ \A i \in DOMAIN h.nodes \ {n} : g.nodes[i].value = h.nodes[i].value
           /\ IF n \in DOMAIN h.nodes THEN n \in there /\ ~h.multiples
              ELSE KeyOf(n) = k /\ (there = {} \/ h.multiples)
  BY <1>2, PutKeeps
<1>4. PICK n \in DOMAIN g.nodes :
        /\ DOMAIN g.nodes = DOMAIN h.nodes \cup {n}
        /\ g.nodes[n].value = v
        /\ \A i \in DOMAIN h.nodes \ {n} : g.nodes[i].value = h.nodes[i].value
        /\ IF n \in DOMAIN h.nodes THEN n \in there /\ ~h.multiples
           ELSE KeyOf(n) = k /\ (there = {} \/ h.multiples)
  BY <1>3
<1>5. IF KeyOf(n) \in Fit
      THEN FitIn(g) = Fits!Without(FitIn(h), n)
             \cup {<<l, n, v>> : l \in FitSame(h.fold)[KeyOf(n)]}
      ELSE FitIn(g) = FitIn(h)
  BY <1>1, <1>3, <1>4, EntryAdded
<1>6. KeyOf(n) \in Fit <=> k \in Fit
  <2>1. KeyOf(n) = k \/ n \in there
    BY <1>4
  <2>2. n \in there => SameKey(KeyOf(n), k, h.fold) /\ KeyOf(n) \in Key
    BY FitIsKey DEF Good
  <2> QED BY <1>2, <2>1, <2>2, SameKeyEquals
<1>7. IF h.multiples \/ there = {} THEN KeyOf(n) = k /\ n \notin DOMAIN h.nodes
      ELSE n \in there
  BY <1>2, <1>4
<1>8. IF k \in Fit THEN Adds(h, g, k, v, there) ELSE FitIn(g) = FitIn(h)
  BY <1>4, <1>5, <1>6, <1>7 DEF Adds
<1> QED BY <1>3, <1>8

\* What the map has of a key are the nodes that put() looks at, and of the very
\* key those that a merge looks at.
LEMMA EntriesThere ==
  ASSUME NEW h, Good(h), NEW k \in Fit
  PROVE  /\ Fits!Entries(Fits!Under(FitIn(h), k)) = Get(h, k)
         /\ Fits!Entries(Fits!Exact(FitIn(h), k)) = Chained(h, k, Hash(k, h.fold), FALSE)
<1> DEFINE U == Fits!Under(FitIn(h), k)
           X == Fits!Exact(FitIn(h), k)
           exact == Chained(h, k, Hash(k, h.fold), FALSE)
<1>1. Get(h, k) = {i \in DOMAIN h.nodes : SameKey(KeyOf(i), k, h.fold)}
  BY GetIs
<1>2. Code(k, h.fold) = Hash(k, h.fold)
  <2>1. h.fold \in BOOLEAN
    BY DEF Good, Table
  <2> QED BY <2>1, FitIsKey, CodeIsHash
<1>3. exact = {i \in Get(h, k) : KeyOf(i) = k}
  <2>1. ASSUME NEW i \in exact PROVE i \in Get(h, k) /\ KeyOf(i) = k
    BY <1>2 DEF Get, Chained, SameKey
  <2>2. ASSUME NEW i \in Get(h, k), KeyOf(i) = k PROVE i \in exact
    BY <1>2, <2>2 DEF Get, Chained, SameKey
  <2> HIDE DEF exact
  <2> QED BY <2>1, <2>2
<1>4. ASSUME NEW i \in Get(h, k)
      PROVE  <<k, i, h.nodes[i].value>> \in U
  <2>1. <<k, i, h.nodes[i].value>> \in FitIn(h)
    BY <1>1, FoundIs
  <2> QED BY <2>1 DEF Fits!Under
<1>5. ASSUME NEW x \in U
      PROVE  x[2] \in Get(h, k)
  <2>1. x \in FitIn(h) /\ x[1] = k
    BY DEF Fits!Under
  <2>2. PICK l \in Fit, i \in DOMAIN h.nodes :
          SameKey(KeyOf(i), l, h.fold) /\ x = <<l, i, h.nodes[i].value>>
    BY <2>1, FoundIs
  <2>3. l = k /\ x[2] = i
    BY <2>1, <2>2
  <2> QED BY <1>1, <2>2, <2>3
<1> HIDE DEF exact
<1>6. Fits!Entries(U) = Get(h, k)
  <2>1. ASSUME NEW i \in Get(h, k) PROVE i \in Fits!Entries(U)
    <3> DEFINE x == <<k, i, h.nodes[i].value>>
    <3>1. x \in U /\ x[2] = i
      BY <1>4
    <3> HIDE DEF x, U
    <3> QED BY <3>1 DEF Fits!Entries
  <2> HIDE DEF U
  <2> QED BY <1>5, <2>1 DEF Fits!Entries
<1>7. Fits!Entries(X) = exact
  <2>1. X = {x \in U : x[2][1] = k}
    BY DEF Fits!Exact, Fits!KeyOf
  <2>2. ASSUME NEW i \in exact PROVE i \in Fits!Entries(X)
    <3> DEFINE x == <<k, i, h.nodes[i].value>>
    <3>1. x \in U /\ x[2] = i /\ i[1] = k
      BY <1>3, <1>4 DEF KeyOf
    <3>2. x \in X
      BY <2>1, <3>1
    <3> HIDE DEF x, U, X
    <3> QED BY <3>1, <3>2 DEF Fits!Entries
  <2>3. ASSUME NEW x \in X PROVE x[2] \in exact
    BY <1>3, <1>5, <2>1 DEF KeyOf
  <2> HIDE DEF U, X
  <2> QED BY <2>2, <2>3 DEF Fits!Entries
<1> QED BY <1>6, <1>7 DEF exact

\* What adds an entry so is one of the map's calls.
LEMMA PutMaps ==
  ASSUME Good(ht), Good(ht'), ht'.fold = ht.fold, ht'.multiples = ht.multiples,
         NEW k \in Fit, NEW v, NEW T,
         \A i \in Fits!Entries(T) : SameKey(KeyOf(i), k, ht.fold),
         Adds(ht, ht', k, v, Fits!Entries(T))
  PROVE  /\ Fits!Puts(k, v, T)
         /\ \E x \in FitIn(ht') : x[1] = k /\ x[3] = v
<1> DEFINE F == FitIn(ht)
           G == FitIn(ht')
           there == Fits!Entries(T)
<1>1. PICK n \in DOMAIN ht'.nodes :
        /\ KeyOf(n) \in Fit
        /\ DOMAIN ht'.nodes = DOMAIN ht.nodes \cup {n}
        /\ G = Fits!Without(F, n) \cup {<<l, n, v>> : l \in FitSame(ht.fold)[KeyOf(n)]}
        /\ IF ht.multiples \/ there = {} THEN KeyOf(n) = k /\ n \notin DOMAIN ht.nodes
           ELSE n \in there
  BY DEF Adds
<1>2. G = Fits!Without(F, n) \cup Fits!Entry(n, v)
  BY <1>1 DEF Fits!Entry, Fits!KeyOf, KeyOf
<1>3. /\ Fits!Entries(F) = {i \in DOMAIN ht.nodes : KeyOf(i) \in Fit}
      /\ Fits!Entries(G) = {i \in DOMAIN ht'.nodes : KeyOf(i) \in Fit}
  BY EntriesAre
<1>4. there = {} <=> T = {}
  BY DEF Fits!Entries
<1>0. k \in FitSame(ht.fold)[KeyOf(n)]
  BY <1>1 DEF FitSame, SameKey
<1>5. n \in Fits!Entries(G) /\ (n \notin DOMAIN ht.nodes => n \notin Fits!Entries(F))
  BY <1>1, <1>3
<1>6. IF ht.multiples \/ T = {} THEN Fits!KeyOf(n) = k /\ n \notin Fits!Entries(F)
      ELSE n \in there
  BY <1>1, <1>4, <1>5 DEF Fits!KeyOf, KeyOf
<1> HIDE DEF F, G, there
<1>7. Fits!Puts(k, v, T)
  BY <1>2, <1>5, <1>6 DEF Fits!Puts, F, G, there
<1>8. \E x \in G : x[1] = k /\ x[3] = v
  <2> DEFINE x == <<k, n, v>>
  <2>1. x \in G /\ x[1] = k /\ x[3] = v
    BY <1>0, <1>1
  <2> HIDE DEF x
  <2> QED BY <2>1
<1> QED BY <1>7, <1>8 DEF G

\* remove() and the iterator's remove().
LEMMA UnlinkMaps ==
  ASSUME Good(ht), Ordered(ht), NEW i \in DOMAIN ht.nodes, ht' = Unlink(ht, i)
  PROVE  (Fits!Remove \/ UNCHANGED Fits!vars) /\ Ordered(ht')
<1>1. Good(ht')
  BY UnlinkGood
<1>2. /\ ht'.fold = ht.fold /\ ht'.multiples = ht.multiples
      /\ Ordered(ht')
      /\ DOMAIN ht'.nodes = DOMAIN ht.nodes \ {i}
      /\ \A j \in DOMAIN ht.nodes \ {i} : ht'.nodes[j].value = ht.nodes[j].value
  BY UnlinkKeeps
<1>3. FitIn(ht') = Fits!Without(FitIn(ht), i)
  BY <1>1, <1>2, EntryDropped
<1>4. CASE i \in Fits!Entries(FitIn(ht))
  BY <1>2, <1>3, <1>4 DEF Fits!Remove
<1>5. CASE i \notin Fits!Entries(FitIn(ht))
  <2>1. Fits!Without(FitIn(ht), i) = FitIn(ht)
    BY <1>5 DEF Fits!Without, Fits!Entries
  <2> QED BY <1>2, <1>3, <2>1 DEF Fits!vars
<1> QED BY <1>4, <1>5

LEMMA RemoveAllMaps ==
  ASSUME Good(ht), ht' = RemoveAll(ht)
  PROVE  Fits!RemoveAll /\ Ordered(ht')
<1> DEFINE none == [i \in {} |-> 0]
<1>1. ht'.nodes = none /\ ht'.fold = ht.fold /\ ht'.multiples = ht.multiples
  BY DEF RemoveAll, Good, Table
<1>2. DOMAIN ht'.nodes = {}
  BY <1>1
<1>3. Good(ht')
  BY RemoveAllGood
<1>4. FitIn(ht') = {}
  BY <1>2, <1>3, FoundIs
<1> QED BY <1>1, <1>2, <1>4 DEF Fits!RemoveAll, Ordered, Apart, Linked

\* Without texts that fit in the table, the style changes what counts as one
\* key, and nothing of what is found.
LEMMA FoldMaps ==
  ASSUME Good(ht), Good(ht'), ht'.multiples = ht.multiples,
         Restyle \/ \A i \in DOMAIN ht.nodes : KeyOf(i) \notin Text,
         DOMAIN ht'.nodes = DOMAIN ht.nodes,
         \A i \in DOMAIN ht.nodes : ht'.nodes[i].value = ht.nodes[i].value
  PROVE  Fits!Fold \/ UNCHANGED Fits!vars
<1>1. ASSUME NEW i \in DOMAIN ht.nodes, NEW k \in Fit, NEW f, NEW g, SameKey(KeyOf(i), k, f)
      PROVE  SameKey(KeyOf(i), k, g)
  BY <1>1, HashtableAssumption DEF SameKey, Fit
<1>2. ASSUME NEW x \in FitIn(ht) PROVE x \in FitIn(ht')
  <2>1. PICK k \in Fit, i \in DOMAIN ht.nodes :
          SameKey(KeyOf(i), k, ht.fold) /\ x = <<k, i, ht.nodes[i].value>>
    BY FoundIs
  <2>2. SameKey(KeyOf(i), k, ht'.fold)
    BY <1>1, <2>1
  <2> QED BY <2>1, <2>2, FoundIs
<1>3. ASSUME NEW x \in FitIn(ht') PROVE x \in FitIn(ht)
  <2>1. PICK k \in Fit, i \in DOMAIN ht'.nodes :
          SameKey(KeyOf(i), k, ht'.fold) /\ x = <<k, i, ht'.nodes[i].value>>
    BY FoundIs
  <2>2. SameKey(KeyOf(i), k, ht.fold)
    BY <1>1, <2>1
  <2> QED BY <2>1, <2>2, FoundIs
<1>4. FitIn(ht') = FitIn(ht)
  BY <1>2, <1>3
<1> QED BY <1>4 DEF Fits!Fold, Fits!vars

LEMMA InitMaps ==
  ASSUME Init
  PROVE  Fits!Init /\ Ordered(ht)
<1> DEFINE none == [i \in {} |-> 0]
<1>1. ht.nodes = none /\ ht.fold = FALSE /\ ht.multiples = FALSE
  BY DEF Init
<1>2. DOMAIN ht.nodes = {}
  BY <1>1
<1>3. Good(ht)
  BY InitGood
<1>4. FitIn(ht) = {}
  BY <1>2, <1>3, FoundIs
<1>5. FitSame(FALSE) = [k \in DOMAIN FitSame(FALSE) |-> {k}]
  BY DEF FitSame, SameKey
<1> QED BY <1>1, <1>2, <1>4, <1>5 DEF Fits!Init, Ordered, Apart, Linked

\* A step of the table is one of the map, and a call with a key that fits the
\* map's own.
FitStep ==
  /\ UNCHANGED Fits!vars \/ Fits!Next
  /\ \A k \in Fit, v \in Value :
       /\ put(k, v) => Fits!Put(k, v)
       /\ mergeTable(k, v) => Fits!Merge(k, v)

LEMMA CallsMap ==
  ASSUME Good(ht), Ordered(ht), Good(ht'), NEW k \in Key, NEW v \in Value,
         put(k, v) \/ mergeTable(k, v)
  PROVE  /\ Ordered(ht') /\ (UNCHANGED Fits!vars \/ Fits!Next)
         /\ k \in Fit /\ put(k, v) => Fits!Put(k, v)
         /\ k \in Fit /\ mergeTable(k, v) => Fits!Merge(k, v)
<1> DEFINE exact == Chained(ht, k, Hash(k, ht.fold), FALSE)
<1>1. ht.fold \in BOOLEAN
  BY DEF Good, Table
<1>2. \E i \in {k} \X (1..Copies) : i \notin DOMAIN ht.nodes
  BY DEF put, mergeTable, Room
<1>3. /\ Get(ht, k) \subseteq {i \in DOMAIN ht.nodes : SameKey(KeyOf(i), k, ht.fold)}
      /\ exact \subseteq {i \in DOMAIN ht.nodes : SameKey(KeyOf(i), k, ht.fold)}
  BY DEF Get, Chained, SameKey
<1>4. /\ Code(k, ht.fold) \in Nat /\ Hash(k, ht.fold) \in Nat
      /\ k \in Fit => Code(k, ht.fold) = Hash(k, ht.fold)
  BY <1>1, CodeIsHash, HashTyped
<1> HIDE DEF exact
<1>5. ASSUME put(k, v)
      PROVE  /\ Ordered(ht') /\ (UNCHANGED Fits!vars \/ Fits!Next)
             /\ k \in Fit => Fits!Put(k, v)
  <2>1. ht' = PutAt(ht, k, v, Code(k, ht.fold), Get(ht, k))
    BY <1>5 DEF put, Becomes, Put
  <2>2. /\ ht'.fold = ht.fold /\ ht'.multiples = ht.multiples /\ Ordered(ht')
        /\ IF k \in Fit THEN Adds(ht, ht', k, v, Get(ht, k)) ELSE FitIn(ht') = FitIn(ht)
    BY <1>2, <1>3, <1>4, <2>1, PutAdds
  <2>3. CASE k \in Fit
    <3> DEFINE T == Fits!Under(FitIn(ht), k)
    <3>1. Fits!Entries(T) = Get(ht, k)
      BY <2>3, EntriesThere
    <3>2. Adds(ht, ht', k, v, Fits!Entries(T))
      BY <2>2, <2>3, <3>1
    <3>3. \A i \in Fits!Entries(T) : SameKey(KeyOf(i), k, ht.fold)
      BY <1>3, <3>1
    <3>4. Fits!Puts(k, v, T) /\ \E x \in FitIn(ht') : x[1] = k /\ x[3] = v
      <4> HIDE DEF T
      <4> QED BY <2>2, <2>3, <3>2, <3>3, PutMaps
    <3>5. Fits!Put(k, v)
      BY <3>4 DEF Fits!Put
    <3>6. Fits!Next
      BY <3>4, <3>5 DEF Fits!Next
    <3> QED BY <2>2, <3>5, <3>6
  <2>4. CASE k \notin Fit
    BY <2>2, <2>4 DEF Fits!vars
  <2> QED BY <2>3, <2>4
<1>6. ASSUME mergeTable(k, v)
      PROVE  /\ Ordered(ht') /\ (UNCHANGED Fits!vars \/ Fits!Next)
             /\ k \in Fit => Fits!Merge(k, v)
  <2>1. ht' = PutAt(ht, k, v, Hash(k, ht.fold), exact)
    BY <1>6 DEF mergeTable, Becomes, PutNode, exact
  <2>2. /\ ht'.fold = ht.fold /\ ht'.multiples = ht.multiples /\ Ordered(ht')
        /\ IF k \in Fit THEN Adds(ht, ht', k, v, exact) ELSE FitIn(ht') = FitIn(ht)
    BY <1>2, <1>3, <1>4, <2>1, PutAdds
  <2>3. CASE k \in Fit
    <3> DEFINE T == Fits!Exact(FitIn(ht), k)
    <3>1. Fits!Entries(T) = exact
      BY <2>3, EntriesThere DEF exact
    <3>2. Adds(ht, ht', k, v, Fits!Entries(T))
      BY <2>2, <2>3, <3>1
    <3>3. \A i \in Fits!Entries(T) : SameKey(KeyOf(i), k, ht.fold)
      BY <1>3, <3>1
    <3>4. Fits!Puts(k, v, T) /\ \E x \in FitIn(ht') : x[1] = k /\ x[3] = v
      <4> HIDE DEF T
      <4> QED BY <2>2, <2>3, <3>2, <3>3, PutMaps
    <3>5. Fits!Merge(k, v)
      BY <3>4 DEF Fits!Merge
    <3>6. Fits!Next
      BY <3>4, <3>5 DEF Fits!Next
    <3> QED BY <2>2, <3>5, <3>6
  <2>4. CASE k \notin Fit
    BY <2>2, <2>4 DEF Fits!vars
  <2> QED BY <2>3, <2>4
<1> QED BY <1>5, <1>6

LEMMA NextMaps ==
  ASSUME Good(ht), Ordered(ht), [Next]_vars
  PROVE  Ordered(ht') /\ (UNCHANGED Fits!vars \/ Fits!Next)
<1>0. Good(ht')
  BY NextGood
<1>1. ASSUME NEW k \in Key, NEW v \in Value, put(k, v) \/ mergeTable(k, v)
      PROVE  Ordered(ht') /\ (UNCHANGED Fits!vars \/ Fits!Next)
  BY <1>0, <1>1, CallsMap
<1>2. ASSUME NEW k \in Key, NEW values, remove(k, values)
      PROVE  Ordered(ht') /\ (UNCHANGED Fits!vars \/ Fits!Remove)
  <2>1. PICK i \in Get(ht, k) : ht' = Unlink(ht, i)
    BY <1>2 DEF remove
  <2>2. i \in DOMAIN ht.nodes
    BY <2>1 DEF Get, Chained
  <2> QED BY <2>1, <2>2, UnlinkMaps
<1>3. ASSUME removeAll
      PROVE  Ordered(ht') /\ Fits!RemoveAll
  BY <1>3, RemoveAllMaps DEF removeAll
<1>4. ASSUME NEW b \in BOOLEAN, setCaseInsensitiveKeys(b)
      PROVE  Ordered(ht') /\ (UNCHANGED Fits!vars \/ Fits!Fold)
  <2>1. Restyle \/ \A i \in DOMAIN ht.nodes : KeyOf(i) \notin Text
    BY <1>4 DEF setCaseInsensitiveKeys
  <2>2. /\ ht'.multiples = ht.multiples /\ DOMAIN ht'.nodes = DOMAIN ht.nodes
        /\ \A i \in DOMAIN ht.nodes : ht'.nodes[i].value = ht.nodes[i].value
        /\ Ordered(ht')
    <3>1. CASE ht.sz > 0
      <4>1. ht' = Rehash(ht, b)
        BY <1>4, <3>1 DEF setCaseInsensitiveKeys, Becomes
      <4> QED BY <2>1, <4>1, RehashGood, RehashKeeps
    <3>2. CASE ~(ht.sz > 0)
      <4>1. ht' = [ht EXCEPT !.fold = b]
        BY <1>4, <3>2 DEF setCaseInsensitiveKeys, Becomes
      <4>2. ht'.nodes = ht.nodes /\ ht'.multiples = ht.multiples
        BY <4>1 DEF Good, Table
      <4> QED BY <4>2 DEF Ordered, Apart, Linked
    <3> QED BY <3>1, <3>2
  <2> QED BY <1>0, <2>1, <2>2, FoldMaps
<1>5. ASSUME NEW b \in BOOLEAN, setAllowKeyMultiples(b)
      PROVE  Ordered(ht') /\ Fits!Multiples
  <2>1. ht' = [ht EXCEPT !.multiples = b] /\ b # ht.multiples
    BY <1>5 DEF setAllowKeyMultiples, Becomes
  <2>2. ht'.nodes = ht.nodes /\ ht'.fold = ht.fold /\ ht'.multiples = ~ht.multiples
    BY <2>1 DEF Good, Table
  <2>3. FitIn(ht') = FitIn(ht)
    <3>1. ASSUME NEW x \in FitIn(ht) PROVE x \in FitIn(ht')
      <4>1. PICK k \in Fit, i \in DOMAIN ht.nodes :
              SameKey(KeyOf(i), k, ht.fold) /\ x = <<k, i, ht.nodes[i].value>>
        BY FoundIs
      <4> QED BY <1>0, <2>2, <4>1, FoundIs
    <3>2. ASSUME NEW x \in FitIn(ht') PROVE x \in FitIn(ht)
      <4>1. PICK k \in Fit, i \in DOMAIN ht'.nodes :
              SameKey(KeyOf(i), k, ht'.fold) /\ x = <<k, i, ht'.nodes[i].value>>
        BY <1>0, FoundIs
      <4> QED BY <2>2, <4>1, FoundIs
    <3> QED BY <3>1, <3>2
  <2> QED BY <2>2, <2>3 DEF Fits!Multiples, Ordered, Apart, Linked
<1>6. ASSUME iteratorRemove
      PROVE  Ordered(ht') /\ (UNCHANGED Fits!vars \/ Fits!Remove)
  <2>1. at \in DOMAIN ht.nodes /\ ht' = Unlink(ht, at)
    BY <1>6 DEF iteratorRemove, Chain
  <2> QED BY <2>1, UnlinkMaps
<1>7. CASE UNCHANGED ht
  BY <1>7 DEF Fits!vars
<1>8. ASSUME IteratorStep
      PROVE  UNCHANGED ht \/ iteratorRemove
  BY <1>8 DEF IteratorStep, iterate, first, last, next, previous, Begins
<1>9. CASE TableStep
  BY <1>1, <1>2, <1>3, <1>4, <1>5, <1>9 DEF TableStep, Fits!Next
<1>10. CASE IteratorStep
  BY <1>6, <1>7, <1>8, <1>10 DEF Fits!Next
<1>11. CASE UNCHANGED vars
  BY <1>7, <1>11 DEF vars
<1> QED BY <1>9, <1>10, <1>11 DEF Next

LEMMA NextFits ==
  ASSUME Good(ht), Ordered(ht), [Next]_vars
  PROVE  Good(ht') /\ Ordered(ht') /\ FitStep
<1>1. Good(ht')
  BY NextGood
<1>2. Ordered(ht') /\ (UNCHANGED Fits!vars \/ Fits!Next)
  BY NextMaps
<1>3. ASSUME NEW k \in Fit, NEW v \in Value
      PROVE  /\ put(k, v) => Fits!Put(k, v)
             /\ mergeTable(k, v) => Fits!Merge(k, v)
  BY <1>1, <1>3, FitIsKey, CallsMap
<1> QED BY <1>1, <1>2, <1>3 DEF FitStep

\* Whatever else is in it, the table is a map of the keys that fit: put() adds
\* an entry where a lookup of its key finds none, and changes the value of one
\* that is found where there are some, in either case of a text that the table
\* folds; only a merge leaves an entry beside one whose key differs in its case.
\* remove() and the iterator's remove() take one entry away; growth, walks, and
\* every call with a key that does not fit leave what is found as it was.
THEOREM FittingKeysAreAMap ==
  Spec => Fits!Init /\ [][FitStep]_vars
<1>1. Init => Good(ht) /\ Ordered(ht) /\ Fits!Init
  BY InitGood, InitMaps
<1>2. Good(ht) /\ Ordered(ht) /\ [Next]_vars
        => (Good(ht) /\ Ordered(ht))' /\ [FitStep]_vars
  BY NextFits
<1> QED BY <1>1, <1>2, PTL DEF Spec

\* Where all keys fit, that is all of the map.
LEMMA AllFit ==
  ASSUME Narrow
  PROVE  /\ \A h : FitIn(h) = FoundIn(h)
         /\ \A f : FitSame(f) = Same(f)
<1>1. Fit = Key
  BY NarrowFits
<1>2. ASSUME NEW h PROVE FitIn(h) = FoundIn(h)
  <2>1. ASSUME NEW x \in FoundIn(h) PROVE x[1] \in Key
    BY DEF FoundIn
  <2> QED BY <1>1, <2>1 DEF FitIn
<1>3. ASSUME NEW f PROVE FitSame(f) = Same(f)
  BY <1>1 DEF FitSame, Same
<1> QED BY <1>2, <1>3

\* If all keys fit a hash_t and the style stays with the texts, the table is a
\* map of its keys, whatever the capacity.
THEOREM Implements ==
  ASSUME Narrow
  PROVE  Spec => ImplementsMap
<1>1. /\ FitIn(ht) = FoundIn(ht) /\ FitIn(ht') = FoundIn(ht')
      /\ FitSame(ht.fold) = Same(ht.fold) /\ FitSame(ht'.fold) = Same(ht'.fold)
  BY AllFit
<1>2. Init => Good(ht) /\ Ordered(ht) /\ Map!Init
  BY <1>1, InitGood, InitMaps DEF Fits!Init, Map!Init
<1>3. FitStep => MapStep
  <2> SUFFICES ASSUME FitStep PROVE MapStep
    OBVIOUS
  <2>1. ASSUME NEW k, NEW v
        PROVE  /\ Fits!Put(k, v) => Map!Put(k, v)
               /\ Fits!Merge(k, v) => Map!Merge(k, v)
    <3>1. Fits!Put(k, v) => Map!Put(k, v)
      BY <1>1 DEF Fits!Put, Fits!Puts, Fits!Entries, Fits!Without, Fits!Entry, Fits!Under,
        Fits!KeyOf, Map!Put, Map!Puts, Map!Entries, Map!Without, Map!Entry, Map!Under, Map!KeyOf
    <3>2. Fits!Merge(k, v) => Map!Merge(k, v)
      BY <1>1 DEF Fits!Merge, Fits!Puts, Fits!Entries, Fits!Without, Fits!Entry, Fits!Under,
        Fits!Exact, Fits!KeyOf, Map!Merge, Map!Puts, Map!Entries, Map!Without, Map!Entry,
        Map!Under, Map!Exact, Map!KeyOf
    <3> QED BY <3>1, <3>2
  <2>2. (Fits!Multiples => Map!Multiples) /\ (Fits!Fold => Map!Fold)
    BY <1>1 DEF Fits!Multiples, Fits!Fold, Map!Multiples, Map!Fold
  <2>3. (Fits!Remove => Map!Remove) /\ (Fits!RemoveAll => Map!RemoveAll)
    BY <1>1 DEF Fits!Remove, Fits!RemoveAll, Fits!Entries, Fits!Without,
      Map!Remove, Map!RemoveAll, Map!Entries, Map!Without
  <2>4. Fits!Next => Map!Next
    BY <1>1, <2>1, <2>2, <2>3 DEF Fits!Next, Map!Next
  <2>5. UNCHANGED Map!vars \/ Map!Next
    BY <1>1, <2>4 DEF FitStep, Fits!vars, Map!vars
  <2>6. ASSUME NEW k \in Key, NEW v \in Value
        PROVE  /\ put(k, v) => Map!Put(k, v)
               /\ mergeTable(k, v) => Map!Merge(k, v)
    BY <2>1, NarrowFits DEF FitStep
  <2> QED BY <2>5, <2>6 DEF MapStep
<1>4. Good(ht) /\ Ordered(ht) /\ [Next]_vars
        => (Good(ht) /\ Ordered(ht))' /\ [MapStep]_vars
  BY <1>3, NextFits
<1> QED BY <1>2, <1>4, PTL DEF Spec, ImplementsMap

-----------------------------------------------------------------------------
(* One node for a key. *)

OneEach(h) ==
  \A i, j \in DOMAIN h.nodes : KeyOf(i) = KeyOf(j) /\ KeyOf(i) \in Fit => i = j

LEMMA NextOneEach ==
  ASSUME Good(ht), Ordered(ht), OneEach(ht), ~ht.multiples, [Next]_vars
  PROVE  OneEach(ht')
<1>1. ASSUME NEW k \in Key, NEW v \in Value, put(k, v) \/ mergeTable(k, v)
      PROVE  OneEach(ht')
  <2>1. PICK code \in Nat, there \in SUBSET DOMAIN ht.nodes :
          /\ k \in Fit => \A i \in DOMAIN ht.nodes : KeyOf(i) = k => i \in there
          /\ Becomes(PutAt(ht, k, v, code, there))
          /\ \E i \in {k} \X (1..Copies) : i \notin DOMAIN ht.nodes
    BY <1>1, PutsAt
  <2>2. ht' = PutAt(ht, k, v, code, there)
    BY <2>1 DEF Becomes
  <2>3. \E n \in DOMAIN ht'.nodes :
          /\ DOMAIN ht'.nodes = DOMAIN ht.nodes \cup {n}
          /\ IF n \in DOMAIN ht.nodes THEN n \in there /\ ~ht.multiples
             ELSE KeyOf(n) = k /\ (there = {} \/ ht.multiples)
    BY <2>1, <2>2, PutKeeps
  <2>4. PICK n \in DOMAIN ht'.nodes :
          /\ DOMAIN ht'.nodes = DOMAIN ht.nodes \cup {n}
          /\ n \notin DOMAIN ht.nodes => KeyOf(n) = k /\ there = {}
    BY <2>3
  <2>5. n \notin DOMAIN ht.nodes /\ k \in Fit => \A i \in DOMAIN ht.nodes : KeyOf(i) # k
    BY <2>1, <2>4
  <2> QED BY <2>4, <2>5 DEF OneEach
<1>2. ASSUME NEW k \in Key, NEW values, remove(k, values)
      PROVE  DOMAIN ht'.nodes \subseteq DOMAIN ht.nodes
  <2>1. PICK i \in Get(ht, k) : ht' = Unlink(ht, i)
    BY <1>2 DEF remove
  <2>2. i \in DOMAIN ht.nodes
    BY <2>1 DEF Get, Chained
  <2> QED BY <2>1, <2>2, UnlinkKeeps
<1>3. ASSUME removeAll
      PROVE  DOMAIN ht'.nodes \subseteq DOMAIN ht.nodes
  <2> DEFINE none == [i \in {} |-> 0]
  <2>1. ht'.nodes = none
    BY <1>3 DEF removeAll, RemoveAll, Good, Table
  <2> QED BY <2>1
<1>4. ASSUME NEW b \in BOOLEAN, setCaseInsensitiveKeys(b)
      PROVE  DOMAIN ht'.nodes \subseteq DOMAIN ht.nodes
  <2>1. CASE ht.sz > 0
    BY <1>4, <2>1, RehashKeeps DEF setCaseInsensitiveKeys, Becomes
  <2>2. CASE ~(ht.sz > 0)
    BY <1>4, <2>2 DEF setCaseInsensitiveKeys, Becomes, Good, Table
  <2> QED BY <2>1, <2>2
<1>5. ASSUME NEW b \in BOOLEAN, setAllowKeyMultiples(b)
      PROVE  DOMAIN ht'.nodes \subseteq DOMAIN ht.nodes
  BY <1>5 DEF setAllowKeyMultiples, Becomes, Good, Table
<1>6. ASSUME iteratorRemove
      PROVE  DOMAIN ht'.nodes \subseteq DOMAIN ht.nodes
  <2>1. at \in DOMAIN ht.nodes /\ ht' = Unlink(ht, at)
    BY <1>6 DEF iteratorRemove, Chain
  <2> QED BY <2>1, UnlinkKeeps
<1>7. ASSUME IteratorStep
      PROVE  UNCHANGED ht \/ iteratorRemove
  BY <1>7 DEF IteratorStep, iterate, first, last, next, previous, Begins
<1>8. CASE DOMAIN ht'.nodes \subseteq DOMAIN ht.nodes
  BY <1>8 DEF OneEach
<1>9. CASE UNCHANGED ht
  BY <1>9
<1>10. CASE TableStep
  BY <1>1, <1>2, <1>3, <1>4, <1>5, <1>8, <1>10 DEF TableStep
<1>11. CASE IteratorStep
  BY <1>6, <1>7, <1>8, <1>9, <1>11
<1>12. CASE UNCHANGED vars
  BY <1>9, <1>12 DEF vars
<1> QED BY <1>10, <1>11, <1>12 DEF Next

\* As long as the table is not told to take several entries of a key, a key that
\* fits has one node, over puts, merges and growth, and whether case counts or
\* not: a merge, which overlooks a key in another case, does not put a second
\* node of the very same key beside the first.
THEOREM OneNodeForAKey ==
  Spec /\ [](~ht.multiples) => []OneEach(ht)
<1>1. Init => Good(ht) /\ Ordered(ht) /\ OneEach(ht)
  <2>1. Init => OneEach(ht)
    <3> SUFFICES ASSUME Init PROVE OneEach(ht)
      OBVIOUS
    <3> DEFINE none == [i \in {} |-> 0]
    <3>1. ht.nodes = none
      BY DEF Init
    <3>2. DOMAIN ht.nodes = {}
      BY <3>1
    <3> QED BY <3>2 DEF OneEach
  <2> QED BY <2>1, InitGood, InitMaps
<1>2. Good(ht) /\ Ordered(ht) /\ OneEach(ht) /\ ~ht.multiples /\ [Next]_vars
        => (Good(ht) /\ Ordered(ht) /\ OneEach(ht))'
  BY NextGood, NextMaps, NextOneEach
<1> QED BY <1>1, <1>2, PTL DEF Spec
===============================================================================
