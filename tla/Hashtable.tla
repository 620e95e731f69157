------------------------------- MODULE Hashtable -------------------------------
(***************************************************************************)
(* The table of keys and values of amanita/Hashtable and one iterator over *)
(* it.  A node of a chain is named <<its key, which of those with that     *)
(* key>>; instead of the pointer to the next one it has its depth, 0 at    *)
(* the head.                                                               *)
(***************************************************************************)
EXTENDS Integers, FiniteSets

CONSTANTS
  Number,     \* keys of an integer or pointer type, as machine words
  Text,       \* keys of type char *
  Lower,      \* a text's lower case
  Crc,        \* crc32 of a text
  Value,
  None,
  HashSize,   \* how many values a hash_t has: 2^32
  Cap,        \* the capacity that the constructor was given
  Restyle,    \* bound: the style changes with texts in the table
  MaxNodes,   \* bound: nodes in the table
  Copies,     \* bound: nodes with one key
  MaxCap      \* bound: no change of style makes the table larger than that

Key == Number \cup Text
Id  == Key \X (1..Copies)

ASSUME HashtableAssumption ==
  /\ Number \subseteq Nat /\ Number \cap Text = {} /\ None \notin Id
  /\ Lower \in [Text -> Text] /\ \A t \in Text : Lower[Lower[t]] = Lower[t]
  /\ HashSize \in Nat \ {0} /\ Crc \in [Text -> 0..HashSize - 1]
  /\ Cap \in Nat \ {0} /\ MaxNodes \in Nat /\ Copies \in Nat /\ MaxCap \in Nat

VARIABLES
  ht,      \* the table
  at,      \* the iterator's node
  index,   \* and its place
  filter,  \* history: the keys that the walk is after
  walk,    \* history: which way it goes
  due,     \* history: those of the nodes that were there at its start
  seen,    \* history: the nodes that it has returned
  again    \* history: it has returned one of them twice

iterVars == <<at, index>>
walkVars == <<filter, walk, due, seen, again>>
vars == <<ht, iterVars, walkVars>>

\* The places of an iterator that are not in the table.
BeforeFirst == -1
AfterLast   == -2
Start       == -3
Empty       == -4

NodeType(cap) ==
  [hash : 0..HashSize - 1, value : Value, bucket : 0..cap - 1, depth : Nat]

TypeOK ==
  /\ ht.cap \in Nat \ {0} /\ ht.full \in Nat /\ ht.sz \in Nat
  /\ {ht.table, ht.fold, ht.multiples} \subseteq BOOLEAN
  /\ DOMAIN ht.nodes \subseteq Id
  /\ ht.nodes \in [DOMAIN ht.nodes -> NodeType(ht.cap)]
  /\ at \in Id \cup {None} /\ index \in Int
  /\ filter \in {Text, Key}
  /\ walk \in {"new", "forward", "backward"}
  /\ due \subseteq Id /\ seen \subseteq Id /\ again \in BOOLEAN

-----------------------------------------------------------------------------
(* Keys, chains and the order in which the table is walked. *)

KeyOf(i) == i[1]

\* The hash_t of a node, and the number by which a key is looked up: an
\* integer is its own, at its full width.
Hash(k, fold) ==
  IF k \in Text THEN Crc[IF fold THEN Lower[k] ELSE k] ELSE k % HashSize
Code(k, fold) == IF k \in Text THEN Hash(k, fold) ELSE k

SameKey(k, l, fold) ==
  \/ k = l
  \/ fold /\ {k, l} \subseteq Text /\ Lower[k] = Lower[l]

Before(h, i, j) ==
  LET m == h.nodes[i]
      n == h.nodes[j]
  IN  \/ m.bucket < n.bucket
      \/ m.bucket = n.bucket /\ m.depth < n.depth

FirstOf(h, S) == CHOOSE i \in S : \A j \in S \ {i} : Before(h, i, j)

\* A slip of previous(): a chain is entered at its head.
HeadOfLast(h, S) ==
  FirstOf(h, {i \in S : \A j \in S : h.nodes[j].bucket <= h.nodes[i].bucket})

LastOf(h, S)  == CHOOSE i \in S : \A j \in S \ {i} : Before(h, j, i)

\* The nodes with key k of the chain to which `code' leads.
Chained(h, k, code, fold) ==
  {i \in DOMAIN h.nodes :
     /\ h.sz > 0
     /\ h.nodes[i].bucket = code % h.cap
     /\ SameKey(KeyOf(i), k, fold)
     /\ k \in Text => h.nodes[i].hash = code}

\* What get(key, Vector) collects; get(key) returns the first of them.
Get(h, k) == Chained(h, k, Code(k, h.fold), h.fold)

-----------------------------------------------------------------------------
(* The operations on a table. *)

\* The load factor is its default of 0.5.
FullOf(cap) == cap \div 2

\* A slip of rehash(): the limit stays as it was.
RehashKeepsFull(h, fold) ==
  IF ~h.table THEN [h EXCEPT !.table = TRUE, !.sz = 0, !.fold = fold] ELSE h

\* Growth turns the chains round.  The new codes of the texts are those of
\* the style that the table had.
Rehash(h, fold) ==
  IF ~h.table
  THEN [h EXCEPT !.table = TRUE, !.sz = 0, !.fold = fold, !.full = FullOf(h.cap)]
  ELSE LET cap == 2 * h.cap + 1
           hash(i) == IF fold # h.fold /\ KeyOf(i) \in Text
                      THEN Hash(KeyOf(i), h.fold) ELSE h.nodes[i].hash
           after(i) == {j \in DOMAIN h.nodes :
                          hash(j) % cap = hash(i) % cap /\ Before(h, i, j)}
       IN  [h EXCEPT !.cap = cap, !.fold = fold, !.full = FullOf(cap),
              !.nodes = [i \in DOMAIN h.nodes |->
                 [hash |-> hash(i), value |-> h.nodes[i].value,
                  bucket |-> hash(i) % cap, depth |-> Cardinality(after(i))]]]

\* A slip of put(): the chain is chosen before the table grows.
InsertBeforeGrowth(h, k, v, code) ==
  LET g == IF h.sz = h.full THEN Rehash(h, h.fold) ELSE h
      b == code % h.cap
      new == CHOOSE i \in {k} \X (1..Copies) : i \notin DOMAIN g.nodes
  IN  [g EXCEPT !.sz = @ + 1,
         !.nodes = [i \in DOMAIN g.nodes \cup {new} |->
            IF i = new
            THEN [hash |-> Hash(k, g.fold), value |-> v, bucket |-> b, depth |-> 0]
            ELSE [g.nodes[i] EXCEPT !.depth = IF g.nodes[i].bucket = b THEN @ + 1 ELSE @]]]

\* The new node is the head of its chain.
Insert(h, k, v, code) ==
  LET g == IF h.sz = h.full THEN Rehash(h, h.fold) ELSE h
      b == code % g.cap
      new == CHOOSE i \in {k} \X (1..Copies) : i \notin DOMAIN g.nodes
  IN  [g EXCEPT !.sz = @ + 1,
         !.nodes = [i \in DOMAIN g.nodes \cup {new} |->
            IF i = new
            THEN [hash |-> Hash(k, g.fold), value |-> v, bucket |-> b, depth |-> 0]
            ELSE [g.nodes[i] EXCEPT !.depth = IF g.nodes[i].bucket = b THEN @ + 1 ELSE @]]]

\* A key that is there gets the new value, unless keys can have several.
PutAt(h, k, v, code, there) ==
  IF there # {} /\ ~h.multiples
  THEN [h EXCEPT !.nodes[FirstOf(h, there)].value = v]
  ELSE Insert(h, k, v, code)

\* A slip of put(): the texts are compared by strcmp.
PutCompares(h, k, v) ==
  LET code == Code(k, h.fold) IN PutAt(h, k, v, code, Chained(h, k, code, FALSE))

Put(h, k, v) == PutAt(h, k, v, Code(k, h.fold), Get(h, k))

\* An entry of another table goes by its hash_t and is compared by strcmp.
PutNode(h, k, v) ==
  LET code == Hash(k, h.fold) IN PutAt(h, k, v, code, Chained(h, k, code, FALSE))

\* A slip of remove(): the whole chain moves up.
UnlinkMovesAll(h, i) ==
  [h EXCEPT !.sz = @ - 1,
     !.nodes = [j \in DOMAIN h.nodes \ {i} |->
        [h.nodes[j] EXCEPT !.depth =
           IF h.nodes[j].bucket = h.nodes[i].bucket THEN @ - 1 ELSE @]]]

Unlink(h, i) ==
  LET n == h.nodes[i] IN
  [h EXCEPT !.sz = @ - 1,
     !.nodes = [j \in DOMAIN h.nodes \ {i} |->
        [h.nodes[j] EXCEPT !.depth =
           IF h.nodes[j].bucket = n.bucket /\ @ > n.depth THEN @ - 1 ELSE @]]]

RemoveAll(h) ==
  [h EXCEPT !.nodes = [i \in {} |-> 0], !.table = FALSE,
            !.cap = 11, !.sz = 0, !.full = 0]

-----------------------------------------------------------------------------
(* Calls on the table while an iterator is open.  Bound: there is room.     *)

Room(k) ==
  /\ ht.sz < MaxNodes
  /\ \E i \in {k} \X (1..Copies) : i \notin DOMAIN ht.nodes

\* Bound: only put() and remove() come in the middle of a walk.
BetweenWalks == walk = "new"

Goes(node, place) == at' = node /\ index' = place

\* Bound: an iterator is given up when the table grows under it, when its node
\* is removed by another call, and when its own remove() has left it where
\* previous() would pass over a node.
GivenUp ==
  /\ Goes(None, Empty)
  /\ walk' = "new" /\ due' = {} /\ seen' = {} /\ again' = FALSE
  /\ UNCHANGED filter

Becomes(h) ==
  /\ ht' = h
  /\ IF ht.table /\ h.cap # ht.cap THEN GivenUp ELSE UNCHANGED <<iterVars, walkVars>>

put(k, v) == Room(k) /\ Becomes(Put(ht, k, v))

\* merge(Hashtable), one entry; the entries follow each other.  merge(Vector)
\* puts each of its elements.
mergeTable(k, v) == BetweenWalks /\ Room(k) /\ Becomes(PutNode(ht, k, v))

Forgets(gone) ==
  IF at \in gone THEN GivenUp
  ELSE /\ due' = due \ gone /\ seen' = seen \ gone
       /\ UNCHANGED <<iterVars, filter, walk, again>>

\* remove(key), and remove(key, type) with the values of that type.
remove(k, values) ==
  LET there == {i \in Get(ht, k) : ht.nodes[i].value \in values} IN
  \E i \in there :
    /\ i = FirstOf(ht, there)
    /\ ht' = Unlink(ht, i)
    /\ Forgets({i})

removeAll ==
  /\ BetweenWalks
  /\ ht' = RemoveAll(ht)
  /\ Forgets(Id)

setCaseInsensitiveKeys(b) ==
  /\ BetweenWalks
  /\ ht.sz > 0 => 2 * ht.cap < MaxCap
  /\ b # ht.fold /\ (Restyle \/ \A i \in DOMAIN ht.nodes : KeyOf(i) \notin Text)
  /\ Becomes(IF ht.sz > 0 THEN Rehash(ht, b) ELSE [ht EXCEPT !.fold = b])

setAllowKeyMultiples(b) ==
  /\ BetweenWalks
  /\ b # ht.multiples
  /\ Becomes([ht EXCEPT !.multiples = b])

-----------------------------------------------------------------------------
(* The iterator.  Bound: a walk keeps the type of key that it starts with.  *)
(* Where the index is not in the table the node is not looked at any more. *)

Wanted(F) == {i \in DOMAIN ht.nodes : KeyOf(i) \in F}
Chain(b)  == {i \in DOMAIN ht.nodes : ht.nodes[i].bucket = b}
Deeper(i) == {j \in Chain(ht.nodes[i].bucket) : ht.nodes[j].depth > ht.nodes[i].depth}

Returns(i) == Goes(i, ht.nodes[i].bucket)

\* A walk takes the direction of its first call and keeps it.
Walks(direction, S) ==
  /\ walk \in {"new", direction} /\ walk' = direction
  /\ seen' = seen \cup S /\ again' = (again \/ S \cap seen # {})
  /\ UNCHANGED <<filter, due>>

Begins(F, direction, S) ==
  /\ filter' = F /\ walk' = direction /\ due' = Wanted(F)
  /\ seen' = S /\ again' = FALSE
  /\ UNCHANGED ht

\* iterate()
iterate(F) ==
  /\ Goes(None, IF ht.sz > 0 THEN Start ELSE Empty)
  /\ Begins(F, "new", {})

first(F) ==
  LET S == Wanted(F) IN
  IF S # {} THEN Returns(FirstOf(ht, S)) /\ Begins(F, "forward", {FirstOf(ht, S)})
  ELSE Goes(None, Empty) /\ Begins(F, "forward", {})

last(F) ==
  LET S == Wanted(F) IN
  IF S # {} THEN Returns(LastOf(ht, S)) /\ Begins(F, "backward", {LastOf(ht, S)})
  ELSE Goes(None, Empty) /\ Begins(F, "backward", {})

next ==
  LET place == IF index < 0 THEN BeforeFirst ELSE index
      chain == IF index >= 0 /\ at # None THEN Deeper(at) \cap Wanted(filter) ELSE {}
      later == {i \in Wanted(filter) : ht.nodes[i].bucket > place}
  IN
  /\ UNCHANGED ht
  /\ \/ ht.sz = 0 /\ Goes(None, Empty) /\ UNCHANGED walkVars
     \/ /\ ht.sz > 0 /\ index # AfterLast
        /\ \/ /\ chain # {}
              /\ Goes(FirstOf(ht, chain), place) /\ Walks("forward", {FirstOf(ht, chain)})
           \/ /\ chain = {} /\ later # {}
              /\ Returns(FirstOf(ht, later)) /\ Walks("forward", {FirstOf(ht, later)})
           \/ /\ chain \cup later = {}
              /\ Goes(None, AfterLast) /\ Walks("forward", {})

previous ==
  LET head  == index >= 0 /\ at # None /\ at \in Chain(index) /\ ht.nodes[at].depth = 0
      place == IF index < 0 THEN ht.cap - 1 ELSE IF head THEN index - 1 ELSE index
      node  == IF index < 0 \/ head THEN None ELSE at
      rest  == {i \in Wanted(filter) :
                  \/ ht.nodes[i].bucket < place
                  \/ /\ ht.nodes[i].bucket = place
                     /\ node \in Chain(place) => Before(ht, i, node)}
  IN
  /\ UNCHANGED ht
  /\ \/ ht.sz = 0 /\ Goes(None, Empty) /\ UNCHANGED walkVars
     \/ /\ ht.sz > 0 /\ index # BeforeFirst
        /\ \/ /\ rest # {}
              /\ Returns(LastOf(ht, rest)) /\ Walks("backward", {LastOf(ht, rest)})
           \/ /\ rest = {}
              /\ Goes(None, BeforeFirst) /\ Walks("backward", {})

\* A slip of iterator::remove(): the index stays when the head goes.
PlaceKept(before) == IF ht.sz = 1 THEN Empty ELSE index

PlaceAfter(before) ==
  IF ht.sz = 1 THEN Empty ELSE IF before = {} THEN index - 1 ELSE index

\* The iterator steps back to the node before the removed one, or out of the
\* chain: next() goes on from there, previous() from beyond it.  A node
\* that is not in the chain of the index, as after growth, is undefined
\* behaviour.
iteratorRemove ==
  /\ index >= 0 /\ at # None /\ at \in Chain(index)
  /\ LET n == ht.nodes[at]
         before == {i \in Chain(index) : ht.nodes[i].depth = n.depth - 1}
     IN  /\ ht' = Unlink(ht, at)
         /\ IF walk = "backward" /\ before # {} THEN GivenUp
            ELSE /\ Goes(IF before = {} THEN None ELSE FirstOf(ht, before), PlaceAfter(before))
                 /\ due' = due \ {at} /\ seen' = seen \ {at}
                 /\ UNCHANGED <<filter, walk, again>>

-----------------------------------------------------------------------------

Init ==
  /\ ht = [nodes |-> [i \in {} |-> 0], table |-> FALSE, cap |-> Cap, sz |-> 0,
           full |-> 0, fold |-> FALSE, multiples |-> FALSE]
  /\ at = None /\ index = Empty
  /\ filter = Key /\ walk = "new" /\ due = {} /\ seen = {} /\ again = FALSE

TableStep ==
  \/ \E k \in Key, v \in Value :
       put(k, v) \/ mergeTable(k, v)
  \/ \E k \in Key, values \in {Value} \cup {{v} : v \in Value} : remove(k, values)
  \/ removeAll
  \/ \E b \in BOOLEAN : setCaseInsensitiveKeys(b) \/ setAllowKeyMultiples(b)

IteratorStep ==
  \/ \E F \in {Text, Key} : iterate(F) \/ first(F) \/ last(F)
  \/ next \/ previous \/ iteratorRemove

Next == TableStep \/ IteratorStep

Spec == Init /\ [][Next]_vars

-----------------------------------------------------------------------------
(* Properties. *)

\* Every key that was put is found: the chain that a lookup goes to is the one
\* that the node hangs in, with the code that it compares.
Found == \A i \in DOMAIN ht.nodes : i \in Get(ht, KeyOf(i))

\* The table grows before its chains do: it never holds more than its load.
GrowsInTime == ht.sz > 0 => ht.table /\ ht.sz <= ht.full

\* A walk forward, with removals by the iterator and calls on the table that
\* do not make it grow, comes by every node that is there all the time, once.
ForwardOnce ==
  walk = "forward" => ~again /\ (index = AfterLast => due \subseteq seen)

\* So does a walk backward, until the iterator removes a node with another one
\* before it in its chain.
BackwardOnce ==
  walk = "backward" => ~again /\ (index = BeforeFirst => due \subseteq seen)

\* <<k, i, v>>: a lookup of the key k comes by the node i, which has the value v.
FoundIn(h) == UNION {{<<k, i, h.nodes[i].value>> : i \in Get(h, k)} : k \in Key}

Same(fold) == [k \in Key |-> {l \in Key : SameKey(k, l, fold)}]

Map == INSTANCE KeyMap WITH
  found <- FoundIn(ht), same <- Same(ht.fold), multiples <- ht.multiples

\* Map's variables are those of ht alone.
MapStep ==
  \/ UNCHANGED ht
  \/ /\ UNCHANGED Map!vars \/ Map!Next
     /\ \A k \in Key, v \in Value :
          /\ put(k, v) => Map!Put(k, v)
          /\ mergeTable(k, v) => Map!Merge(k, v)

\* The table is a map of its keys, over growth, merges, removals and walks:
\* put() overwrites what a lookup of its key finds, in either case of a text
\* that the table folds, and only a merge leaves it beside the new entry.
ImplementsMap == Map!Init /\ [][MapStep]_vars
================================================================================
