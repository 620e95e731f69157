--------------------------------- MODULE KeyMap --------------------------------
(***************************************************************************)
(* What a table of keys promises: put() adds one entry, or changes the     *)
(* value of one that it finds under its key, remove() takes one away, and  *)
(* what is found of the others stays as it is under every key.  An entry   *)
(* is named <<its own key, which of those with that key>>.                 *)
(***************************************************************************)

VARIABLES
  found,      \* <<k, n, v>>: under key k the entry n is found, with value v
  same,       \* the keys that count as one key
  multiples   \* a key can have several entries

vars == <<found, same, multiples>>

KeyOf(n) == n[1]

Entries(F) == {x[2] : x \in F}
Under(F, k) == {x \in F : x[1] = k}
Exact(F, k) == {x \in Under(F, k) : KeyOf(x[2]) = k}
Without(F, n) == {x \in F : x[2] # n}
Entry(n, v) == {<<l, n, v>> : l \in same[KeyOf(n)]}

Init ==
  /\ found = {} /\ same = [k \in DOMAIN same |-> {k}]
  /\ multiples = FALSE

\* One of the entries that are there gets the value v; if there is none, or if
\* a key can have several, one of the key k comes in.
Puts(k, v, there) ==
  LET before == found
      after  == found'
  IN
  /\ UNCHANGED <<same, multiples>>
  /\ \E n \in Entries(after) :
       /\ IF multiples \/ there = {} THEN KeyOf(n) = k /\ n \notin Entries(before)
          ELSE n \in Entries(there)
       /\ after = Without(before, n) \cup Entry(n, v)

\* put() changes what a lookup of its key finds.  An entry that comes from
\* another table changes one of its very key, and can stand beside one whose
\* key only counts as the same.
Put(k, v)   == Puts(k, v, Under(found, k))
Merge(k, v) == Puts(k, v, Exact(found, k))

Remove ==
  LET before == found
  IN
  /\ \E n \in Entries(before) : found' = Without(before, n)
  /\ UNCHANGED <<same, multiples>>

RemoveAll == found' = {} /\ UNCHANGED <<same, multiples>>

Multiples == multiples' = ~multiples /\ UNCHANGED <<found, same>>

\* The entries stay; they are found under more keys, or under fewer.
Fold ==
  /\ same' # same /\ UNCHANGED multiples
  /\ {<<x[2], x[3]>> : x \in found'} = {<<x[2], x[3]>> : x \in found}

Next ==
  \/ Multiples \/ Fold \/ RemoveAll \/ Remove
  \/ \E x \in found' : Put(x[1], x[3]) \/ Merge(x[1], x[3])

Spec == Init /\ [][Next]_vars
================================================================================
