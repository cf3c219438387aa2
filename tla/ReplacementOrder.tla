-------------------------- MODULE ReplacementOrder --------------------------
(***************************************************************************)
(* What the replacement policies of the cache simulator (csf_assign03)     *)
(* promise, without timestamps: each set keeps its blocks in the order in  *)
(* which they will be replaced, the next one first.  A new block goes to   *)
(* the end, and when the set is full the first one leaves.  Under LRU a    *)
(* block that is used goes to the end too; under FIFO it stays.            *)
(***************************************************************************)
EXTENDS Integers, Sequences

CONSTANTS
  Sets,      \* the indices of the sets
  Tags,      \* the tags of the blocks
  NumSlots   \* how many blocks a set holds

VARIABLES
  lru,       \* the policy: least recently used, or first in first out
  order,     \* the tags of each set, the next one to be replaced first
  last       \* the last access: the set, the tag and what became of it

orderVars == <<lru, order, last>>

\* s without what it has at k.
Without(s, k) == SubSeq(s, 1, k - 1) \o SubSeq(s, k + 1, Len(s))

Holds(i, t) == \E k \in DOMAIN order[i] : order[i][k] = t

Init ==
  /\ lru \in BOOLEAN
  /\ order = [i \in Sets |-> <<>>]
  /\ last = <<>>

\* Block t of set i is used, and is there.
Use(i, t) ==
  /\ \E k \in DOMAIN order[i] :
       /\ order[i][k] = t
       /\ order' = [order EXCEPT ![i] = IF lru THEN Append(Without(@, k), t) ELSE @]
  /\ last' = <<i, t, "hit">>
  /\ UNCHANGED lru

\* Block t of set i is brought in.
Bring(i, t) ==
  /\ ~Holds(i, t)
  /\ order' = [order EXCEPT
       ![i] = Append(IF Len(@) = NumSlots THEN Tail(@) ELSE @, t)]
  /\ last' = <<i, t, "fill">>
  /\ UNCHANGED lru

\* Block t of set i is not there, and not brought in.
Pass(i, t) ==
  /\ ~Holds(i, t)
  /\ last' = <<i, t, "bypass">>
  /\ UNCHANGED <<lru, order>>

Next == \E i \in Sets, t \in Tags : Use(i, t) \/ Bring(i, t) \/ Pass(i, t)

Spec == Init /\ [][Next]_orderVars
=============================================================================
