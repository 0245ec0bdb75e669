---------------------------- MODULE GenerationStore ----------------------------
(***************************************************************************)
(* The two stores the scheduler's cache is made of.  A ListStore keeps its  *)
(* objects in a list with the one set last in front and numbers every Set.  *)
(* A RawStore is the copy a snapshot holds: it remembers up to which number *)
(* it has seen the list, and which of its own keys were touched since.      *)
(***************************************************************************)
EXTENDS Naturals, Sequences, FiniteSets, SequencesExt

NewListStore == [generation |-> 0, items |-> <<>>]
NewRawStore == [generation |-> 0, store |-> [k \in {} |-> {}], updated |-> {}]

-----------------------------------------------------------------------------
ListKeys(s) == {s.items[i].key : i \in 1 .. Len(s.items)}

ListObj(s, k) == s.items[SelectInSeq(s.items, LAMBDA e : e.key = k)].obj

ListGet(s, k, none) == IF k \in ListKeys(s) THEN ListObj(s, k) ELSE none

ListDelete(s, k) == [s EXCEPT !.items = SelectSeq(@, LAMBDA e : e.key # k)]

(* Set: a new generation, and to the head of the list.                      *)
ListSet(s, k, obj) ==
  LET g == s.generation + 1
  IN  [generation |-> g,
       items |-> <<[key |-> k, obj |-> obj, gen |-> g]>> \o ListDelete(s, k).items]

-----------------------------------------------------------------------------
RawGet(s, k, none) == IF k \in DOMAIN s.store THEN s.store[k] ELSE none

RawSet(s, k, obj) ==
  [s EXCEPT !.store = [x \in DOMAIN @ \cup {k} |-> IF x = k THEN obj ELSE @[x]],
            !.updated = @ \cup {k}]

RawDelete(s, k) ==
  [s EXCEPT !.store = [x \in DOMAIN @ \ {k} |-> @[x]], !.updated = @ \cup {k}]

-----------------------------------------------------------------------------
(* The keys UpdateRawStore copies: from the head of the list to the first   *)
(* item the copy has seen, and those touched in the copy.                   *)
StaleKeys(list, raw) ==
  LET seen == SelectInSeq(list.items, LAMBDA e : e.gen <= raw.generation)
      fresh == IF seen = 0 THEN list.items ELSE SubSeq(list.items, 1, seen - 1)
  IN  {fresh[i].key : i \in 1 .. Len(fresh)} \cup (raw.updated \cap ListKeys(list))

(* DefaultCleanFunc: as many keys the list does not have as the copy is     *)
(* longer, in the order of a Go map.                                        *)
DefaultCleanFunc(list, keys) ==
  LET extra == keys \ ListKeys(list)
      diff == Cardinality(keys) - Cardinality(ListKeys(list))
  IN  {gone \in SUBSET extra :
         Cardinality(gone) = IF diff <= 0 THEN 0
                             ELSE IF diff < Cardinality(extra) THEN diff ELSE Cardinality(extra)}

(* UpdateRawStore, given what cloneFunc makes of every stale key.           *)
UpdateRawStore(list, raw, cloned) ==
  LET keys == DOMAIN raw.store \cup DOMAIN cloned
  IN  {[generation |-> list.generation,
        store |-> [k \in keys \ gone |-> IF k \in DOMAIN cloned THEN cloned[k] ELSE raw.store[k]],
        updated |-> gone]
         : gone \in DefaultCleanFunc(list, keys)}
=============================================================================
