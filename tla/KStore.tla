-------------------------------- MODULE KStore --------------------------------
(***************************************************************************)
(* The storage of a DHT node (KStore in kStore.go): what an announce adds  *)
(* and what the passing of time takes away.  Every operation runs under    *)
(* the lock from its first line to its last, so each is an operator from   *)
(* stores to stores.                                                       *)
(*                                                                         *)
(* expirationTimeMap and republishTimeMap get and lose their entries       *)
(* together, so one set of pairs stands for both.                          *)
(***************************************************************************)
EXTENDS Integers, FiniteSets, SequencesExt

CONSTANTS
  Keys,     \* infohashes
  Values,   \* addresses, as strings: numbers, for the order
  SepKeys   \* infohashes with the bytes "/data:" among their 20

ASSUME KStoreAssumption == Values \subseteq Int /\ SepKeys \subseteq Keys

Pairs == Keys \X Values

\* data maps a key that is not in the map to <<>>: no list in it is empty.
\* timed: pairs with an expiration time; due: those whose time has passed.
KStores == [data : [Keys -> Seq(Values)], timed : SUBSET Pairs, due : SUBSET Pairs]

NewKStore == [data |-> [k \in Keys |-> <<>>], timed |-> {}, due |-> {}]

\* sort.SearchStrings: the least position, from 1, of a value not below v.
SearchStrings(l, v) == 1 + Cardinality({i \in DOMAIN l : l[i] < v})

Found(l, v) == LET i == SearchStrings(l, v) IN i <= Len(l) /\ l[i] = v

\* Mutant: the value goes to the end.
Inserted_last(l, v) == IF Found(l, v) THEN l ELSE Append(l, v)

Inserted(l, v) == IF Found(l, v) THEN l ELSE InsertAt(l, SearchStrings(l, v), v)

\* A pair that has a time gets a new one and data is left alone.
Store(st, k, v) ==
  [data  |-> IF <<k, v>> \in st.timed THEN st.data
             ELSE [st.data EXCEPT ![k] = Inserted(@, v)],
   timed |-> st.timed \cup {<<k, v>>},
   due   |-> st.due \ {<<k, v>>}]

RemoveKeyValue(st, k, v) ==
  IF Found(st.data[k], v)
  THEN [st EXCEPT !.data[k] = RemoveAt(@, SearchStrings(@, v))]
  ELSE st

\* A key with the separator in it is split at the wrong place: what is removed
\* then is in no list.
ExpireKeys(st) ==
  LET Expired(s, p) == IF p[1] \in SepKeys THEN s ELSE RemoveKeyValue(s, p[1], p[2])
      Rest == FoldSet(LAMBDA p, s : Expired(s, p), st, st.due)
  IN  [Rest EXCEPT !.timed = @ \ st.due, !.due = {}]

TimePasses(st, p) == [st EXCEPT !.due = @ \cup {p}]

Stored(st) == {p \in Pairs : \E i \in DOMAIN st.data[p[1]] : st.data[p[1]][i] = p[2]}

Ascending(l) == \A i \in 1 .. Len(l) - 1 : l[i] < l[i + 1]

\* Lists are sorted, as the search needs them, and a pair is in a list exactly
\* when it has a time at which it goes; a pair of SepKeys may stay behind.
Agrees(st) ==
  /\ \A k \in Keys : Ascending(st.data[k])
  /\ st.timed \subseteq Stored(st)
  /\ st.due \subseteq st.timed
  /\ \A p \in Stored(st) \ st.timed : p[1] \in SepKeys
===============================================================================
