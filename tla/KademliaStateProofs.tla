-------------------------- MODULE KademliaStateProofs --------------------------
(***************************************************************************)
(* Proofs about the state of a network of DHT nodes: its types, that the   *)
(* maps of a store agree, that what is stored and what a download is told  *)
(* was announced for its key, and that each round of LookUP begins nearer  *)
(* to the target.                                                          *)
(***************************************************************************)
EXTENDS KademliaProofs

-------------------------------------------------------------------------------
(* The inductive invariant of the state, ... *)

\* A node knows each id once, in the bucket of the id.
TablesKept == table \in [Nodes -> Tables] /\ \A n \in Nodes : InPlace(table[n], Id[n])

\* Stores agree, and what is in them was announced.
StoreKept(st) ==
  st \in KStores /\ Agrees(st) /\ IsFiniteSet(st.due) /\ Stored(st) \subseteq announced

StoresKept == store \in [Nodes -> KStores] /\ \A n \in Nodes : StoreKept(store[n])

\* Datagrams are typed; only infohashes are asked for and announced, and what is
\* announced is in the history.
Announced(m) == m.y = "q" /\ m.q = "announce_peer" => <<m.target, m.from>> \in announced
AboutKey(m) == m.y = "q" /\ m.q \in {"get_peers", "announce_peer"} => m.target \in Keys

NetKept == \A m \in net : MessageOK(m) /\ AboutKey(m) /\ Announced(m)

\* What a node expects, and who waits for it and sends it.
Expectations == {NoEntry} \cup [q : QueryNames, to : Nodes, chan : Chans]
ReplyOK(r) == r = Nil \/ (MessageOK(r) /\ r.y = "r")

RoutinesKept ==
  /\ expected \in [Nodes -> [Tids -> Expectations]]
  /\ \A w \in waiters : w.chan \in Chans /\ w.tid \in Tids /\ w.q \in {"ping", "lookup", "announce"}
  /\ \A p \in pend \cup fwd : p.chan \in Chans /\ ReplyOK(p.resp)
  /\ \A f \in fwd : f.resp # Nil

\* The nodes that a round asks.
Round(call) == Min({ALPHA, Len(call.nl)})

\* How far a call is, and what it has by then.
Phase(call) ==
  /\ call.use \in {"download", "announce"} => call.target \in Keys
  /\ call.pc \in {"idle", "ping"} => call.asked = <<>>
  /\ call.pc \in {"idle", "ping", "pinged", "pong"} => call.round = 0
  /\ call.pc = "pinged" => Len(call.asked) = 1
  /\ call.pc = "write" => Len(call.asked) < Round(call)
  /\ call.pc = "register" => call.asked # <<>> /\ Len(call.asked) <= Round(call)
  /\ call.pc \in {"write", "register", "collect"} =>
       call.round > 0 /\ call.nl # <<>> /\ call.closest = call.nl[1]
  /\ call.pc \in {"message", "announce"} => call.use = "announce"
  /\ call.pc = "announce" => call.tid \in Tids
  /\ call.todo \cup call.sent # {} => call.pc = "announce"
  /\ Unique(call.nl)
  /\ \A i \in DOMAIN call.results : call.results[i].y = "r"

\* A call announces what is in the history.
Announces(call) == call.pc = "announce" => <<call.target, call.by>> \in announced

CallsKept == \A c \in Calls : CallOK(calls[c]) /\ Phase(calls[c]) /\ Announces(calls[c])

Counts ==
  /\ tids \in [Nodes -> 0 .. MaxTid]
  /\ announced \subseteq Pairs /\ reused \in 0 .. MaxReuse /\ expired \subseteq Calls \X Nat

StateInv == TablesKept /\ StoresKept /\ NetKept /\ RoutinesKept /\ CallsKept /\ Counts

-------------------------------------------------------------------------------
(* ... and that of what is told, which holds while no transaction id is drawn
   twice. *)

For(key, list) == \A i \in DOMAIN list : <<key, list[i]>> \in announced

\* The query with a transaction id asks for the key, and the answers are about it.
Right(n, t, key) == \A m \in net :
  /\ m.y = "q" /\ m.q = "get_peers" /\ m.from = n /\ m.tid = t => m.target = key
  /\ m.y = "r" /\ m.what = "values" /\ m.to = n /\ m.tid = t => For(key, m.list)

Drawn(m) == m.tid <= tids[IF m.y = "q" THEN m.from ELSE m.to]

EntryTold(n, t) ==
  LET e == expected[n][t] IN e # NoEntry =>
    /\ t <= tids[n]
    /\ calls[e.chan[1]].pc # "idle"
    /\ e.q = "ping" => e.chan[2] = 0
    /\ e.q = "get_peers" => Right(n, t, calls[e.chan[1]].target)

SenderTold(p) ==
  /\ calls[p.chan[1]].pc # "idle"
  /\ p.chan[2] # 0 /\ p.resp # Nil /\ p.resp.what = "values" => For(calls[p.chan[1]].target, p.resp.list)

CallTold(call) ==
  /\ call.pc = "announce" => call.tid <= tids[call.by]
  /\ call.pc \in {"pinged", "register"} => call.asked[Len(call.asked)] <= tids[call.by]
  /\ call.pc = "register" /\ call.use = "download" => Right(call.by, call.asked[Len(call.asked)], call.target)
  /\ \A i \in DOMAIN call.results : call.results[i].what = "values" => For(call.target, call.results[i].list)
  /\ For(call.target, call.ret)

Told ==
  /\ \A m \in net : Drawn(m)
  /\ \A n \in Nodes, t \in Tids : EntryTold(n, t)
  /\ \A p \in pend \cup fwd : SenderTold(p)
  /\ \A c \in Calls : CallTold(calls[c])

ToldInv == reused = 0 => Told

-------------------------------------------------------------------------------
(* What a step leaves alone. *)

\* The steps of nodes.
LEMMA NodesLeave ==
  /\ \A n \in Nodes, m \in net : HandleQuery(n, m) =>
       UNCHANGED <<expected, tids, calls, waiters, pend, fwd, announced, reused, expired>>
  /\ \A n \in Nodes, m \in net : HandleResponse(n, m) =>
       UNCHANGED <<store, tids, calls, waiters, fwd, announced, reused, expired>>
  /\ \A n \in Nodes, t \in Tids : Sweep(n, t) =>
       UNCHANGED <<table, store, tids, net, calls, waiters, pend, fwd, announced, reused, expired>>
  /\ \A n \in Nodes, p \in Pairs : Expire(n, p) =>
       UNCHANGED <<table, expected, tids, net, calls, waiters, pend, fwd, announced, reused, expired>>
  /\ \A n \in Nodes : CheckForExpirationTime(n) =>
       UNCHANGED <<table, expected, tids, net, calls, waiters, pend, fwd, announced, reused, expired>>
  /\ \A n \in Nodes : Leave(n) =>
       UNCHANGED <<table, store, expected, tids, net, calls, waiters, pend, fwd, announced, reused, expired>>
  /\ \A f \in fwd : SendOnClosed(f) =>
       UNCHANGED <<table, store, expected, tids, net, calls, waiters, pend, fwd, announced, reused, expired>>
  /\ UNCHANGED vars =>
       UNCHANGED <<table, store, expected, tids, net, calls, waiters, pend, fwd, announced, reused, expired>>
<1>1. ASSUME NEW n \in Nodes, NEW m \in net, HandleQuery(n, m)
      PROVE  UNCHANGED <<expected, tids, calls, waiters, pend, fwd, announced, reused, expired>>
  BY <1>1 DEF HandleQuery, routines, history
<1>2. ASSUME NEW n \in Nodes, NEW m \in net, HandleResponse(n, m)
      PROVE  UNCHANGED <<store, tids, calls, waiters, fwd, announced, reused, expired>>
  BY <1>2 DEF HandleResponse, history
<1>3. ASSUME NEW n \in Nodes, NEW t \in Tids, Sweep(n, t)
      PROVE  UNCHANGED <<table, store, tids, net, calls, waiters, pend, fwd, announced, reused, expired>>
  BY <1>3 DEF Sweep, routines, history
<1>4. ASSUME NEW n \in Nodes, NEW p \in Pairs, Expire(n, p)
      PROVE  UNCHANGED <<table, expected, tids, net, calls, waiters, pend, fwd, announced, reused, expired>>
  BY <1>4 DEF Expire, rpc, routines, history
<1>5. ASSUME NEW n \in Nodes, CheckForExpirationTime(n)
      PROVE  UNCHANGED <<table, expected, tids, net, calls, waiters, pend, fwd, announced, reused, expired>>
  BY <1>5 DEF CheckForExpirationTime, rpc, routines, history
<1>6. ASSUME NEW n \in Nodes, Leave(n)
      PROVE  UNCHANGED <<table, store, expected, tids, net, calls, waiters, pend, fwd, announced, reused, expired>>
  BY <1>6 DEF Leave, rpc, routines, history
<1>7. ASSUME NEW f \in fwd, SendOnClosed(f)
      PROVE  UNCHANGED <<table, store, expected, tids, net, calls, waiters, pend, fwd, announced, reused, expired>>
  BY <1>7 DEF SendOnClosed, rpc, routines, history
<1>8. ASSUME UNCHANGED vars
      PROVE  UNCHANGED <<table, store, expected, tids, net, calls, waiters, pend, fwd, announced, reused, expired>>
  BY <1>8 DEF vars
<1> QED
  BY <1>1, <1>2, <1>3, <1>4, <1>5, <1>6, <1>7, <1>8

\* The steps of calls.
LEMMA CallsLeave ==
  ASSUME NEW c \in Calls
  PROVE
  /\ \A r \in Requests[c] : Call(c, r) =>
       UNCHANGED <<table, store, expected, tids, net, waiters, pend, fwd, announced, reused, expired>>
  /\ \A n, b : RefreshBucket(c, n, b) =>
       UNCHANGED <<table, store, expected, tids, net, waiters, pend, fwd, announced, reused, expired>>
  /\ \A t \in Tids : WriteQuery(c, t) =>
       UNCHANGED <<table, store, expected, waiters, pend, fwd, announced, expired>>
  /\ Register(c) => UNCHANGED <<table, store, tids, net, pend, fwd, announced, reused, expired>>
  /\ \A f \in fwd : Collect(c, f) =>
       UNCHANGED <<table, store, expected, tids, net, waiters, pend, announced, reused, expired>>
  /\ CollectTimesOut(c) =>
       UNCHANGED <<table, store, expected, tids, net, waiters, pend, fwd, announced, reused>>
  /\ \A t \in Tids : MakeAnnounce(c, t) =>
       UNCHANGED <<table, store, expected, net, waiters, pend, fwd, expired>>
  /\ \A t \in Tids : WriteFails(c, t) =>
       UNCHANGED <<table, store, expected, net, waiters, pend, fwd, announced, expired>>
  /\ \A i \in calls[c].todo : WriteAnnounce(c, i) =>
       UNCHANGED <<table, store, expected, tids, waiters, pend, fwd, announced, reused, expired>>
  /\ \A i \in calls[c].todo : AnnounceFails(c, i) =>
       UNCHANGED <<table, store, expected, tids, net, waiters, pend, fwd, announced, reused, expired>>
  /\ \A i \in calls[c].sent : RegisterAnnounce(c, i) =>
       UNCHANGED <<table, store, tids, net, pend, fwd, announced, reused, expired>>
<1>1. ASSUME NEW r \in Requests[c], Call(c, r)
      PROVE  UNCHANGED <<table, store, expected, tids, net, waiters, pend, fwd, announced, reused, expired>>
  BY <1>1 DEF Call, rpc, routines, history
<1>2. ASSUME NEW n, NEW b, RefreshBucket(c, n, b)
      PROVE  UNCHANGED <<table, store, expected, tids, net, waiters, pend, fwd, announced, reused, expired>>
  BY <1>2 DEF RefreshBucket, rpc, routines, history
<1>3. ASSUME NEW t \in Tids, WriteQuery(c, t)
      PROVE  UNCHANGED <<table, store, expected, waiters, pend, fwd, announced, expired>>
  BY <1>3 DEF WriteQuery, routines
<1>4. ASSUME Register(c)
      PROVE  UNCHANGED <<table, store, tids, net, pend, fwd, announced, reused, expired>>
  BY <1>4 DEF Register, history
<1>5. ASSUME NEW f \in fwd, Collect(c, f)
      PROVE  UNCHANGED <<table, store, expected, tids, net, waiters, pend, announced, reused, expired>>
  BY <1>5 DEF Collect, rpc, history
<1>6. ASSUME CollectTimesOut(c)
      PROVE  UNCHANGED <<table, store, expected, tids, net, waiters, pend, fwd, announced, reused>>
  BY <1>6 DEF CollectTimesOut, rpc, routines
<1>7. ASSUME NEW t \in Tids, MakeAnnounce(c, t)
      PROVE  UNCHANGED <<table, store, expected, net, waiters, pend, fwd, expired>>
  BY <1>7 DEF MakeAnnounce, routines
<1>8. ASSUME NEW t \in Tids, WriteFails(c, t)
      PROVE  UNCHANGED <<table, store, expected, net, waiters, pend, fwd, announced, expired>>
  BY <1>8 DEF WriteFails, routines
<1>9. ASSUME NEW i \in calls[c].todo, WriteAnnounce(c, i)
      PROVE  UNCHANGED <<table, store, expected, tids, waiters, pend, fwd, announced, reused, expired>>
  BY <1>9 DEF WriteAnnounce, routines, history
<1>10. ASSUME NEW i \in calls[c].todo, AnnounceFails(c, i)
       PROVE  UNCHANGED <<table, store, expected, tids, net, waiters, pend, fwd, announced, reused, expired>>
  BY <1>10 DEF AnnounceFails, rpc, routines, history
<1>11. ASSUME NEW i \in calls[c].sent, RegisterAnnounce(c, i)
       PROVE  UNCHANGED <<table, store, tids, net, pend, fwd, announced, reused, expired>>
  BY <1>11 DEF RegisterAnnounce, history
<1> QED
  BY <1>1, <1>2, <1>3, <1>4, <1>5, <1>6, <1>7, <1>8, <1>9, <1>10, <1>11

\* The steps of goroutines that wait.
LEMMA WaitersLeave ==
  ASSUME NEW w \in waiters
  PROVE
  /\ \A p \in pend : WaiterReceives(w, p) =>
       UNCHANGED <<table, store, tids, net, announced, reused, expired>>
  /\ WaiterTimesOut(w) => UNCHANGED <<table, store, tids, net, fwd, announced, reused, expired>>
<1>1. ASSUME NEW p \in pend, WaiterReceives(w, p)
      PROVE  UNCHANGED <<table, store, tids, net, announced, reused, expired>>
  BY <1>1 DEF WaiterReceives, history
<1>2. ASSUME WaiterTimesOut(w)
      PROVE  UNCHANGED <<table, store, tids, net, fwd, announced, reused, expired>>
  BY <1>2 DEF WaiterTimesOut, history
<1> QED
  BY <1>1, <1>2

-------------------------------------------------------------------------------
(* Tables and stores. *)

\* Only datagrams change a table.
LEMMA TablesStep ==
  ASSUME StateInv, [Next]_vars
  PROVE  TablesKept'
<1>1. \/ UNCHANGED table
      \/ \E n \in Nodes, m \in net : HandleQuery(n, m) \/ HandleResponse(n, m)
  BY NodesLeave, CallsLeave, WaitersLeave, Zenon DEF Next
<1>2. table \in [Nodes -> Tables] /\ \A n \in Nodes : InPlace(table[n], Id[n]) /\ Id[n] \in Ids
  BY KademliaAssumption DEF StateInv, TablesKept
<1>3. CASE UNCHANGED table
  BY <1>2, <1>3 DEF TablesKept
<1>4. ASSUME NEW n \in Nodes, NEW e \in Entries,
             table' = [table EXCEPT ![n] = updateBucketOfNode(@, Id[n], e)]
      PROVE  TablesKept'
  <2>1. InPlace(updateBucketOfNode(table[n], Id[n], e), Id[n])
    BY <1>2, UpdateKeeps
  <2> QED
    BY <1>2, <1>4, <2>1 DEF TablesKept, InPlace
<1>5. ASSUME NEW n \in Nodes, NEW m \in net, HandleQuery(n, m) PROVE TablesKept'
  <2> DEFINE e == [id |-> m.id, at |-> m.from]
  <2>1. table' = [table EXCEPT ![n] = updateBucketOfNode(@, Id[n], e)] /\ m.y = "q"
    BY <1>5 DEF HandleQuery, Learned
  <2>2. e \in Entries
    BY <2>1 DEF StateInv, NetKept, MessageOK, Entries, Nodes
  <2> HIDE DEF e
  <2> QED
    BY <1>4, <2>1, <2>2
<1>6. ASSUME NEW n \in Nodes, NEW m \in net, HandleResponse(n, m) PROVE TablesKept'
  <2> DEFINE e == [id |-> Id[m.from], at |-> m.from]
  <2>1. table' = [table EXCEPT ![n] = updateBucketOfNode(@, Id[n], e)]
    BY <1>6 DEF HandleResponse, Learned
  <2>2. e \in Entries
    <3>1. m.from \in Nodes
      BY DEF StateInv, NetKept, MessageOK
    <3> QED
      BY <1>2, <3>1 DEF Entries, Nodes
  <2> HIDE DEF e
  <2> QED
    BY <1>4, <2>1, <2>2
<1> QED
  BY <1>1, <1>3, <1>5, <1>6

\* The history of announces grows.
LEMMA AnnouncedGrows ==
  ASSUME [Next]_vars
  PROVE  announced \subseteq announced'
<1>1. \/ UNCHANGED announced
      \/ \E c \in Calls, t \in Tids : MakeAnnounce(c, t)
  BY NodesLeave, CallsLeave, WaitersLeave, Zenon DEF Next
<1> QED
  BY <1>1 DEF MakeAnnounce

\* Announces add pairs to a store, and time takes some out of it.
LEMMA StoresStep ==
  ASSUME StateInv, [Next]_vars
  PROVE  StoresKept'
<1>1. \/ UNCHANGED store
      \/ \E n \in Nodes, m \in net : HandleQuery(n, m)
      \/ \E n \in Nodes, p \in Pairs : Expire(n, p)
      \/ \E n \in Nodes : CheckForExpirationTime(n)
  BY NodesLeave, CallsLeave, WaitersLeave, Zenon DEF Next
<1>2. store \in [Nodes -> KStores] /\ \A n \in Nodes : StoreKept(store[n])
  BY DEF StateInv, StoresKept
<1>3. announced \subseteq announced'
  BY AnnouncedGrows
<1>4. CASE UNCHANGED store
  BY <1>2, <1>3, <1>4 DEF StoresKept, StoreKept
<1>5. ASSUME NEW n \in Nodes, NEW st, store' = [store EXCEPT ![n] = st],
             st \in KStores, Agrees(st), IsFiniteSet(st.due), Stored(st) \subseteq announced
      PROVE  StoresKept'
  BY <1>2, <1>3, <1>5 DEF StoresKept, StoreKept
<1>6. ASSUME NEW n \in Nodes, NEW m \in net, HandleQuery(n, m) PROVE StoresKept'
  <2>1. CASE m.q # "announce_peer"
    <3>1. UNCHANGED store
      BY <1>6, <2>1 DEF HandleQuery
    <3> QED
      BY <1>4, <3>1
  <2>2. CASE m.q = "announce_peer"
    <3> DEFINE st == Store(store[n], m.target, m.from)
    <3>1. store' = [store EXCEPT ![n] = st] /\ m.y = "q"
      BY <1>6, <2>2 DEF HandleQuery
    <3>2. m.target \in Keys /\ m.from \in Values /\ <<m.target, m.from>> \in announced
      BY <2>2, <3>1, KademliaAssumption DEF StateInv, NetKept, AboutKey, Announced, MessageOK
    <3>3. store[n] \in KStores /\ Agrees(store[n]) /\ IsFiniteSet(store[n].due)
          /\ Stored(store[n]) \subseteq announced
      BY <1>2 DEF StoreKept
    <3>4. /\ st \in KStores /\ Agrees(st)
          /\ Stored(st) = Stored(store[n]) \cup {<<m.target, m.from>>} /\ st.due \subseteq store[n].due
      BY <3>2, <3>3, StoreAdds
    <3> HIDE DEF st
    <3>5. IsFiniteSet(st.due) /\ Stored(st) \subseteq announced
      BY <3>2, <3>3, <3>4, FS_Subset
    <3> QED
      BY <1>5, <3>1, <3>4, <3>5
  <2> QED
    BY <2>1, <2>2
<1>7. ASSUME NEW n \in Nodes, NEW p \in Pairs, Expire(n, p) PROVE StoresKept'
  <2> DEFINE st == TimePasses(store[n], p)
  <2>1. store' = [store EXCEPT ![n] = st] /\ p \in store[n].timed
    BY <1>7 DEF Expire
  <2>2. store[n] \in KStores /\ Agrees(store[n]) /\ IsFiniteSet(store[n].due)
        /\ Stored(store[n]) \subseteq announced
    BY <1>2 DEF StoreKept
  <2>3. st \in KStores /\ st.data = store[n].data /\ st.timed = store[n].timed
        /\ st.due = store[n].due \cup {p}
    BY <2>2 DEF TimePasses, KStores
  <2> HIDE DEF st
  <2>4. Stored(st) = Stored(store[n])
    BY <2>3 DEF Stored
  <2>5. Agrees(st) /\ IsFiniteSet(st.due)
    <3>1. IsFiniteSet(store[n].due \cup {p})
      BY <2>2, FS_AddElement
    <3> QED
      BY <2>1, <2>2, <2>3, <2>4, <3>1 DEF Agrees
  <2> QED
    BY <1>5, <2>1, <2>2, <2>3, <2>4, <2>5
<1>8. ASSUME NEW n \in Nodes, CheckForExpirationTime(n) PROVE StoresKept'
  <2> DEFINE st == ExpireKeys(store[n])
  <2>1. store' = [store EXCEPT ![n] = st]
    BY <1>8 DEF CheckForExpirationTime
  <2>2. store[n] \in KStores /\ Agrees(store[n]) /\ IsFiniteSet(store[n].due)
        /\ Stored(store[n]) \subseteq announced
    BY <1>2 DEF StoreKept
  <2>3. st \in KStores /\ Agrees(st) /\ st.due = {} /\ Stored(st) \subseteq Stored(store[n])
    BY <2>2, ExpiryTakes
  <2> HIDE DEF st
  <2>4. IsFiniteSet(st.due) /\ Stored(st) \subseteq announced
    BY <2>2, <2>3, FS_EmptySet
  <2> QED
    BY <1>5, <2>1, <2>3, <2>4
<1> QED
  BY <1>1, <1>4, <1>6, <1>7, <1>8

-------------------------------------------------------------------------------
(* Datagrams. *)

\* What a node knows of an infohash.
LEMMA StoredValues ==
  ASSUME StateInv, NEW n \in Nodes, NEW key \in Keys
  PROVE  /\ store[n].data[key] \in Seq(Values)
         /\ For(key, store[n].data[key])
<1>1. store[n] \in KStores /\ Stored(store[n]) \subseteq announced
  BY DEF StateInv, StoresKept, StoreKept
<1>2. store[n].data[key] \in Seq(Values)
  BY <1>1 DEF KStores
<1> DEFINE l == store[n].data[key]
<1>3. ASSUME NEW i \in DOMAIN l PROVE <<key, l[i]>> \in announced
  <2>1. l[i] \in Values
    BY <1>2
  <2>2. <<key, l[i]>> \in Stored(store[n])
    BY <2>1 DEF Stored, Pairs
  <2> QED
    BY <1>1, <2>2
<1> QED
  BY <1>2, <1>3 DEF For

\* The nodes of an answer.
LEMMA FoundNodes ==
  ASSUME StateInv, NEW n \in Nodes, NEW target \in Ids, NEW num \in Nat
  PROVE  LET l == getNearestNodes(table[n], Id[n], num, target) IN
         l \in Seq(Entries) /\ Unique(l)
<1>1. table[n] \in Tables /\ Id[n] \in Ids
  BY KademliaAssumption DEF StateInv, TablesKept, InPlace
<1> QED
  BY <1>1, NearestNodes

\* An answer.
LEMMA ReplyTyped ==
  ASSUME StateInv, NEW n \in Nodes, NEW m \in net, m.y = "q", m.to = n
  PROVE  LET r == Reply(n, m) IN
         /\ MessageOK(r) /\ r.y = "r" /\ r.to = m.from /\ r.from = n /\ r.tid = m.tid
         /\ r.what = "values" => m.q = "get_peers" /\ m.target \in Keys /\ For(m.target, r.list)
<1>1. /\ m.from \in Nodes /\ m.tid \in Tids /\ m.q \in QueryNames /\ m.target \in Ids
      /\ m.q = "get_peers" => m.target \in Keys
  BY DEF StateInv, NetKept, MessageOK, AboutKey
<1> DEFINE r == Reply(n, m)
           Ok == /\ MessageOK(r) /\ r.y = "r" /\ r.to = m.from /\ r.from = n /\ r.tid = m.tid
                 /\ r.what = "values" => m.q = "get_peers" /\ m.target \in Keys /\ For(m.target, r.list)
<1> SUFFICES Ok
  OBVIOUS
<1>2. ASSUME NEW list \in Seq(Entries), NEW what \in {"id", "nodes"}, r = Answer(m, what, list)
      PROVE  Ok
  <2>1. /\ r.y = "r" /\ r.from = n /\ r.to = m.from /\ r.tid = m.tid /\ r.what = what
        /\ r.list = list
    BY <1>2 DEF Answer
  <2> HIDE DEF r
  <2> QED
    BY <1>1, <2>1 DEF MessageOK
<1>3. FindNode(n, m.target) \in Seq(Entries)
  <2>1. K \in Nat
    BY KademliaAssumption
  <2> QED
    BY <1>1, <2>1, FoundNodes DEF FindNode
<1>4. CASE m.q \in {"ping", "announce_peer"}
  <2>1. r = Answer(m, "id", <<>>) /\ <<>> \in Seq(Entries)
    BY <1>4 DEF Reply
  <2> HIDE DEF r, Ok
  <2> QED
    BY <1>2, <2>1
<1>5. CASE m.q = "find_node"
  <2>1. r = Answer(m, "nodes", FindNode(n, m.target))
    BY <1>5 DEF Reply
  <2> HIDE DEF r, Ok
  <2> QED
    BY <1>2, <1>3, <2>1
<1>6. CASE m.q = "get_peers"
  <2> DEFINE values == store[n].data[m.target]
  <2>1. values \in Seq(Values) /\ For(m.target, values) /\ m.target \in Keys
    BY <1>1, <1>6, StoredValues
  <2>2. r = IF values # <<>> THEN Answer(m, "values", values)
            ELSE Answer(m, "nodes", FindNode(n, m.target))
    BY <1>6 DEF Reply
  <2> HIDE DEF values
  <2>3. CASE values = <<>>
    <3>1. r = Answer(m, "nodes", FindNode(n, m.target))
      BY <2>2, <2>3
    <3> HIDE DEF r, Ok
    <3> QED
      BY <1>2, <1>3, <3>1
  <2>4. CASE values # <<>>
    <3>1. r = Answer(m, "values", values)
      BY <2>2, <2>4
    <3>2. /\ r.y = "r" /\ r.from = n /\ r.to = m.from /\ r.tid = m.tid /\ r.what = "values"
          /\ r.list = values
      BY <3>1 DEF Answer
    <3> HIDE DEF r
    <3> QED
      BY <1>1, <1>6, <2>1, <3>2 DEF MessageOK
  <2> QED
    BY <2>3, <2>4
<1> HIDE DEF Ok, r
<1> QED
  BY <1>1, <1>4, <1>5, <1>6 DEF QueryNames


\* A query.
LEMMA QueryTyped ==
  ASSUME NEW q \in QueryNames, NEW from \in Nodes, NEW to \in Nodes, NEW t \in Tids,
         NEW id \in Ids, NEW target \in Ids
  PROVE  LET m == Query(q, from, to, t, id, target) IN
         /\ MessageOK(m) /\ m.y = "q" /\ m.q = q /\ m.from = from /\ m.to = to /\ m.tid = t
         /\ m.target = target
<1> DEFINE m == Query(q, from, to, t, id, target)
<1>1. /\ m.y = "q" /\ m.q = q /\ m.from = from /\ m.to = to /\ m.tid = t /\ m.id = id
      /\ m.target = target
  BY DEF Query
<1> HIDE DEF m
<1> QED
  BY <1>1 DEF MessageOK, m

\* The node a round asks next.
LEMMA NextAsked ==
  ASSUME StateInv, NEW c \in Calls, calls[c].pc = "write"
  PROVE  LET call == calls[c] IN
         /\ Len(call.asked) + 1 \in DOMAIN call.nl
         /\ call.nl[Len(call.asked) + 1].at \in Nodes /\ call.nl[Len(call.asked) + 1].id \in Ids
<1> DEFINE call == calls[c]
           k == Len(call.asked)
           n == Len(call.nl)
<1>1. /\ call.nl \in Seq(Entries) /\ call.asked \in Seq(Tids) /\ k < Round(call)
  BY DEF StateInv, CallsKept, CallOK, Phase
<1>2. k \in Nat /\ n \in Nat
  BY <1>1, LenProperties
<1>3. ALPHA \in Int
  BY KademliaAssumption
<1> HIDE DEF k, n
<1>4. Min({ALPHA, n}) \in {ALPHA, n} /\ Min({ALPHA, n}) <= n
  <2>1. n \in Int
    BY <1>2
  <2> QED
    BY <1>3, <2>1, MinOfTwo
<1>5. k < Min({ALPHA, n})
  BY <1>1 DEF Round, n
<1>6. k + 1 \in 1 .. n
  BY <1>2, <1>3, <1>4, <1>5
<1>7. \A i \in 1 .. n : i \in DOMAIN call.nl /\ call.nl[i].at \in Nodes /\ call.nl[i].id \in Ids
  BY <1>1, EntriesInList DEF n, Nodes
<1> HIDE DEF call
<1> QED
  BY <1>6, <1>7 DEF k, call

\* What WriteQuery sends.
LEMMA Written ==
  ASSUME StateInv, NEW c \in Calls, NEW t \in Tids, WriteQuery(c, t)
  PROVE  \E m : /\ net' = net \cup {m} /\ MessageOK(m) /\ m.y = "q" /\ m.from = calls[c].by
                /\ m.tid = t
                /\ \/ calls[c].pc = "ping" /\ m.q = "ping"
                   \/ /\ calls[c].pc = "write" /\ m.q = QueryName(calls[c])
                      /\ m.target = calls[c].target
<1> DEFINE call == calls[c]
<1>1. call.by \in Nodes /\ call.target \in Ids
  BY DEF StateInv, CallsKept, CallOK
<1>2. CASE call.pc = "ping"
  <2> DEFINE m == Query("ping", call.by, Bootstrap, t, Id[call.by], {})
  <2>1. net' = net \cup {m}
    BY <1>2 DEF WriteQuery
  <2>2. Id[call.by] \in Ids /\ {} \in Ids /\ Bootstrap \in Nodes /\ "ping" \in QueryNames
    BY <1>1, KademliaAssumption DEF Ids, QueryNames
  <2>3. MessageOK(m) /\ m.y = "q" /\ m.from = call.by /\ m.tid = t /\ m.q = "ping"
    BY <1>1, <2>2, QueryTyped
  <2> HIDE DEF m
  <2> QED
    BY <1>2, <2>1, <2>3
<1>3. CASE call.pc = "write"
  <2> DEFINE to == call.nl[Len(call.asked) + 1]
             m == Query(QueryName(call), call.by, to.at, t, to.id, call.target)
  <2>1. net' = net \cup {m}
    BY <1>3 DEF WriteQuery
  <2>2. to.at \in Nodes /\ to.id \in Ids
    BY <1>3, NextAsked
  <2>3. QueryName(call) \in QueryNames
    BY DEF QueryName, QueryNames
  <2> HIDE DEF to
  <2>4. /\ MessageOK(m) /\ m.y = "q" /\ m.from = call.by /\ m.tid = t /\ m.q = QueryName(call)
        /\ m.target = call.target
    BY <1>1, <2>2, <2>3, QueryTyped
  <2> HIDE DEF m
  <2> QED
    BY <1>3, <2>1, <2>4
<1>4. call.pc = "ping" \/ call.pc = "write"
  BY DEF WriteQuery
<1> QED
  BY <1>2, <1>3, <1>4

\* What the goroutines of AnnouncePeer send and wait for.
LEMMA AnnounceKnown ==
  ASSUME StateInv, NEW c \in Calls, NEW i \in calls[c].todo \cup calls[c].sent
  PROVE  /\ calls[c].pc = "announce" /\ calls[c].tid \in Tids /\ calls[c].nl[i].at \in Nodes
         /\ calls[c].by \in Nodes /\ calls[c].target \in Ids /\ i \in DOMAIN calls[c].nl
         /\ Chan(c, calls[c].round + 1, i) \in Chans
<1> DEFINE call == calls[c]
<1>1. /\ call.by \in Nodes /\ call.target \in Ids /\ call.nl \in Seq(Entries)
      /\ i \in DOMAIN call.nl /\ call.pc = "announce" /\ call.tid \in Tids /\ call.round \in Nat
  BY DEF StateInv, CallsKept, CallOK, Phase
<1>2. call.nl[i].at \in Nodes /\ i \in Nat
  BY <1>1, EntriesInList DEF Nodes
<1>3. Chan(c, call.round + 1, i) \in Chans
  BY <1>1, <1>2 DEF Chan, Chans
<1> QED
  BY <1>1, <1>2, <1>3

\* What WriteAnnounce sends.
LEMMA Sent ==
  ASSUME StateInv, NEW c \in Calls, NEW i \in calls[c].todo, WriteAnnounce(c, i)
  PROVE  /\ calls[c].pc = "announce" /\ calls[c].tid \in Tids /\ calls[c].by \in Nodes
         /\ \E m : /\ net' = net \cup {m} /\ MessageOK(m) /\ m.y = "q" /\ m.from = calls[c].by
                   /\ m.tid = calls[c].tid /\ m.q = "announce_peer" /\ m.target = calls[c].target
<1> DEFINE call == calls[c]
           m == Query("announce_peer", call.by, call.nl[i].at, call.tid, Id[call.by], call.target)
<1>1. net' = net \cup {m}
  BY DEF WriteAnnounce
<1>2. /\ call.pc = "announce" /\ call.tid \in Tids /\ call.nl[i].at \in Nodes
      /\ call.by \in Nodes /\ call.target \in Ids
  BY AnnounceKnown
<1>3. Id[call.by] \in Ids /\ "announce_peer" \in QueryNames
  BY <1>2, KademliaAssumption DEF QueryNames
<1>4. /\ MessageOK(m) /\ m.y = "q" /\ m.from = call.by /\ m.tid = call.tid /\ m.q = "announce_peer"
      /\ m.target = call.target
  BY <1>2, <1>3, QueryTyped
<1> HIDE DEF m
<1> QED
  BY <1>1, <1>2, <1>4

\* Which steps change what is on its way.
LEMMA NetMoves ==
  ASSUME [Next]_vars
  PROVE  \/ UNCHANGED net
         \/ \E n \in Nodes, m \in net : HandleQuery(n, m)
         \/ \E n \in Nodes, m \in net : HandleResponse(n, m)
         \/ \E c \in Calls, t \in Tids : WriteQuery(c, t)
         \/ \E c \in Calls : \E i \in calls[c].todo : WriteAnnounce(c, i)
BY NodesLeave, CallsLeave, WaitersLeave, Zenon DEF Next

\* Datagrams keep their type, and what is announced is in the history.
LEMMA NetStep ==
  ASSUME StateInv, [Next]_vars
  PROVE  NetKept'
<1>1. \A m \in net : MessageOK(m) /\ AboutKey(m) /\ Announced(m)
  BY DEF StateInv, NetKept
<1>2. announced \subseteq announced'
  BY AnnouncedGrows
<1>3. ASSUME NEW new, net' \subseteq net \cup {new}, MessageOK(new), AboutKey(new), Announced(new)
      PROVE  NetKept'
  BY <1>1, <1>2, <1>3 DEF NetKept, Announced
<1>4. CASE net' \subseteq net
  BY <1>1, <1>2, <1>4 DEF NetKept, Announced
<1>5. ASSUME NEW n \in Nodes, NEW m \in net, HandleQuery(n, m) PROVE NetKept'
  <2> DEFINE r == Reply(n, m)
  <2>1. net' = (net \ {m}) \cup {r} /\ m.y = "q" /\ m.to = n
    BY <1>5 DEF HandleQuery
  <2>2. MessageOK(r) /\ r.y = "r"
    BY <2>1, ReplyTyped
  <2> HIDE DEF r
  <2> QED
    BY <1>3, <2>1, <2>2 DEF AboutKey, Announced
<1>6. ASSUME NEW c \in Calls, NEW t \in Tids, WriteQuery(c, t) PROVE NetKept'
  <2>1. PICK m : /\ net' = net \cup {m} /\ MessageOK(m) /\ m.y = "q"
                 /\ \/ m.q = "ping"
                    \/ m.q = QueryName(calls[c]) /\ m.target = calls[c].target
    BY <1>6, Written
  <2>2. calls[c].use = "download" => calls[c].target \in Keys
    BY DEF StateInv, CallsKept, Phase
  <2>3. AboutKey(m) /\ Announced(m)
    BY <2>1, <2>2 DEF AboutKey, Announced, QueryName
  <2> QED
    BY <1>3, <2>1, <2>3
<1>7. ASSUME NEW c \in Calls, NEW i \in calls[c].todo, WriteAnnounce(c, i) PROVE NetKept'
  <2>1. PICK m : /\ net' = net \cup {m} /\ MessageOK(m) /\ m.y = "q" /\ m.from = calls[c].by
                 /\ m.q = "announce_peer" /\ m.target = calls[c].target
    BY <1>7, Sent
  <2>2. <<calls[c].target, calls[c].by>> \in announced /\ calls[c].target \in Keys
    <3>1. calls[c].pc = "announce"
      BY <1>7, Sent
    <3> QED
      BY <3>1 DEF StateInv, CallsKept, Phase, Announces
  <2> QED
    BY <1>3, <2>1, <2>2 DEF AboutKey, Announced
<1>8. ASSUME NEW n \in Nodes, NEW m \in net, HandleResponse(n, m) PROVE NetKept'
  <2>1. net' \subseteq net
    BY <1>8 DEF HandleResponse
  <2> QED
    BY <1>4, <2>1
<1> QED
  BY <1>4, <1>5, <1>6, <1>7, <1>8, NetMoves


-------------------------------------------------------------------------------
(* What is expected, and who waits for it. *)

\* What is expected of one transaction id changes.
LEMMA EntryChanges ==
  ASSUME expected \in [Nodes -> [Tids -> Expectations]],
         NEW n \in Nodes, NEW t \in Tids, NEW e \in Expectations
  PROVE  [expected EXCEPT ![n][t] = e] \in [Nodes -> [Tids -> Expectations]]
OBVIOUS

\* An entry that is there, and one that is not.
LEMMA EntryTyped ==
  /\ NoEntry \in Expectations
  /\ \A e \in Expectations : e # NoEntry => e.q \in QueryNames /\ e.to \in Nodes /\ e.chan \in Chans
  /\ \A q \in QueryNames, to \in Nodes, chan \in Chans :
       /\ Awaited(q, to, chan) \in Expectations /\ Awaited(q, to, chan) # NoEntry
       /\ Awaited(q, to, chan).q = q /\ Awaited(q, to, chan).chan = chan
<1>1. \A q \in QueryNames : q # "none"
  BY DEF QueryNames
<1> QED
  BY <1>1 DEF Expectations, NoEntry, Awaited

\* The query that Register is about.
LEMMA Registered ==
  ASSUME StateInv, LookInv, NEW c \in Calls, Register(c)
  PROVE  LET call == calls[c]
             i == Len(call.asked)
         IN  /\ call.by \in Nodes /\ i \in DOMAIN call.asked /\ i \in Nat \ {0}
             /\ \A j \in 1 .. i : call.asked[j] \in Tids /\ Chan(c, call.round, j) \in Chans
             /\ call.pc = "register" => call.nl[i].at \in Nodes /\ call.round > 0
             /\ call.pc \in {"register", "pinged"}
             /\ call.pc = "pinged" => call.round = 0
<1> DEFINE call == calls[c]
           i == Len(call.asked)
           n == Len(call.nl)
<1>1. /\ call.pc \in {"register", "pinged"} /\ call.by \in Nodes /\ call.round \in Nat
      /\ call.asked \in Seq(Tids) /\ call.nl \in Seq(Entries)
      /\ call.pc = "pinged" => i = 1 /\ call.round = 0
      /\ call.pc = "register" => call.asked # <<>> /\ i <= Round(call) /\ call.round > 0
  BY DEF Register, StateInv, CallsKept, CallOK, Phase
<1>2. /\ i \in Nat /\ n \in Nat /\ DOMAIN call.asked = 1 .. i
      /\ \A j \in 1 .. i : call.asked[j] \in Tids
      /\ call.asked # <<>> => i # 0
  BY <1>1, LenProperties, EmptySeq
<1>3. \A j \in 1 .. i : Chan(c, call.round, j) \in Chans
  BY <1>1, <1>2 DEF Chan, Chans
<1>4. ALPHA \in Int
  BY KademliaAssumption
<1>5. \A k \in 1 .. n : call.nl[k].at \in Nodes
  BY <1>1, EntriesInList DEF Nodes
<1>6. call.pc = "register" => i <= Min({ALPHA, n})
  BY <1>1 DEF Round
<1> HIDE DEF i, n
<1>7. n \in Int
  BY <1>2
<1>8. Min({ALPHA, n}) \in {ALPHA, n} /\ Min({ALPHA, n}) <= n
  BY <1>4, <1>7, MinOfTwo
<1>9. i # 0
  BY <1>1, <1>2
<1>10. call.pc = "register" => i \in 1 .. n
  <2> DEFINE m == Min({ALPHA, n})
  <2>1. m \in Int /\ m <= n /\ (call.pc = "register" => i <= m)
    BY <1>4, <1>6, <1>7, <1>8
  <2> HIDE DEF m
  <2> QED
    BY <1>2, <1>9, <2>1
<1>11. i \in 1 .. i
  BY <1>2, <1>9
<1> HIDE DEF call
<1> QED
  BY <1>1, <1>2, <1>3, <1>5, <1>9, <1>10, <1>11 DEF i, call

\* Which steps change what is expected, who waits and who sends.
LEMMA RoutinesMove ==
  ASSUME [Next]_vars
  PROVE  \/ UNCHANGED <<expected, waiters, pend, fwd>>
         \/ \E n \in Nodes, m \in net : HandleResponse(n, m)
         \/ \E c \in Calls : Register(c)
         \/ \E c \in Calls, f \in fwd : Collect(c, f)
         \/ \E c \in Calls : \E i \in calls[c].sent : RegisterAnnounce(c, i)
         \/ \E w \in waiters, p \in pend : WaiterReceives(w, p)
         \/ \E w \in waiters : WaiterTimesOut(w)
         \/ \E n \in Nodes, t \in Tids : Sweep(n, t)
BY NodesLeave, CallsLeave, WaitersLeave, Zenon DEF Next

\* Entries, goroutines and senders keep their types.
LEMMA RoutinesStep ==
  ASSUME StateInv, LookInv, [Next]_vars
  PROVE  RoutinesKept'
<1>1. RoutinesKept /\ expected \in [Nodes -> [Tids -> Expectations]]
  BY DEF StateInv, RoutinesKept
<1>2. CASE UNCHANGED <<expected, waiters, pend, fwd>>
  BY <1>1, <1>2 DEF RoutinesKept
<1>3. ASSUME NEW n \in Nodes, NEW m \in net, HandleResponse(n, m) PROVE RoutinesKept'
  <2> DEFINE e == expected[n][m.tid]
             good == e # NoEntry /\ ~(e # NoEntry /\ ~(m.from = e.to /\ Fits(e, m))) /\ e.q # "announce_peer"
             p == [chan |-> e.chan, resp |-> IF good THEN m ELSE Nil]
  <2>1. /\ expected' = Forgotten(n, m.tid) \/ expected' = expected
        /\ pend' = pend \/ (e # NoEntry /\ pend' = pend \cup {p})
        /\ waiters' = waiters /\ fwd' = fwd /\ m.y = "r"
    BY <1>3 DEF HandleResponse, Forgotten
  <2>2. MessageOK(m) /\ m.tid \in Tids
    BY DEF StateInv, NetKept, MessageOK
  <2>3. e \in Expectations
    BY <1>1, <2>2
  <2>4. expected' \in [Nodes -> [Tids -> Expectations]]
    <3>1. Forgotten(n, m.tid) \in [Nodes -> [Tids -> Expectations]]
      BY <1>1, <2>2, EntryChanges, EntryTyped DEF Forgotten
    <3> QED
      BY <1>1, <2>1, <3>1
  <2>5. p.chan = e.chan /\ (p.resp = m \/ p.resp = Nil)
    OBVIOUS
  <2> HIDE DEF p, e
  <2>6. e # NoEntry => p.chan \in Chans /\ ReplyOK(p.resp)
    BY <2>1, <2>2, <2>3, <2>5, EntryTyped DEF ReplyOK
  <2> QED
    BY <1>1, <2>1, <2>4, <2>6 DEF RoutinesKept
<1>4. ASSUME NEW c \in Calls, Register(c) PROVE RoutinesKept'
  <2> DEFINE call == calls[c]
             i == Len(call.asked)
             New == {[chan |-> Chan(c, call.round, j), tid |-> call.asked[j], q |-> "lookup"] : j \in 1 .. i}
             Ponged == [chan |-> Chan(c, call.round, i), tid |-> call.asked[i], q |-> "ping"]
             chan == Chan(c, call.round, i)
  <2>1. /\ call.by \in Nodes /\ i \in DOMAIN call.asked /\ i \in Nat \ {0}
        /\ \A j \in 1 .. i : call.asked[j] \in Tids /\ Chan(c, call.round, j) \in Chans
        /\ call.pc = "register" => call.nl[i].at \in Nodes
    BY <1>4, Registered
  <2>2. /\ \/ /\ call.pc = "register"
              /\ expected' = [expected EXCEPT ![call.by][call.asked[i]] =
                   Awaited(QueryName(call), call.nl[i].at, chan)]
              /\ waiters' = waiters \/ waiters' = waiters \cup New
           \/ /\ expected' = [expected EXCEPT ![call.by][call.asked[i]] =
                   Awaited("ping", Bootstrap, chan)]
              /\ waiters' = waiters \cup {Ponged}
        /\ pend' = pend /\ fwd' = fwd
    BY <1>4 DEF Register
  <2>3. QueryName(call) \in QueryNames /\ "ping" \in QueryNames /\ Bootstrap \in Nodes
    BY KademliaAssumption DEF QueryName, QueryNames
  <2>4. i \in 1 .. i
    BY <2>1
  <2> HIDE DEF i
  <2>5. chan \in Chans /\ call.asked[i] \in Tids
    BY <2>1, <2>4
  <2>6. \A w \in New \cup {Ponged} : w.chan \in Chans /\ w.tid \in Tids /\ w.q \in {"ping", "lookup", "announce"}
    BY <2>1, <2>5
  <2> HIDE DEF New, Ponged, chan, call
  <2>7. expected' \in [Nodes -> [Tids -> Expectations]]
    <3>1. CASE /\ call.pc = "register"
               /\ expected' = [expected EXCEPT ![call.by][call.asked[i]] =
                   Awaited(QueryName(call), call.nl[i].at, chan)]
      <4>1. Awaited(QueryName(call), call.nl[i].at, chan) \in Expectations
        BY <2>1, <2>3, <2>5, <3>1, EntryTyped
      <4> QED
        BY <1>1, <2>1, <2>5, <3>1, <4>1, EntryChanges
    <3>2. CASE expected' = [expected EXCEPT ![call.by][call.asked[i]] = Awaited("ping", Bootstrap, chan)]
      <4>1. Awaited("ping", Bootstrap, chan) \in Expectations
        BY <2>3, <2>5, EntryTyped
      <4> QED
        BY <1>1, <2>1, <2>5, <3>2, <4>1, EntryChanges
    <3> QED
      BY <2>2, <3>1, <3>2
  <2> QED
    BY <1>1, <2>2, <2>6, <2>7 DEF RoutinesKept
<1>5. ASSUME NEW c \in Calls, NEW f \in fwd, Collect(c, f) PROVE RoutinesKept'
  <2>1. UNCHANGED <<expected, waiters, pend>> /\ fwd' \subseteq fwd
    BY <1>5 DEF Collect, rpc
  <2> QED
    BY <1>1, <2>1 DEF RoutinesKept
<1>6. ASSUME NEW c \in Calls, NEW i \in calls[c].sent, RegisterAnnounce(c, i) PROVE RoutinesKept'
  <2> DEFINE call == calls[c]
             chan == Chan(c, call.round + 1, i)
             one == [chan |-> chan, tid |-> call.tid, q |-> "announce"]
  <2>1. /\ expected' = [expected EXCEPT ![call.by][call.tid] =
             Awaited("announce_peer", call.nl[i].at, chan)]
        /\ waiters' = waiters \cup {one} /\ UNCHANGED <<pend, fwd>>
    BY <1>6 DEF RegisterAnnounce
  <2>2. /\ call.tid \in Tids /\ call.nl[i].at \in Nodes /\ call.by \in Nodes /\ chan \in Chans
        /\ "announce_peer" \in QueryNames
    BY AnnounceKnown DEF QueryNames
  <2>3. one.chan \in Chans /\ one.tid \in Tids /\ one.q = "announce"
    BY <2>2
  <2> HIDE DEF one, chan, call
  <2>4. expected' \in [Nodes -> [Tids -> Expectations]]
    <3>1. Awaited("announce_peer", call.nl[i].at, chan) \in Expectations
      BY <2>2, EntryTyped
    <3> QED
      BY <1>1, <2>1, <2>2, <3>1, EntryChanges
  <2> QED
    BY <1>1, <2>1, <2>3, <2>4 DEF RoutinesKept
<1>7. ASSUME NEW w \in waiters, Caller(w.chan) \in Nodes /\ w.tid \in Tids
      PROVE  Forgotten(Caller(w.chan), w.tid) \in [Nodes -> [Tids -> Expectations]]
  BY <1>1, <1>7, EntryChanges, EntryTyped DEF Forgotten
<1>8. \A w \in waiters : Caller(w.chan) \in Nodes /\ w.tid \in Tids
  <2>1. \A c \in Calls : calls[c].by \in Nodes
    BY DEF StateInv, CallsKept, CallOK
  <2> QED
    BY <1>1, <2>1 DEF RoutinesKept, Chans, Caller
<1>9. ASSUME NEW w \in waiters, NEW p \in pend, WaiterReceives(w, p) PROVE RoutinesKept'
  <2>1. /\ waiters' \subseteq waiters /\ pend' \subseteq pend
        /\ fwd' = fwd \/ (p.resp # Nil /\ fwd' = fwd \cup {p})
        /\ expected' = expected \/ expected' = Forgotten(Caller(w.chan), w.tid)
    BY <1>9 DEF WaiterReceives
  <2>2. expected' \in [Nodes -> [Tids -> Expectations]]
    BY <1>1, <1>7, <1>8, <2>1
  <2> QED
    BY <1>1, <2>1, <2>2 DEF RoutinesKept
<1>10. ASSUME NEW w \in waiters, WaiterTimesOut(w) PROVE RoutinesKept'
  <2>1. /\ waiters' \subseteq waiters /\ pend' \subseteq pend /\ fwd' = fwd
        /\ expected' = Forgotten(Caller(w.chan), w.tid)
    BY <1>10 DEF WaiterTimesOut
  <2>2. expected' \in [Nodes -> [Tids -> Expectations]]
    BY <1>1, <1>7, <1>8, <2>1
  <2> QED
    BY <1>1, <2>1, <2>2 DEF RoutinesKept
<1>11. ASSUME NEW n \in Nodes, NEW t \in Tids, Sweep(n, t) PROVE RoutinesKept'
  <2>1. expected' = Forgotten(n, t) /\ UNCHANGED <<waiters, pend, fwd>>
    BY <1>11 DEF Sweep, routines
  <2>2. expected' \in [Nodes -> [Tids -> Expectations]]
    BY <1>1, <2>1, EntryChanges, EntryTyped DEF Forgotten
  <2> QED
    BY <1>1, <2>1, <2>2 DEF RoutinesKept
<1> QED
  BY <1>2, <1>3, <1>4, <1>5, <1>6, <1>9, <1>10, <1>11, RoutinesMove

-------------------------------------------------------------------------------
(* The answers of a round. *)

\* What the answers may come to: a longer list, or the values of one of them.
Absorbed(l, R) ==
  [end : {"no", "panic"}, list : Grown(l)]
    \cup [end : {"values"}, list : {m.list : m \in {r \in R : r.what = "values"}}]

\* One answer.
LEMMA AbsorbStep ==
  ASSUME NEW l \in Seq(Entries), NEW R, NEW a \in Absorbed(l, R),
         NEW m \in R, MessageOK(m), m.y = "r"
  PROVE  Absorb(a, m) \in Absorbed(l, R)
<1>1. \/ a \in [end : {"no", "panic"}, list : Grown(l)]
      \/ a \in [end : {"values"}, list : {x.list : x \in {r \in R : r.what = "values"}}]
  BY DEF Absorbed
<1>2. CASE a.end # "no"
  BY <1>2 DEF Absorb
<1>3. CASE a.end = "no"
  <2>1. a \in [end : {"no", "panic"}, list : Grown(l)]
    BY <1>1, <1>3
  <2>2. CASE m.what = "values"
    <3>1. Absorb(a, m) = [a EXCEPT !.end = "values", !.list = m.list]
      BY <1>3, <2>2 DEF Absorb
    <3>2. Absorb(a, m).end = "values" /\ Absorb(a, m).list = m.list
          /\ Absorb(a, m) = [end |-> Absorb(a, m).end, list |-> Absorb(a, m).list]
      BY <2>1, <3>1
    <3> QED
      BY <2>2, <3>2 DEF Absorbed
  <2>3. CASE m.what # "values" /\ m.list = <<>>
    <3>1. Absorb(a, m) = [a EXCEPT !.end = "panic"]
      BY <1>3, <2>3 DEF Absorb
    <3> QED
      BY <2>1, <3>1 DEF Absorbed
  <2>4. CASE m.what # "values" /\ m.list # <<>>
    <3> DEFINE list == AppendUnique(a.list, m.list)
    <3>1. Absorb(a, m) = [a EXCEPT !.list = list]
      BY <1>3, <2>4 DEF Absorb
    <3>2. a.list \in Seq(Entries) /\ Unique(a.list) /\ a.list \in Grown(l)
      BY <2>1 DEF Grown
    <3>3. m.list \in Seq(Entries)
      BY <2>4 DEF MessageOK
    <3>4. list \in Grown(a.list)
      BY <3>2, <3>3, AppendUniqueGrows
    <3> HIDE DEF list
    <3>5. list \in Grown(l)
      <4>1. Len(l) \in Nat /\ Len(a.list) \in Nat /\ Len(a.list) >= Len(l)
            /\ \A i \in 1 .. Len(l) : a.list[i] = l[i]
        BY <3>2 DEF Grown
      <4>2. list \in Seq(Entries) /\ Unique(list) /\ Len(list) >= Len(a.list) /\ Len(list) \in Nat
            /\ \A i \in 1 .. Len(a.list) : list[i] = a.list[i]
        BY <3>4 DEF Grown
      <4>3. \A i \in 1 .. Len(l) : list[i] = l[i]
        BY <4>1, <4>2
      <4> QED
        BY <4>1, <4>2, <4>3 DEF Grown
    <3> QED
      BY <2>1, <3>1, <3>5 DEF Absorbed
  <2> QED
    BY <2>2, <2>3, <2>4
<1> QED
  BY <1>2, <1>3

\* A step of the fold of Rounded, ...
AbsorbNext(h, s, l, results) ==
  IF s = {} THEN [end |-> "no", list |-> l]
  ELSE LET x == Max(s) IN Absorb(h[s \ {x}], results[x])

AbsorbFold(h, l, results) == h = [s \in SUBSET DOMAIN results |-> AbsorbNext(h, s, l, results)]

AbsorbAll(l, results) ==
  FoldLeft(LAMBDA a, m : Absorb(a, m), [end |-> "no", list |-> l], results)

\* ... whose equation the fold of Rounded satisfies, if anything does, ...
LEMMA AbsorbUnfolds ==
  ASSUME NEW l, NEW results, NEW g, AbsorbFold(g, l, results)
  PROVE  \E h : AbsorbFold(h, l, results) /\ AbsorbAll(l, results) = h[DOMAIN results]
<1> DEFINE h == CHOOSE h : h = [s \in SUBSET DOMAIN results |-> AbsorbNext(h, s, l, results)]
<1>1. AbsorbAll(l, results) = h[DOMAIN results]
  BY DEF AbsorbAll, FoldLeft, MapThenFoldSet, AbsorbNext
<1>2. h = [s \in SUBSET DOMAIN results |-> AbsorbNext(h, s, l, results)]
  BY Zenon DEF AbsorbFold
<1>3. AbsorbFold(h, l, results)
  BY <1>2, Zenon DEF AbsorbFold
<1> QED
  BY <1>1, <1>3, Zenon

\* ... and what it comes to.
LEMMA AllAbsorbed ==
  ASSUME NEW l \in Seq(Entries), Unique(l), NEW R, NEW results \in Seq(R),
         \A m \in R : MessageOK(m) /\ m.y = "r"
  PROVE  AbsorbAll(l, results) \in Absorbed(l, R)
<1> DEFINE S == DOMAIN results
           A == Absorbed(l, R)
           base == [end |-> "no", list |-> l]
           ch == [s \in SUBSET S |-> Max(s)]
           F == [x \in S |-> [a \in A |-> Absorb(a, results[x])]]
<1>0. IsFiniteSet(S) /\ (\A s \in SUBSET S : s # {} => ch[s] \in s) /\ \A x \in S : results[x] \in R
  BY LastPlace
<1>1. base \in A
  <2>1. l \in Grown(l)
    BY EntriesInList DEF Grown
  <2> QED
    BY <2>1 DEF Absorbed
<1>2. \A x \in S, a \in A : Absorb(a, results[x]) \in A
  <2> HIDE DEF A
  <2> SUFFICES ASSUME NEW x \in S, NEW a \in A PROVE Absorb(a, results[x]) \in A
    OBVIOUS
  <2>1. results[x] \in R /\ MessageOK(results[x]) /\ results[x].y = "r"
    BY <1>0
  <2> QED
    BY <2>1, AbsorbStep DEF A
<1>3. \A x \in S, a \in A : F[x][a] \in A
  BY <1>2
<1> HIDE DEF base
<1>4. PICK g \in [SUBSET S -> A] : Folds(g, S, base, F, ch)
  <2> HIDE DEF S, A, ch, F
  <2> QED
    BY <1>0, <1>1, <1>3, FoldExists
<1>5. AbsorbFold(g, l, results)
  <2>1. ASSUME NEW s \in SUBSET S PROVE g[s] = AbsorbNext(g, s, l, results)
    <3>1. CASE s = {}
      BY <1>4, <3>1 DEF AbsorbNext, Folds, base
    <3>2. CASE s # {}
      <4>1. ch[s] = Max(s) /\ Max(s) \in S /\ g[s \ {Max(s)}] \in A
        <5> HIDE DEF A
        <5> QED
          BY <1>0, <1>4, <3>2
      <4>2. g[s] = F[Max(s)][g[s \ {Max(s)}]]
        BY <1>4, <3>2, <4>1 DEF Folds
      <4>3. F[Max(s)][g[s \ {Max(s)}]] = Absorb(g[s \ {Max(s)}], results[Max(s)])
        <5> HIDE DEF A
        <5> QED
          BY <4>1
      <4> QED
        BY <3>2, <4>2, <4>3 DEF AbsorbNext
    <3> QED
      BY <3>1, <3>2
  <2> HIDE DEF A
  <2> QED
    BY <1>4, <2>1 DEF AbsorbFold
<1>6. PICK h : AbsorbFold(h, l, results) /\ AbsorbAll(l, results) = h[S]
  BY <1>5, AbsorbUnfolds
<1>7. h[{}] \in A
  BY <1>1, <1>6 DEF AbsorbFold, AbsorbNext, base
<1>8. ASSUME NEW s \in SUBSET S, s # {}, h[s \ {ch[s]}] \in A PROVE h[s] \in A
  <2>1. ch[s] = Max(s) /\ Max(s) \in S
    BY <1>0, <1>8
  <2>2. h[s] = Absorb(h[s \ {Max(s)}], results[Max(s)])
    BY <1>6, <1>8 DEF AbsorbFold, AbsorbNext
  <2> HIDE DEF A
  <2> QED
    BY <1>2, <1>8, <2>1, <2>2
<1>9. h[S] \in A
  <2> HIDE DEF S, A, ch
  <2> QED
    BY <1>0, <1>7, <1>8, FoldStays
<1> QED
  BY <1>6, <1>9

-------------------------------------------------------------------------------
(* Calls. *)

\* A call that was not begun: it asked nobody and was told nothing.
Plain(call) ==
  /\ DOMAIN call = CallFields
  /\ call.by \in Nodes /\ call.target \in Ids /\ call.bucket \in Buckets /\ call.round = 0
  /\ call.nl \in Seq(Entries) /\ Unique(call.nl) /\ call.closest \in Entries
  /\ call.asked = <<>> /\ call.todo = {} /\ call.sent = {} /\ call.results = <<>>
  /\ call.ret \in Seq(Values)
  /\ call.use \in {"download", "announce"} => call.target \in Keys

\* A new call.
LEMMA NewPlain ==
  ASSUME NEW r, r.by \in Nodes, r.target \in Ids,
         r.use \in {"download", "announce"} => r.target \in Keys
  PROVE  LET new == NewCall(r) IN
         Plain(new) /\ new.use = r.use /\ new.by = r.by /\ new.target = r.target /\ new.ret = <<>>
<1> DEFINE new == NewCall(r)
<1>1. /\ DOMAIN new = CallFields
      /\ new.use = r.use /\ new.by = r.by /\ new.target = r.target /\ new.bucket = 0
      /\ new.round = 0 /\ new.nl = <<>> /\ new.closest = [id |-> {}, at |-> r.by]
      /\ new.asked = <<>> /\ new.todo = {} /\ new.sent = {} /\ new.results = <<>> /\ new.ret = <<>>
  BY DEF NewCall, CallFields
<1>2. 0 \in Buckets
  BY RoutingTableAssumption DEF Buckets
<1>3. new.closest \in Entries
  BY <1>1 DEF Entries, Nodes, Ids
<1>4. /\ <<>> \in Seq(Entries) /\ <<>> \in Seq(Values) /\ Unique(<<>>)
  BY DEF Unique
<1> HIDE DEF new
<1>5. Plain(new)
  BY <1>1, <1>2, <1>3, <1>4 DEF Plain
<1> QED
  BY <1>1, <1>5 DEF new

\* A call that neither waits nor announces.
LEMMA RestKept ==
  ASSUME NEW call, Plain(call), NEW pc \in {"idle", "ping", "done"},
         NEW new, new = [call EXCEPT !.pc = pc]
  PROVE  CallOK(new) /\ Phase(new)
<1>1. /\ new.use = call.use /\ new.by = call.by /\ new.target = call.target
      /\ new.bucket = call.bucket
      /\ new.round = 0 /\ new.nl = call.nl /\ new.closest = call.closest
      /\ new.asked = <<>> /\ new.todo = {} /\ new.sent = {} /\ new.results = <<>>
      /\ new.ret = call.ret
      /\ new.pc = pc
  BY DEF Plain, CallFields
<1>2. <<>> \in Seq(Tids) /\ DOMAIN <<>> = {}
  BY EmptySeq
<1>3. /\ call.by \in Nodes /\ call.target \in Ids /\ call.bucket \in Buckets
      /\ call.nl \in Seq(Entries) /\ call.closest \in Entries /\ call.ret \in Seq(Values)
  BY DEF Plain
<1>4. new.todo \cup new.sent \subseteq DOMAIN new.nl /\ new.round \in Nat
      /\ \A i \in DOMAIN new.results : MessageOK(new.results[i])
  BY <1>1, <1>2
<1>5. new.pc \in {"idle", "ping", "pinged", "pong", "write", "register", "collect", "panic",
                 "message", "announce", "done"}
  BY <1>1
<1>6. CallOK(new)
  <2> HIDE DEF CallOK
  <2> QED
    BY <1>1, <1>2, <1>3, <1>4, <1>5 DEF CallOK
<1>7. Phase(new)
  BY <1>1, <1>2 DEF Plain, Phase
<1> QED
  BY <1>6, <1>7

\* A round asks someone when there is someone to ask.
LEMMA SomeoneAsked ==
  ASSUME NEW n \in Nat \ {0}
  PROVE  0 < Min({ALPHA, n})
<1>1. ALPHA \in Nat \ {0}
  BY KademliaAssumption
<1>2. ALPHA \in Int /\ n \in Int
  BY <1>1
<1>3. Min({ALPHA, n}) \in {ALPHA, n}
  BY <1>2, MinOfTwo
<1> QED
  BY <1>1, <1>3

\* LookUP begins its first round with someone to ask, or is done.
LEMMA BegunKept ==
  ASSUME StateInv, NEW call, Plain(call)
  PROVE  LET new == Begun(call) IN
         /\ CallOK(new) /\ Phase(new) /\ new.ret = call.ret /\ new.target = call.target
         /\ new.by = call.by /\ new.use = call.use /\ new.results = <<>>
         /\ new.pc \in {"write", "done"}
<1> DEFINE nl == getNearestNodes(table[call.by], Id[call.by], ALPHA, call.target)
           old == [call EXCEPT !.pc = "done"]
           new == [call EXCEPT !.pc = "write", !.round = 1, !.nl = nl, !.closest = nl[1]]
<1>1. Begun(call) = IF nl = <<>> THEN old ELSE new
  BY DEF Begun
<1>2. nl \in Seq(Entries) /\ Unique(nl)
  <2>1. ALPHA \in Nat /\ call.by \in Nodes /\ call.target \in Ids
    BY KademliaAssumption DEF Plain
  <2> QED
    BY <2>1, FoundNodes
<1> HIDE DEF nl
<1>3. CASE nl = <<>>
  <2>1. CallOK(old) /\ Phase(old)
    BY RestKept
  <2>2. /\ old.ret = call.ret /\ old.target = call.target /\ old.by = call.by
        /\ old.use = call.use /\ old.results = <<>> /\ old.pc = "done"
    BY DEF Plain, CallFields
  <2> HIDE DEF old, new
  <2> QED
    BY <1>1, <1>3, <2>1, <2>2
<1>4. CASE nl # <<>>
  <2>1. /\ new.use = call.use /\ new.by = call.by /\ new.target = call.target
        /\ new.bucket = call.bucket
        /\ new.round = 1 /\ new.nl = nl /\ new.closest = nl[1]
        /\ new.asked = <<>> /\ new.todo = {} /\ new.sent = {} /\ new.results = <<>>
      /\ new.ret = call.ret
        /\ new.pc = "write"
    BY DEF Plain, CallFields
  <2> HIDE DEF new
  <2>2. <<>> \in Seq(Tids) /\ DOMAIN <<>> = {} /\ Len(<<>>) = 0
    BY EmptySeq
  <2>3. nl[1] \in Entries /\ Len(nl) \in Nat \ {0}
    BY <1>2, <1>4
  <2>4. 0 < Min({ALPHA, Len(nl)})
    BY <2>3, SomeoneAsked
  <2>5. CallOK(new)
    BY <1>2, <2>1, <2>2, <2>3 DEF Plain, CallOK
  <2>6. Phase(new)
    <3>1. Len(new.asked) < Round(new)
      BY <2>1, <2>2, <2>4 DEF Round
    <3> QED
      BY <1>2, <1>4, <2>1, <2>2, <3>1 DEF Plain, Phase
  <2> HIDE DEF old
  <2> QED
    BY <1>1, <1>4, <2>1, <2>5, <2>6 DEF new
<1> QED
  BY <1>3, <1>4

\* What LookUP makes of the answers of a round: the next round begins nearer to
\* the target, and what is returned is what an answer held.
LEMMA RoundedKept ==
  ASSUME NEW call, DOMAIN call = CallFields, CallOK(call), Phase(call), call.pc = "collect",
         NEW R, NEW results \in Seq(R), \A m \in R : MessageOK(m) /\ m.y = "r"
  PROVE  LET new == Rounded(call, results) IN
         /\ CallOK(new) /\ Phase(new)
         /\ new.ret = call.ret \/ \E m \in R : m.what = "values" /\ new.ret = m.list
         /\ new.pc \in {"write", "message", "done", "panic"} /\ new.results = <<>>
         /\ new.pc = "write" => Nearer(new.closest.id, call.closest.id, call.target)
<1> DEFINE acc == AbsorbAll(call.nl, results)
           nl == Sorted(acc.list, call.target)
           pc == IF call.use = "announce" THEN "message" ELSE "done"
           ended == [call EXCEPT !.pc = "panic", !.asked = <<>>, !.results = <<>>]
           told == [call EXCEPT !.pc = "done", !.ret = acc.list, !.asked = <<>>, !.results = <<>>]
           over == [call EXCEPT !.pc = pc, !.nl = nl, !.asked = <<>>, !.results = <<>>]
           next == [call EXCEPT !.pc = "write", !.round = @ + 1, !.nl = nl, !.closest = nl[1],
                                !.asked = <<>>, !.results = <<>>]
           Good(new) ==
             /\ CallOK(new) /\ Phase(new)
             /\ new.ret = call.ret \/ \E m \in R : m.what = "values" /\ new.ret = m.list
             /\ new.pc \in {"write", "message", "done", "panic"} /\ new.results = <<>>
             /\ new.pc = "write" => Nearer(new.closest.id, call.closest.id, call.target)
<1>0. Rounded(call, results) =
        CASE acc.end = "panic" -> ended
          [] acc.end = "values" -> told
          [] acc.end = "no" /\ nl[1] = call.closest -> over
          [] OTHER -> next
  BY DEF Rounded, AbsorbAll
<1>1. /\ call.use \in {"download", "announce"} => call.target \in Keys
      /\ call.by \in Nodes /\ call.target \in Ids /\ call.bucket \in Buckets /\ call.round \in Nat
      /\ call.nl \in Seq(Entries) /\ call.nl # <<>> /\ Unique(call.nl)
      /\ call.closest \in Entries /\ call.closest = call.nl[1]
      /\ call.todo = {} /\ call.sent = {} /\ call.ret \in Seq(Values) /\ call.round > 0
  BY DEF CallOK, Phase
<1>2. acc \in Absorbed(call.nl, R)
  BY <1>1, AllAbsorbed
<1> HIDE DEF acc
<1>3. \/ acc.end \in {"no", "panic"} /\ acc.list \in Grown(call.nl)
      \/ acc.end = "values" /\ \E m \in R : m.what = "values" /\ acc.list = m.list
  BY <1>2 DEF Absorbed
<1>4. <<>> \in Seq(Tids) /\ DOMAIN <<>> = {} /\ Len(<<>>) = 0
  BY EmptySeq
<1>5. CASE acc.end = "panic"
  <2>1. /\ ended.use = call.use /\ ended.by = call.by /\ ended.target = call.target
        /\ ended.bucket = call.bucket
        /\ ended.round = call.round /\ ended.nl = call.nl /\ ended.closest = call.closest
        /\ ended.asked = <<>> /\ ended.todo = {} /\ ended.sent = {} /\ ended.results = <<>> /\ ended.ret = call.ret
        /\ ended.pc = "panic"
    BY <1>1 DEF CallFields
  <2>2. Rounded(call, results) = ended
    <3> HIDE DEF ended, told, over, next
    <3> QED
      BY <1>0, <1>5
  <2> HIDE DEF ended
  <2>3. CallOK(ended)
    BY <1>1, <1>4, <2>1 DEF CallOK
  <2>4. Phase(ended)
    BY <1>1, <1>4, <2>1 DEF Phase
  <2> QED
    BY <2>1, <2>2, <2>3, <2>4
<1>6. CASE acc.end = "values"
  <2>1. /\ told.use = call.use /\ told.by = call.by /\ told.target = call.target
        /\ told.bucket = call.bucket
        /\ told.round = call.round /\ told.nl = call.nl /\ told.closest = call.closest
        /\ told.asked = <<>> /\ told.todo = {} /\ told.sent = {} /\ told.results = <<>> /\ told.ret = acc.list
        /\ told.pc = "done"
    BY <1>1 DEF CallFields
  <2>2. Rounded(call, results) = told
    <3> HIDE DEF ended, told, over, next
    <3> QED
      BY <1>0, <1>6
  <2> HIDE DEF told
  <2>3. PICK m \in R : m.what = "values" /\ acc.list = m.list
    BY <1>3, <1>6
  <2>4. m.list \in Seq(Values)
    BY <2>3 DEF MessageOK
  <2>5. CallOK(told)
    BY <1>1, <1>4, <2>1, <2>3, <2>4 DEF CallOK
  <2>6. Phase(told)
    BY <1>1, <1>4, <2>1 DEF Phase
  <2> QED
    BY <2>1, <2>2, <2>3, <2>5, <2>6
<1>7. CASE acc.end = "no"
  <2>1. acc.list \in Seq(Entries) /\ Unique(acc.list) /\ Len(acc.list) >= Len(call.nl)
        /\ \A i \in 1 .. Len(call.nl) : acc.list[i] = call.nl[i]
    BY <1>3, <1>7 DEF Grown
  <2>2. Len(call.nl) \in Nat \ {0}
    BY <1>1
  <2>3. Len(acc.list) \in Nat \ {0} /\ acc.list[1] = call.closest /\ 1 \in DOMAIN acc.list
    BY <1>1, <2>1, <2>2
  <2>4. /\ nl \in Seq(Entries) /\ Len(nl) = Len(acc.list) /\ Unique(nl)
        /\ \A k \in DOMAIN acc.list : \E i \in DOMAIN nl : nl[i] = acc.list[k]
        /\ \A i \in DOMAIN nl : ~Nearer(nl[i].id, nl[1].id, call.target)
    BY <1>1, <2>1, SortedPermutes
  <2> HIDE DEF nl
  <2>5. /\ nl # <<>> /\ 1 \in DOMAIN nl /\ nl[1] \in Entries /\ DOMAIN nl = 1 .. Len(nl)
        /\ Len(nl) \in Nat \ {0}
    BY <2>3, <2>4
  <2>6. CASE nl[1] = call.closest
    <3>1. /\ over.use = call.use /\ over.by = call.by /\ over.target = call.target
          /\ over.bucket = call.bucket
          /\ over.round = call.round /\ over.nl = nl /\ over.closest = call.closest
          /\ over.asked = <<>> /\ over.todo = {} /\ over.sent = {} /\ over.results = <<>> /\ over.ret = call.ret
          /\ over.pc = pc
      BY <1>1 DEF CallFields
    <3>2. Rounded(call, results) = over
      <4> HIDE DEF ended, told, over, next
      <4> QED
        BY <1>0, <1>7, <2>6
    <3> HIDE DEF over
    <3>3. CallOK(over)
      BY <1>1, <1>4, <2>4, <3>1 DEF CallOK
    <3>4. Phase(over)
      BY <1>1, <1>4, <2>4, <3>1 DEF Phase
    <3> QED
      BY <3>1, <3>2, <3>3, <3>4
  <2>7. CASE nl[1] # call.closest
    <3>1. /\ next.use = call.use /\ next.by = call.by /\ next.target = call.target
          /\ next.bucket = call.bucket
          /\ next.round = call.round + 1 /\ next.nl = nl /\ next.closest = nl[1]
          /\ next.asked = <<>> /\ next.todo = {} /\ next.sent = {} /\ next.results = <<>> /\ next.ret = call.ret
          /\ next.pc = "write"
      BY <1>1 DEF CallFields
    <3>2. Rounded(call, results) = next
      <4> HIDE DEF ended, told, over, next
      <4> QED
        BY <1>0, <1>7, <2>7
    <3> HIDE DEF next
    <3>3. 0 < Min({ALPHA, Len(nl)})
      BY <2>5, SomeoneAsked
    <3>4. CallOK(next)
      BY <1>1, <1>4, <2>4, <2>5, <3>1 DEF CallOK
    <3>5. Phase(next)
      <4>1. Len(next.asked) < Round(next) /\ next.round > 0
        BY <1>1, <1>4, <3>1, <3>3 DEF Round
      <4> QED
        BY <1>1, <1>4, <2>4, <2>5, <3>1, <4>1 DEF Phase
    <3>6. Nearer(nl[1].id, call.closest.id, call.target)
      <4>1. PICK i \in DOMAIN nl : nl[i] = call.closest
        BY <2>3, <2>4
      <4>2. i # 1
        BY <2>7, <4>1
      <4>3. nl[1].id # nl[i].id
        BY <2>4, <2>5, <4>2 DEF Unique
      <4>4. ~Nearer(nl[i].id, nl[1].id, call.target)
        BY <2>4
      <4>5. nl[1].id \in Ids /\ nl[i].id \in Ids
        BY <2>4, <2>5, EntriesInList
      <4>6. Nearer(nl[1].id, nl[i].id, call.target)
        BY <1>1, <4>3, <4>4, <4>5, NearerOrders
      <4> QED
        BY <4>1, <4>6
    <3> QED
      BY <3>1, <3>2, <3>4, <3>5, <3>6
  <2> QED
    BY <2>6, <2>7
<1> QED
  BY <1>3, <1>5, <1>6, <1>7

\* One call changes.
LEMMA OneCallKept ==
  ASSUME StateInv, LookInv, [Next]_vars, NEW c \in Calls, NEW call,
         calls' = [calls EXCEPT ![c] = call], CallOK(call), Phase(call),
         call.pc = "announce" => <<call.target, call.by>> \in announced'
  PROVE  CallsKept'
<1>1. DOMAIN calls = Calls /\ calls'[c] = call /\ \A d \in Calls \ {c} : calls'[d] = calls[d]
  BY DEF LookInv
<1>2. announced \subseteq announced'
  BY AnnouncedGrows
<1>3. ASSUME NEW d \in Calls
      PROVE  CallOK(calls'[d]) /\ Phase(calls'[d])
             /\ (calls'[d].pc = "announce" => <<calls'[d].target, calls'[d].by>> \in announced')
  BY <1>1, <1>2 DEF StateInv, CallsKept, Announces
<1> QED
  BY <1>3 DEF CallsKept, Announces

\* The application calls.
LEMMA CallKept ==
  ASSUME StateInv, LookInv, NEW c \in Calls, NEW r \in Requests[c], Call(c, r)
  PROVE  \E call : /\ calls' = [calls EXCEPT ![c] = call] /\ CallOK(call) /\ Phase(call)
                   /\ call.pc \in {"ping", "write", "done"} /\ call.results = <<>>
                   /\ call.target = r.target /\ (call.ret # <<>> => For(r.target, call.ret))
                   /\ call.use = r.use /\ call.by = r.by
                   /\ (call.ret # <<>> => r.use = "download")
<1> DEFINE new == NewCall(r)
           mine == IF r.use = "download" THEN store[r.by].data[r.target] ELSE <<>>
           ping == [new EXCEPT !.pc = "ping"]
           done == [new EXCEPT !.pc = "done", !.ret = mine]
           call == CASE r.use = "join" -> ping
                     [] mine # <<>> -> done
                     [] OTHER -> Begun(new)
           Good(k) == /\ CallOK(k) /\ Phase(k)
                      /\ k.pc \in {"ping", "write", "done"} /\ k.results = <<>>
                      /\ k.target = r.target /\ (k.ret # <<>> => For(r.target, k.ret))
                      /\ k.use = r.use /\ k.by = r.by
                      /\ (k.ret # <<>> => r.use = "download")
<1>1. calls' = [calls EXCEPT ![c] = call]
  BY DEF Call
<1>2. /\ r.by \in Nodes /\ r.target \in Ids
      /\ r.use \in {"download", "announce"} => r.target \in Keys
  BY KademliaAssumption
<1>3. Plain(new) /\ new.use = r.use /\ new.by = r.by /\ new.target = r.target /\ new.ret = <<>>
  BY <1>2, NewPlain
<1>4. mine \in Seq(Values) /\ For(r.target, mine) /\ (mine # <<>> => r.use = "download")
  <2>1. CASE r.use = "download"
    <3>1. r.target \in Keys
      BY <1>2, <2>1
    <3> QED
      BY <1>2, <2>1, <3>1, StoredValues
  <2>2. CASE r.use # "download"
    <3>1. <<>> \in Seq(Values) /\ For(r.target, <<>>)
      BY DEF For
    <3> QED
      BY <2>2, <3>1
  <2> QED
    BY <2>1, <2>2
<1> HIDE DEF new, mine
<1>5. Good(ping)
  <2>1. CallOK(ping) /\ Phase(ping)
    BY <1>3, RestKept
  <2>2. /\ ping.pc = "ping" /\ ping.results = <<>> /\ ping.target = r.target /\ ping.ret = <<>>
        /\ ping.use = r.use /\ ping.by = r.by
    BY <1>3 DEF Plain, CallFields
  <2> HIDE DEF ping
  <2> QED
    BY <2>1, <2>2
<1>6. Good(done)
  <2> DEFINE kept == [new EXCEPT !.ret = mine]
  <2>1. Plain(kept)
    <3>1. /\ kept.use = new.use /\ kept.by = new.by /\ kept.target = new.target
          /\ kept.bucket = new.bucket /\ kept.round = new.round /\ kept.nl = new.nl
          /\ kept.closest = new.closest /\ kept.asked = new.asked /\ kept.todo = new.todo
          /\ kept.results = new.results /\ kept.ret = mine /\ DOMAIN kept = CallFields
          /\ kept.sent = new.sent
      BY <1>3 DEF Plain, CallFields
    <3> HIDE DEF kept
    <3> QED
      BY <1>3, <1>4, <3>1 DEF Plain
  <2>2. done = [kept EXCEPT !.pc = "done"]
    BY <1>3 DEF Plain, CallFields
  <2>3. /\ done.pc = "done" /\ done.results = <<>> /\ done.target = r.target /\ done.ret = mine
        /\ done.use = r.use /\ done.by = r.by
    BY <1>3 DEF Plain, CallFields
  <2> HIDE DEF kept, done
  <2>4. CallOK(done) /\ Phase(done)
    BY <2>1, <2>2, RestKept
  <2> QED
    BY <1>4, <2>3, <2>4
<1>7. Good(Begun(new))
  BY <1>3, BegunKept
<1>8. call = ping \/ call = done \/ call = Begun(new)
  <2> HIDE DEF ping, done
  <2> QED
    OBVIOUS
<1> HIDE DEF call, Good
<1>9. Good(call)
  BY <1>5, <1>6, <1>7, <1>8
<1> QED
  BY <1>1, <1>9 DEF Good

\* A bucket is refreshed.
LEMMA RefreshKept ==
  ASSUME StateInv, NEW c \in Calls, NEW n \in Nodes, NEW b \in Buckets, RefreshBucket(c, n, b)
  PROVE  \E call : /\ calls' = [calls EXCEPT ![c] = call] /\ CallOK(call) /\ Phase(call)
                   /\ call.pc \in {"write", "done"} /\ call.results = <<>> /\ call.ret = <<>>
<1>1. PICK id \in getRandomIDFromBucket(Id[n], b) :
        calls' = [calls EXCEPT ![c] =
          Begun([NewCall([use |-> "refresh", by |-> n, target |-> id]) EXCEPT !.bucket = b])]
  BY DEF RefreshBucket
<1> DEFINE r == [use |-> "refresh", by |-> n, target |-> id]
           new == NewCall(r)
           asks == [new EXCEPT !.bucket = b]
<1>2. id \in Ids
  BY DEF getRandomIDFromBucket
<1>3. Plain(new) /\ new.use = "refresh" /\ new.ret = <<>>
  <2>1. r.by \in Nodes /\ r.target \in Ids /\ r.use = "refresh"
    BY <1>2
  <2> HIDE DEF r
  <2> QED
    BY <2>1, NewPlain
<1>4. calls' = [calls EXCEPT ![c] = Begun(asks)]
  BY <1>1
<1> HIDE DEF new
<1>5. Plain(asks) /\ asks.ret = <<>>
  <2>1. /\ asks.use = new.use /\ asks.by = new.by /\ asks.target = new.target
        /\ asks.bucket = b /\ asks.round = new.round /\ asks.nl = new.nl
        /\ asks.closest = new.closest /\ asks.asked = new.asked /\ asks.todo = new.todo
        /\ asks.results = new.results /\ asks.ret = new.ret /\ DOMAIN asks = CallFields
        /\ asks.sent = new.sent
    BY <1>3 DEF Plain, CallFields
  <2> HIDE DEF asks
  <2> QED
    BY <1>3, <2>1 DEF Plain
<1> HIDE DEF asks
<1> DEFINE call == Begun(asks)
<1>6. /\ CallOK(call) /\ Phase(call) /\ call.ret = <<>> /\ call.results = <<>>
      /\ call.pc \in {"write", "done"}
  BY <1>5, BegunKept
<1> HIDE DEF call
<1> QED
  BY <1>4, <1>6 DEF call

\* A call that goes on: what it asks, from where, and what it was told.
Onwards(new, old) ==
  /\ Same(new, old) /\ new.round = old.round /\ new.nl = old.nl /\ new.closest = old.closest
  /\ new.results = old.results /\ new.ret = old.ret

\* What is known of a call.
LEMMA CallKnown ==
  ASSUME StateInv, LookInv, NEW c \in Calls
  PROVE  /\ DOMAIN calls = Calls /\ DOMAIN calls[c] = CallFields
         /\ CallOK(calls[c]) /\ Phase(calls[c]) /\ Announces(calls[c])
         /\ calls[c].pc # "collect" => calls[c].results = <<>>
BY DEF StateInv, CallsKept, LookInv, Shape, Turn

\* Between two states of a call that goes on only what it depends on matters.
LEMMA OnwardsOK ==
  ASSUME NEW old, CallOK(old), NEW new, Onwards(new, old), new.asked \in Seq(Tids),
         new.todo \cup new.sent \subseteq DOMAIN old.nl,
         new.pc \in {"pinged", "pong", "write", "register", "collect", "announce", "done"}
  PROVE  CallOK(new)
<1>1. /\ new.by = old.by /\ new.target = old.target /\ new.bucket = old.bucket
      /\ new.round = old.round /\ new.nl = old.nl /\ new.closest = old.closest
      /\ new.results = old.results /\ new.ret = old.ret
  BY DEF Onwards, Same
<1> QED
  BY <1>1 DEF CallOK

\* A query is written.
LEMMA WriteKept ==
  ASSUME StateInv, LookInv, NEW c \in Calls, NEW t \in Tids, WriteQuery(c, t)
  PROVE  \E call : /\ calls' = [calls EXCEPT ![c] = call] /\ CallOK(call) /\ Phase(call)
                   /\ Onwards(call, calls[c]) /\ call.asked[Len(call.asked)] = t
                   /\ \/ calls[c].pc = "ping" /\ call.pc = "pinged"
                      \/ calls[c].pc = "write" /\ call.pc = "register"
<1> DEFINE old == calls[c]
<1>1. /\ DOMAIN calls = Calls /\ DOMAIN old = CallFields /\ CallOK(old) /\ Phase(old)
      /\ old.asked \in Seq(Tids) /\ old.todo \cup old.sent \subseteq DOMAIN old.nl
  BY CallKnown DEF CallOK
<1>2. CASE old.pc = "ping"
  <2> DEFINE new == [old EXCEPT !.pc = "pinged", !.asked = <<t>>]
  <2>1. calls' = [calls EXCEPT ![c] = new]
    BY <1>1, <1>2 DEF WriteQuery
  <2> HIDE DEF old
  <2>2. /\ Onwards(new, old) /\ new.pc = "pinged" /\ new.asked = <<t>> /\ new.todo = old.todo
        /\ new.sent = old.sent /\ new.tid = old.tid
    BY <1>1 DEF CallFields, Onwards, Same
  <2> HIDE DEF new
  <2>3. <<t>> \in Seq(Tids) /\ Len(<<t>>) = 1 /\ <<t>>[1] = t
    OBVIOUS
  <2>4. CallOK(new)
    BY <1>1, <2>2, <2>3, OnwardsOK
  <2>5. Phase(new)
    BY <1>1, <1>2, <2>2, <2>3 DEF Phase, Onwards, Same
  <2> QED
    BY <1>2, <2>1, <2>2, <2>3, <2>4, <2>5 DEF old
<1>3. CASE old.pc = "write"
  <2> DEFINE asked == Append(old.asked, t)
             new == [old EXCEPT !.pc = "register", !.asked = asked]
  <2>1. calls' = [calls EXCEPT ![c] = new]
    BY <1>1, <1>3 DEF WriteQuery
  <2> HIDE DEF old
  <2>2. /\ asked \in Seq(Tids) /\ asked # <<>> /\ asked[Len(asked)] = t
        /\ Len(asked) = Len(old.asked) + 1 /\ Len(old.asked) \in Nat
    BY <1>1
  <2> HIDE DEF asked
  <2>3. /\ Onwards(new, old) /\ new.pc = "register" /\ new.asked = asked /\ new.todo = old.todo
        /\ new.sent = old.sent /\ new.tid = old.tid
    BY <1>1 DEF CallFields, Onwards, Same
  <2> HIDE DEF new
  <2>4. CallOK(new)
    BY <1>1, <2>2, <2>3, OnwardsOK
  <2>5. Len(asked) <= Round(old)
    <3> DEFINE n == Len(old.nl)
    <3>1. n \in Nat /\ ALPHA \in Nat /\ Len(old.asked) < Min({ALPHA, n})
      <4>1. old.nl \in Seq(Entries)
        BY <1>1 DEF CallOK
      <4>2. Len(old.asked) < Round(old)
        BY <1>1, <1>3 DEF Phase
      <4> QED
        BY <4>1, <4>2, KademliaAssumption DEF Round
    <3> HIDE DEF n
    <3>2. ALPHA \in Int /\ n \in Int
      BY <3>1
    <3>3. Min({ALPHA, n}) \in {ALPHA, n}
      BY <3>2, MinOfTwo
    <3>4. Len(asked) <= Min({ALPHA, n})
      BY <2>2, <3>1, <3>2, <3>3
    <3> QED
      BY <3>4 DEF n, Round
  <2>6. Phase(new)
    <3>1. new.nl = old.nl /\ Len(new.asked) <= Round(new)
      BY <2>3, <2>5 DEF Onwards, Round
    <3> QED
      BY <1>1, <1>3, <2>2, <2>3, <3>1 DEF Phase, Onwards, Same
  <2> QED
    BY <1>3, <2>1, <2>2, <2>3, <2>4, <2>6 DEF old
<1> QED
  BY <1>2, <1>3 DEF WriteQuery

\* An answer is expected.
LEMMA RegisterKept ==
  ASSUME StateInv, LookInv, NEW c \in Calls, Register(c)
  PROVE  \E call : /\ calls' = [calls EXCEPT ![c] = call] /\ CallOK(call) /\ Phase(call)
                   /\ Onwards(call, calls[c]) /\ call.pc \in {"pong", "write", "collect"}
<1> DEFINE old == calls[c]
           last == Len(old.asked) = Round(old)
<1>1. /\ DOMAIN calls = Calls /\ DOMAIN old = CallFields /\ CallOK(old) /\ Phase(old)
      /\ old.asked \in Seq(Tids) /\ old.todo \cup old.sent \subseteq DOMAIN old.nl
  BY CallKnown DEF CallOK
<1>2. \/ old.pc = "register" /\ calls' = [calls EXCEPT ![c].pc = IF last THEN "collect" ELSE "write"]
      \/ old.pc = "pinged" /\ calls' = [calls EXCEPT ![c].pc = "pong"]
  BY DEF Register, Round
<1>3. PICK pc \in {"pong", "write", "collect"} :
        /\ calls' = [calls EXCEPT ![c].pc = pc]
        /\ \/ old.pc = "pinged" /\ pc = "pong"
           \/ old.pc = "register" /\ pc = "collect"
           \/ old.pc = "register" /\ pc = "write" /\ ~last
  <2> HIDE DEF old, last
  <2> QED
    BY <1>2
<1> DEFINE new == [old EXCEPT !.pc = pc]
<1>4. calls' = [calls EXCEPT ![c] = new]
  BY <1>1, <1>3
<1> HIDE DEF old
<1>5. /\ Onwards(new, old) /\ new.pc = pc /\ new.asked = old.asked /\ new.todo = old.todo
      /\ new.sent = old.sent /\ new.tid = old.tid
  BY <1>1 DEF CallFields, Onwards, Same
<1> HIDE DEF new
<1>6. CallOK(new)
  BY <1>1, <1>5, OnwardsOK
<1>7. pc = "write" => Len(new.asked) < Round(new)
  <2>1. SUFFICES ASSUME pc = "write" PROVE Len(old.asked) < Round(old)
    BY <1>5 DEF Onwards, Round
  <2>2. old.pc = "register" /\ Len(old.asked) # Round(old) /\ Len(old.asked) <= Round(old)
    BY <1>1, <1>3, <2>1 DEF Phase
  <2> DEFINE n == Len(old.nl)  i == Len(old.asked)
  <2>3. n \in Int /\ i \in Int /\ ALPHA \in Int
    <3>1. old.nl \in Seq(Entries)
      BY <1>1 DEF CallOK
    <3> QED
      BY <1>1, <3>1, KademliaAssumption
  <2> HIDE DEF n, i
  <2>4. Min({ALPHA, n}) \in {ALPHA, n}
    BY <2>3, MinOfTwo
  <2>5. i # Min({ALPHA, n}) /\ i <= Min({ALPHA, n})
    BY <2>2 DEF Round, n, i
  <2>6. i < Min({ALPHA, n})
    BY <2>3, <2>4, <2>5
  <2> QED
    BY <2>6 DEF Round, n, i
<1>8. Phase(new)
  BY <1>1, <1>3, <1>5, <1>7 DEF Phase, Onwards, Same
<1> QED
  BY <1>3, <1>4, <1>5, <1>6, <1>8 DEF old

\* The message of AnnouncePeer is made.
LEMMA MakeKept ==
  ASSUME StateInv, LookInv, NEW c \in Calls, NEW t \in Tids, MakeAnnounce(c, t)
  PROVE  \E call : /\ calls' = [calls EXCEPT ![c] = call] /\ CallOK(call) /\ Phase(call)
                   /\ Onwards(call, calls[c]) /\ call.pc = "announce" /\ call.tid = t
                   /\ announced' = announced \cup {<<call.target, call.by>>}
<1> DEFINE old == calls[c]
           new == [old EXCEPT !.pc = "announce", !.tid = t, !.todo = DOMAIN old.nl]
<1>1. /\ DOMAIN calls = Calls /\ DOMAIN old = CallFields /\ CallOK(old) /\ Phase(old)
      /\ old.asked \in Seq(Tids)
  BY CallKnown DEF CallOK
<1>2. /\ calls' = [calls EXCEPT ![c] = new] /\ old.pc = "message"
      /\ announced' = announced \cup {<<old.target, old.by>>}
  BY <1>1 DEF MakeAnnounce
<1> HIDE DEF old
<1>3. /\ Onwards(new, old) /\ new.pc = "announce" /\ new.asked = old.asked /\ new.tid = t
      /\ new.todo = DOMAIN old.nl /\ new.sent = old.sent /\ old.sent = {}
  BY <1>1, <1>2 DEF CallFields, Phase, Onwards, Same
<1> HIDE DEF new
<1>4. CallOK(new)
  BY <1>1, <1>3, OnwardsOK
<1>5. Phase(new)
  BY <1>1, <1>2, <1>3 DEF Phase, Onwards, Same
<1>6. announced' = announced \cup {<<new.target, new.by>>}
  BY <1>2, <1>3 DEF Onwards, Same
<1> QED
  BY <1>2, <1>3, <1>4, <1>5, <1>6 DEF old

\* A goroutine of AnnouncePeer takes a step.
AnnounceStep(c) ==
  \/ \E i \in calls[c].todo : WriteAnnounce(c, i) \/ AnnounceFails(c, i)
  \/ \E i \in calls[c].sent : RegisterAnnounce(c, i)

\* It is written, or expected.
LEMMA SendKept ==
  ASSUME StateInv, LookInv, NEW c \in Calls, AnnounceStep(c)
  PROVE  \E call : /\ calls' = [calls EXCEPT ![c] = call] /\ CallOK(call) /\ Phase(call)
                   /\ Onwards(call, calls[c]) /\ call.pc \in {"announce", "done"}
                   /\ call.tid = calls[c].tid /\ calls[c].pc = "announce"
<1> DEFINE old == calls[c]
           Goes(new) ==
             /\ Onwards(new, old) /\ new.asked = old.asked /\ new.tid = old.tid
             /\ new.pc \in {"announce", "done"}
             /\ new.todo \cup new.sent \subseteq old.todo \cup old.sent
             /\ new.todo \cup new.sent # {} => new.pc = "announce"
<1>1. /\ DOMAIN calls = Calls /\ DOMAIN old = CallFields /\ CallOK(old) /\ Phase(old)
      /\ old.asked \in Seq(Tids) /\ old.todo \cup old.sent \subseteq DOMAIN old.nl
  BY CallKnown DEF CallOK
<1>2. \E new : calls' = [calls EXCEPT ![c] = new] /\ old.pc = "announce" /\ Goes(new)
  <2>1. ASSUME NEW i \in old.todo, WriteAnnounce(c, i)
        PROVE  \E new : calls' = [calls EXCEPT ![c] = new] /\ old.pc = "announce" /\ Goes(new)
    <3> DEFINE new == [old EXCEPT !.todo = @ \ {i}, !.sent = @ \cup {i}]
    <3>1. calls' = [calls EXCEPT ![c] = new] /\ old.pc = "announce"
      BY <1>1, <2>1 DEF WriteAnnounce
    <3> HIDE DEF old
    <3>2. Goes(new)
      BY <1>1, <3>1 DEF CallFields, Onwards, Same
    <3> HIDE DEF new, Goes
    <3> QED
      BY <3>1, <3>2
  <2>2. ASSUME NEW i \in old.todo, AnnounceFails(c, i)
        PROVE  \E new : calls' = [calls EXCEPT ![c] = new] /\ old.pc = "announce" /\ Goes(new)
    <3> DEFINE pc == IF old.todo = {i} /\ old.sent = {} THEN "done" ELSE "announce"
               new == [old EXCEPT !.todo = @ \ {i}, !.pc = pc]
    <3>1. calls' = [calls EXCEPT ![c] = new] /\ old.pc = "announce"
      BY <1>1, <2>2 DEF AnnounceFails
    <3>2. pc \in {"announce", "done"} /\ ((old.todo \ {i}) \cup old.sent # {} => pc = "announce")
      OBVIOUS
    <3> HIDE DEF old, pc
    <3>3. Goes(new)
      BY <1>1, <3>2 DEF CallFields, Onwards, Same
    <3> HIDE DEF new, Goes
    <3> QED
      BY <3>1, <3>3
  <2>3. ASSUME NEW i \in old.sent, RegisterAnnounce(c, i)
        PROVE  \E new : calls' = [calls EXCEPT ![c] = new] /\ old.pc = "announce" /\ Goes(new)
    <3> DEFINE pc == IF old.sent = {i} /\ old.todo = {} THEN "done" ELSE "announce"
               new == [old EXCEPT !.sent = @ \ {i}, !.pc = pc]
    <3>1. calls' = [calls EXCEPT ![c] = new] /\ old.pc = "announce"
      BY <1>1, <2>3 DEF RegisterAnnounce
    <3>2. pc \in {"announce", "done"} /\ (old.todo \cup (old.sent \ {i}) # {} => pc = "announce")
      OBVIOUS
    <3> HIDE DEF old, pc
    <3>3. Goes(new)
      BY <1>1, <3>2 DEF CallFields, Onwards, Same
    <3> HIDE DEF new, Goes
    <3> QED
      BY <3>1, <3>3
  <2> HIDE DEF Goes
  <2> QED
    BY <2>1, <2>2, <2>3 DEF AnnounceStep
<1>3. PICK new : calls' = [calls EXCEPT ![c] = new] /\ old.pc = "announce" /\ Goes(new)
  BY <1>2
<1> HIDE DEF old
<1>4. CallOK(new)
  BY <1>1, <1>3, OnwardsOK
<1>5. Phase(new)
  BY <1>1, <1>3 DEF Phase, Onwards, Same
<1> QED
  BY <1>3, <1>4, <1>5 DEF old

\* A write failed: the call is over, unless it is the Ping that fails.
LEMMA FailKept ==
  ASSUME StateInv, LookInv, NEW c \in Calls, NEW t \in Tids, WriteFails(c, t), ~UNCHANGED calls
  PROVE  \E call : /\ calls' = [calls EXCEPT ![c] = call] /\ CallOK(call) /\ Phase(call)
                   /\ Onwards(call, calls[c]) /\ call.pc = "done" /\ call.results = <<>>
<1> DEFINE old == calls[c]
           new == [old EXCEPT !.pc = "done", !.asked = <<>>]
<1>1. /\ DOMAIN calls = Calls /\ DOMAIN old = CallFields /\ CallOK(old) /\ Phase(old)
      /\ old.todo \cup old.sent \subseteq DOMAIN old.nl
      /\ old.pc # "collect" => old.results = <<>>
  BY CallKnown DEF CallOK
<1>2. old.pc = "write" /\ calls' = [calls EXCEPT ![c] = new]
  BY <1>1 DEF WriteFails
<1> HIDE DEF old
<1>3. /\ Onwards(new, old) /\ new.pc = "done" /\ new.asked = <<>> /\ new.todo = old.todo
      /\ new.sent = old.sent /\ new.results = <<>>
  BY <1>1, <1>2 DEF CallFields, Onwards, Same
<1> HIDE DEF new
<1>4. CallOK(new)
  BY <1>1, <1>3, EmptySeq, OnwardsOK
<1>5. Phase(new)
  BY <1>1, <1>2, <1>3 DEF Phase, Onwards, Same
<1> QED
  BY <1>2, <1>3, <1>4, <1>5 DEF old

\* Ping was answered, or not: LookUP begins.
LEMMA PingKept ==
  ASSUME StateInv, LookInv, NEW w \in waiters, w.q = "ping",
         (\E p \in pend : WaiterReceives(w, p)) \/ WaiterTimesOut(w)
  PROVE  \E call : /\ calls' = [calls EXCEPT ![w.chan[1]] = call] /\ CallOK(call) /\ Phase(call)
                   /\ call.pc \in {"write", "done"} /\ Same(call, calls[w.chan[1]])
                   /\ call.ret = calls[w.chan[1]].ret /\ call.results = <<>>
                   /\ w.chan[1] \in Calls
<1> DEFINE c == w.chan[1]
           old == calls[c]
           asks == [old EXCEPT !.asked = <<>>]
           call == Begun(asks)
<1>1. c \in Calls /\ old.pc = "pong"
  BY DEF LookInv, Waiting
<1>2. calls' = [calls EXCEPT ![c] = Begun([@ EXCEPT !.asked = <<>>])]
  BY DEF WaiterReceives, WaiterTimesOut
<1> HIDE DEF c
<1>3. /\ DOMAIN calls = Calls /\ DOMAIN old = CallFields /\ CallOK(old) /\ Phase(old)
      /\ old.results = <<>>
  BY <1>1, CallKnown
<1>4. calls' = [calls EXCEPT ![c] = call]
  BY <1>1, <1>2, <1>3
<1> HIDE DEF old
<1>5. /\ Onwards(asks, old) /\ asks.asked = <<>> /\ asks.todo = old.todo
      /\ asks.sent = old.sent /\ DOMAIN asks = CallFields
  BY <1>3 DEF CallFields, Onwards, Same
<1> HIDE DEF asks
<1>6. Plain(asks)
  <2>1. old.todo = {} /\ old.sent = {} /\ old.round = 0 /\ Unique(old.nl)
        /\ (old.use \in {"download", "announce"} => old.target \in Keys)
    BY <1>1, <1>3 DEF Phase, old
  <2>2. /\ old.by \in Nodes /\ old.target \in Ids /\ old.bucket \in Buckets
        /\ old.nl \in Seq(Entries) /\ old.closest \in Entries /\ old.ret \in Seq(Values)
    BY <1>3 DEF CallOK
  <2> QED
    BY <1>3, <1>5, <2>1, <2>2 DEF Plain, Onwards, Same
<1>7. /\ CallOK(call) /\ Phase(call) /\ call.ret = asks.ret /\ call.results = <<>>
      /\ call.pc \in {"write", "done"}
  BY <1>6, BegunKept
<1>8. Same(call, asks)
  BY <1>5, BegunShape
<1> HIDE DEF call
<1>9. Same(call, old) /\ call.ret = old.ret
  BY <1>5, <1>7, <1>8 DEF Onwards, Same
<1> QED
  BY <1>1, <1>4, <1>7, <1>9 DEF c, old

\* A round ends: what comes of the call, and what it was told.
RoundOver(new, old, R) ==
  /\ Same(new, old) /\ CallOK(new) /\ Phase(new)
  /\ new.ret = old.ret \/ \E m \in R : m.what = "values" /\ new.ret = m.list
  /\ new.pc \in {"write", "message", "done", "panic"} /\ new.results = <<>>
  /\ new.pc = "write" => Nearer(new.closest.id, old.closest.id, old.target)
  /\ new.pc # "write" => new.round = old.round

\* EndRound makes of a call what RoundOver says.
LEMMA EndKept ==
  ASSUME StateInv, LookInv, NEW c \in Calls, calls[c].pc = "collect",
         NEW R, NEW results \in Seq(R), \A m \in R : MessageOK(m) /\ m.y = "r",
         EndRound(c, results)
  PROVE  \E call : calls' = [calls EXCEPT ![c] = call] /\ RoundOver(call, calls[c], R)
<1> DEFINE old == calls[c]
           new == Rounded(old, results)
<1>1. DOMAIN old = CallFields /\ CallOK(old) /\ Phase(old)
  BY CallKnown
<1>2. calls' = [calls EXCEPT ![c] = new]
  BY DEF EndRound
<1> HIDE DEF old
<1>3. old.pc = "collect"
  BY DEF old
<1>4. /\ CallOK(new) /\ Phase(new)
      /\ new.ret = old.ret \/ \E m \in R : m.what = "values" /\ new.ret = m.list
      /\ new.pc \in {"write", "message", "done", "panic"} /\ new.results = <<>>
      /\ new.pc = "write" => Nearer(new.closest.id, old.closest.id, old.target)
  BY <1>1, <1>3, RoundedKept
<1>5. Same(new, old) /\ (new.pc # "write" => new.round = old.round)
  BY <1>1, RoundedShape
<1> HIDE DEF new
<1>6. RoundOver(new, old, R)
  BY <1>4, <1>5 DEF RoundOver
<1> QED
  BY <1>2, <1>6 DEF old

\* The results a call has.
LEMMA ResultsKnown ==
  ASSUME StateInv, LookInv, NEW c \in Calls
  PROVE  /\ calls[c].results \in Seq(Range(calls[c].results))
         /\ \A m \in Range(calls[c].results) : MessageOK(m) /\ m.y = "r"
<1>1. calls[c].results \in Seq(Range(calls[c].results))
  BY DEF LookInv, Shape
<1>2. CallOK(calls[c]) /\ Phase(calls[c])
  BY CallKnown
<1>3. \A i \in DOMAIN calls[c].results : MessageOK(calls[c].results[i]) /\ calls[c].results[i].y = "r"
  BY <1>2 DEF CallOK, Phase
<1> QED
  BY <1>1, <1>3 DEF Range

\* A result is received.
LEMMA CollectKept ==
  ASSUME StateInv, LookInv, NEW c \in Calls, NEW f \in fwd, Collect(c, f)
  PROVE  LET R == Range(calls[c].results) \cup {f.resp} IN
         /\ calls[c].pc = "collect" /\ c = f.chan[1] /\ f.chan[2] = calls[c].round
         /\ \E call :
              /\ calls' = [calls EXCEPT ![c] = call]
              /\ \/ RoundOver(call, calls[c], R)
                 \/ /\ CallOK(call) /\ Phase(call) /\ Same(call, calls[c]) /\ call.pc = "collect"
                    /\ call.ret = calls[c].ret /\ call.round = calls[c].round
                    /\ Range(call.results) \subseteq R
<1> DEFINE old == calls[c]
           R == Range(calls[c].results) \cup {f.resp}
           results == Append(old.results, f.resp)
           new == [old EXCEPT !.results = results]
<1>1. /\ EndRound(c, results) \/ calls' = [calls EXCEPT ![c].results = results]
      /\ old.pc = "collect" /\ c = f.chan[1] /\ f.chan[2] = old.round
  BY DEF Collect, Collecting
<1>2. /\ DOMAIN calls = Calls /\ DOMAIN old = CallFields /\ CallOK(old) /\ Phase(old)
  BY CallKnown
<1>3. MessageOK(f.resp) /\ f.resp.y = "r"
  BY DEF StateInv, RoutinesKept, ReplyOK
<1>4. /\ old.results \in Seq(Range(old.results))
      /\ \A m \in Range(old.results) : MessageOK(m) /\ m.y = "r"
  BY ResultsKnown
<1>5. \A m \in R : MessageOK(m) /\ m.y = "r"
  BY <1>3, <1>4
<1>6. results \in Seq(R)
  <2>1. old.results \in Seq(R)
    BY <1>4, SeqMonotonic
  <2> QED
    BY <2>1, AppendProperties
<1> HIDE DEF R, results
<1>7. CASE EndRound(c, results)
  <2>1. \E call : calls' = [calls EXCEPT ![c] = call] /\ RoundOver(call, calls[c], R)
    BY <1>1, <1>5, <1>6, <1>7, EndKept
  <2> QED
    BY <1>1, <2>1 DEF R
<1>8. CASE calls' = [calls EXCEPT ![c].results = results]
  <2>1. calls' = [calls EXCEPT ![c] = new]
    BY <1>2, <1>8
  <2> HIDE DEF old
  <2>2. /\ new.use = old.use /\ new.by = old.by /\ new.target = old.target
        /\ new.bucket = old.bucket
        /\ new.round = old.round /\ new.nl = old.nl /\ new.closest = old.closest
        /\ new.asked = old.asked /\ new.todo = old.todo /\ new.results = results
        /\ new.ret = old.ret /\ new.pc = old.pc /\ DOMAIN new = DOMAIN old /\ new.tid = old.tid
        /\ new.sent = old.sent
    BY <1>2 DEF CallFields
  <2> HIDE DEF new
  <2>3. \A i \in DOMAIN results : results[i] \in R
    BY <1>6
  <2>4. Range(results) \subseteq R
    BY <2>3 DEF Range
  <2>5. CallOK(new)
    BY <1>2, <1>5, <2>2, <2>3 DEF CallOK
  <2>6. Phase(new)
    <3>1. Round(new) = Round(old)
      BY <2>2 DEF Round
    <3> QED
      BY <1>2, <1>5, <2>2, <2>3, <3>1 DEF Phase
  <2>7. Same(new, old) /\ new.pc = "collect"
    BY <1>1, <2>2 DEF Same, old
  <2> QED
    BY <1>1, <2>1, <2>2, <2>4, <2>5, <2>6, <2>7 DEF old, R
<1> QED
  BY <1>1, <1>7, <1>8

\* The time limit of a round passes.
LEMMA TimeOutKept ==
  ASSUME StateInv, LookInv, NEW c \in Calls, CollectTimesOut(c)
  PROVE  /\ calls[c].pc = "collect"
         /\ \E call : /\ calls' = [calls EXCEPT ![c] = call]
                      /\ RoundOver(call, calls[c], Range(calls[c].results))
<1>1. calls[c].pc = "collect" /\ EndRound(c, calls[c].results)
  BY DEF CollectTimesOut
<1> QED
  BY <1>1, ResultsKnown, EndKept

\* Which steps change a call.
LEMMA CallsMove ==
  ASSUME [Next]_vars
  PROVE  \/ UNCHANGED calls
         \/ \E c \in Calls : \E r \in Requests[c] : Call(c, r)
         \/ \E c \in Calls, r \in Refreshed : RefreshBucket(c, r[1], r[2])
         \/ \E c \in Calls, t \in Tids : WriteQuery(c, t)
         \/ \E c \in Calls : Register(c)
         \/ \E c \in Calls, f \in fwd : Collect(c, f)
         \/ \E c \in Calls : CollectTimesOut(c)
         \/ \E c \in Calls, t \in Tids : MakeAnnounce(c, t)
         \/ \E c \in Calls : AnnounceStep(c)
         \/ \E c \in Calls, t \in Tids : WriteFails(c, t)
         \/ \E w \in waiters : w.q = "ping" /\ \/ \E p \in pend : WaiterReceives(w, p)
                                               \/ WaiterTimesOut(w)
<1>1. ASSUME NEW w \in waiters, w.q # "ping",
             (\E p \in pend : WaiterReceives(w, p)) \/ WaiterTimesOut(w)
      PROVE  UNCHANGED calls
  BY <1>1 DEF WaiterReceives, WaiterTimesOut
<1> QED
  BY <1>1, NodesLeave, Zenon DEF Next, AnnounceStep

\* Calls keep their types, and what they need to go on.
LEMMA CallsStep ==
  ASSUME StateInv, LookInv, [Next]_vars
  PROVE  CallsKept'
<1>0. announced \subseteq announced'
  BY AnnouncedGrows
<1>1. CASE UNCHANGED calls
  BY <1>0, <1>1 DEF StateInv, CallsKept, Announces
<1>2. ASSUME NEW c \in Calls, NEW call, calls' = [calls EXCEPT ![c] = call], CallOK(call), Phase(call),
             call.pc # "announce" \/ <<call.target, call.by>> \in announced'
      PROVE  CallsKept'
  BY <1>2, OneCallKept
<1>3. ASSUME NEW c \in Calls, NEW r \in Requests[c], Call(c, r) PROVE CallsKept'
  BY <1>2, <1>3, CallKept
<1>4. ASSUME NEW c \in Calls, NEW r \in Refreshed, RefreshBucket(c, r[1], r[2]) PROVE CallsKept'
  <2>1. r[1] \in Nodes /\ r[2] \in Buckets
    BY KademliaAssumption
  <2>2. PICK call : /\ calls' = [calls EXCEPT ![c] = call] /\ CallOK(call) /\ Phase(call)
                    /\ call.pc \in {"write", "done"}
    BY <1>4, <2>1, RefreshKept
  <2> QED
    BY <1>2, <2>2
<1>5. ASSUME NEW c \in Calls, NEW t \in Tids, WriteQuery(c, t) PROVE CallsKept'
  BY <1>2, <1>5, WriteKept
<1>6. ASSUME NEW c \in Calls, Register(c) PROVE CallsKept'
  BY <1>2, <1>6, RegisterKept
<1>7. ASSUME NEW c \in Calls, NEW f \in fwd, Collect(c, f) PROVE CallsKept'
  <2>1. \E call : /\ calls' = [calls EXCEPT ![c] = call] /\ CallOK(call) /\ Phase(call)
                  /\ call.pc # "announce"
    BY <1>7, CollectKept DEF RoundOver
  <2> QED
    BY <1>2, <2>1
<1>8. ASSUME NEW c \in Calls, CollectTimesOut(c) PROVE CallsKept'
  <2>1. \E call : /\ calls' = [calls EXCEPT ![c] = call] /\ CallOK(call) /\ Phase(call)
                  /\ call.pc # "announce"
    BY <1>8, TimeOutKept DEF RoundOver
  <2> QED
    BY <1>2, <2>1
<1>9. ASSUME NEW c \in Calls, NEW t \in Tids, MakeAnnounce(c, t) PROVE CallsKept'
  BY <1>2, <1>9, MakeKept
<1>10. ASSUME NEW c \in Calls, AnnounceStep(c) PROVE CallsKept'
  <2>1. PICK call : /\ calls' = [calls EXCEPT ![c] = call] /\ CallOK(call) /\ Phase(call)
                    /\ Onwards(call, calls[c]) /\ calls[c].pc = "announce"
    BY <1>10, SendKept
  <2>2. <<call.target, call.by>> \in announced'
    BY <1>0, <2>1 DEF StateInv, CallsKept, Announces, Onwards, Same
  <2> QED
    BY <1>2, <2>1, <2>2
<1>11. ASSUME NEW w \in waiters, w.q = "ping",
              (\E p \in pend : WaiterReceives(w, p)) \/ WaiterTimesOut(w)
       PROVE  CallsKept'
  BY <1>2, <1>11, PingKept
<1>12. ASSUME NEW c \in Calls, NEW t \in Tids, WriteFails(c, t) PROVE CallsKept'
  BY <1>1, <1>2, <1>12, FailKept
<1> QED
  BY <1>1, <1>3, <1>4, <1>5, <1>6, <1>7, <1>8, <1>9, <1>10, <1>11, <1>12, CallsMove

-------------------------------------------------------------------------------
(* The invariant of the state is inductive. *)

\* Transaction ids, and what the history holds.
LEMMA CountsStep ==
  ASSUME StateInv, LookInv, [Next]_vars
  PROVE  Counts'
<1>1. Counts
  BY DEF StateInv
<1>2. CASE UNCHANGED <<tids, announced, reused, expired>>
  BY <1>1, <1>2 DEF Counts
<1>3. ASSUME NEW n \in Nodes, NEW t \in Tids, DrawTid(n, t)
      PROVE  tids' \in [Nodes -> 0 .. MaxTid] /\ reused' \in 0 .. MaxReuse
  <2>1. /\ tids' = [tids EXCEPT ![n] = IF t > @ THEN t ELSE @]
        /\ reused' = reused \/ (reused < MaxReuse /\ reused' = reused + 1)
    BY <1>3 DEF DrawTid
  <2>2. t \in 0 .. MaxTid /\ MaxReuse \in Nat
    BY KademliaAssumption DEF Tids
  <2> QED
    BY <1>1, <2>1, <2>2 DEF Counts
<1>4. ASSUME NEW c \in Calls, NEW t \in Tids, WriteQuery(c, t) \/ WriteFails(c, t) PROVE Counts'
  <2>1. DrawTid(calls[c].by, t) /\ UNCHANGED <<announced, expired>>
    BY <1>4 DEF WriteQuery, WriteFails
  <2>2. calls[c].by \in Nodes
    BY DEF StateInv, CallsKept, CallOK
  <2> QED
    BY <1>1, <1>3, <2>1, <2>2 DEF Counts
<1>5. ASSUME NEW c \in Calls, NEW t \in Tids, MakeAnnounce(c, t) PROVE Counts'
  <2>1. /\ DrawTid(calls[c].by, t) /\ expired' = expired /\ calls[c].pc = "message"
        /\ announced' = announced \cup {<<calls[c].target, calls[c].by>>}
    BY <1>5 DEF MakeAnnounce
  <2>2. calls[c].by \in Nodes /\ calls[c].target \in Keys
    BY <2>1 DEF StateInv, CallsKept, CallOK, Phase
  <2>3. <<calls[c].target, calls[c].by>> \in Pairs
    BY <2>2, KademliaAssumption DEF Pairs
  <2> QED
    BY <1>1, <1>3, <2>1, <2>2, <2>3 DEF Counts
<1>6. ASSUME NEW c \in Calls, CollectTimesOut(c) PROVE Counts'
  <2>1. UNCHANGED <<tids, announced, reused>> /\ expired' = expired \cup {<<c, calls[c].round>>}
    BY <1>6 DEF CollectTimesOut, rpc
  <2>2. calls[c].round \in Nat
    BY DEF StateInv, CallsKept, CallOK
  <2> QED
    BY <1>1, <2>1, <2>2 DEF Counts
<1>7. \/ UNCHANGED <<tids, announced, reused, expired>>
      \/ \E c \in Calls, t \in Tids : WriteQuery(c, t) \/ WriteFails(c, t)
      \/ \E c \in Calls, t \in Tids : MakeAnnounce(c, t)
      \/ \E c \in Calls : CollectTimesOut(c)
  BY NodesLeave, CallsLeave, WaitersLeave, Zenon DEF Next
<1> QED
  BY <1>2, <1>4, <1>5, <1>6, <1>7

\* Each step keeps the invariant of the state.
LEMMA StateSteps == StateInv /\ LookInv /\ [Next]_vars => StateInv'
BY TablesStep, StoresStep, NetStep, RoutinesStep, CallsStep, CountsStep DEF StateInv

\* A step of the fold over the nodes that were heard of, ...
HearStep(h, s, n) ==
  IF s = {} THEN EmptyTable
  ELSE LET m == CHOOSE m \in s : TRUE
       IN  updateBucketOfNode(h[s \ {m}], Id[n], [id |-> Id[m], at |-> m])

HearFold(h, S, n) == h = [s \in SUBSET S |-> HearStep(h, s, n)]

HeardOf(S, n) ==
  FoldSet(LAMBDA m, t : updateBucketOfNode(t, Id[n], [id |-> Id[m], at |-> m]), EmptyTable, S)

\* ... whose equation the fold of Init satisfies, if anything does, ...
LEMMA HearUnfolds ==
  ASSUME NEW S, NEW n, NEW g, HearFold(g, S, n)
  PROVE  \E h : HearFold(h, S, n) /\ HeardOf(S, n) = h[S]
<1> DEFINE h == CHOOSE h : h = [s \in SUBSET S |-> HearStep(h, s, n)]
<1>1. HeardOf(S, n) = h[S]
  BY DEF HeardOf, FoldSet, MapThenFoldSet, HearStep
<1>2. h = [s \in SUBSET S |-> HearStep(h, s, n)]
  BY Zenon DEF HearFold
<1>3. HearFold(h, S, n)
  BY <1>2, Zenon DEF HearFold
<1> QED
  BY <1>1, <1>3, Zenon

\* ... and the table it comes to.
LEMMA HeardTable ==
  ASSUME NEW n \in Nodes, NEW S \in SUBSET Nodes, IsFiniteSet(S)
  PROVE  InPlace(HeardOf(S, n), Id[n])
<1> DEFINE A == {t \in Tables : InPlace(t, Id[n])}
           ch == [s \in SUBSET S |-> CHOOSE m \in s : TRUE]
           Heard1(a, m) == updateBucketOfNode(a, Id[n], [id |-> Id[m], at |-> m])
           F == [m \in S |-> [a \in A |-> Heard1(a, m)]]
<1>0. \A s \in SUBSET S : s # {} => ch[s] \in s
  OBVIOUS
<1>1. EmptyTable \in A
  <2>1. EmptyTable \in Tables
    BY DEF EmptyTable, Tables
  <2>2. \A b \in Buckets : OneEach(EmptyTable[b], Id[n], b)
    BY DEF EmptyTable, OneEach, Unique
  <2> QED
    BY <2>1, <2>2 DEF InPlace
<1>2. ASSUME NEW m \in S, NEW a \in A PROVE Heard1(a, m) \in A
  <2> DEFINE e == [id |-> Id[m], at |-> m]
  <2>1. Id[n] \in Ids /\ e \in Entries
    BY KademliaAssumption DEF Entries, Nodes
  <2> HIDE DEF e
  <2>2. InPlace(updateBucketOfNode(a, Id[n], e), Id[n])
    BY <2>1, UpdateKeeps
  <2>3. updateBucketOfNode(a, Id[n], e) \in A
    BY <2>2 DEF InPlace
  <2> QED
    BY <2>3 DEF e
<1> HIDE DEF Heard1
<1>3. \A x \in S, a \in A : F[x][a] \in A
  BY <1>2
<1>4. PICK g \in [SUBSET S -> A] : Folds(g, S, EmptyTable, F, ch)
  <2> HIDE DEF A, ch, F
  <2> QED
    BY <1>0, <1>1, <1>3, FoldExists
<1>5. HearFold(g, S, n)
  <2>1. ASSUME NEW s \in SUBSET S PROVE g[s] = HearStep(g, s, n)
    <3>1. CASE s = {}
      BY <1>4, <3>1 DEF HearStep, Folds
    <3>2. CASE s # {}
      <4> DEFINE m == CHOOSE m \in s : TRUE
      <4>1. ch[s] = m /\ m \in S /\ g[s \ {m}] \in A
        BY <1>0, <1>4, <3>2
      <4>2. g[s] = F[m][g[s \ {m}]]
        BY <1>4, <3>2, <4>1 DEF Folds
      <4>3. F[m][g[s \ {m}]] = Heard1(g[s \ {m}], m)
        BY <4>1
      <4> QED
        BY <3>2, <4>2, <4>3 DEF HearStep, Heard1
    <3> QED
      BY <3>1, <3>2
  <2> QED
    BY <1>4, <2>1 DEF HearFold
<1>6. PICK h : HearFold(h, S, n) /\ HeardOf(S, n) = h[S]
  BY <1>5, HearUnfolds
<1>7. h[{}] \in A
  BY <1>1, <1>6 DEF HearFold, HearStep
<1>8. ASSUME NEW s \in SUBSET S, s # {}, h[s \ {ch[s]}] \in A PROVE h[s] \in A
  <2> DEFINE m == CHOOSE m \in s : TRUE
  <2>1. ch[s] = m /\ m \in S
    BY <1>0, <1>8
  <2>2. h[s] = Heard1(h[s \ {m}], m)
    BY <1>6, <1>8 DEF HearFold, HearStep, Heard1
  <2> HIDE DEF A, m, ch
  <2> QED
    BY <1>2, <1>8, <2>1, <2>2
<1>9. h[S] \in A
  <2> HIDE DEF A, ch
  <2> QED
    BY <1>0, <1>7, <1>8, FoldStays
<1> QED
  BY <1>6, <1>9

\* It holds before the first call.
LEMMA StateBegins == Init => StateInv
<1> SUFFICES ASSUME Init PROVE StateInv
  OBVIOUS
<1>i. /\ table = [n \in Nodes |-> HeardOf({m \in Nodes : <<m, n>> \in Contacts}, n)]
      /\ store = [n \in Nodes |-> ToldOf(Held[n])]
      /\ expected = [n \in Nodes |-> [t \in Tids |-> NoEntry]]
      /\ tids = [n \in Nodes |-> 0]
      /\ net = {} /\ calls = [c \in Calls |-> Idle]
      /\ waiters = {} /\ pend = {} /\ fwd = {}
      /\ announced = UNION {Held[n] : n \in Nodes} /\ reused = 0 /\ expired = {}
  BY Zenon DEF Init, HeardOf, ToldOf
<1>1. TablesKept
  <2>1. \A n \in Nodes : InPlace(HeardOf({m \in Nodes : <<m, n>> \in Contacts}, n), Id[n])
    BY KademliaAssumption, HeardTable
  <2> QED
    BY <1>i, <2>1 DEF TablesKept, InPlace
<1>2. StoresKept
  <2>1. ASSUME NEW n \in Nodes PROVE StoreKept(ToldOf(Held[n]))
    <3>1. Held[n] \in SUBSET Pairs /\ IsFiniteSet(Held[n]) /\ Held[n] \subseteq announced
      BY <1>i, KademliaAssumption
    <3>2. ToldOf(Held[n]) \in Fresh(Held[n])
      BY <3>1, ToldStore
    <3> QED
      BY <3>1, <3>2, FS_EmptySet DEF Fresh, StoreKept
  <2> QED
    BY <1>i, <2>1 DEF StoresKept, StoreKept
<1>3. NetKept
  BY <1>i DEF NetKept
<1>4. RoutinesKept
  <2>1. expected \in [Nodes -> [Tids -> Expectations]]
    BY <1>i, EntryTyped
  <2> QED
    BY <1>i, <2>1 DEF RoutinesKept
<1>5. CallsKept
  <2> DEFINE r == [use |-> "none", by |-> Bootstrap, target |-> {}]
             new == NewCall(r)
  <2>1. Plain(new)
    <3>1. r.by \in Nodes /\ r.target \in Ids /\ r.use = "none"
      BY KademliaAssumption DEF Ids
    <3> HIDE DEF r
    <3> QED
      BY <3>1, NewPlain
  <2>2. Idle = [new EXCEPT !.pc = "idle"]
    BY DEF Idle
  <2> HIDE DEF new
  <2>3. CallOK(Idle) /\ Phase(Idle)
    BY <2>1, <2>2, RestKept
  <2>4. Idle.pc = "idle"
    BY <2>1, <2>2 DEF Plain, CallFields
  <2> QED
    BY <1>i, <2>3, <2>4 DEF CallsKept, Announces
<1>6. Counts
  <2>1. UNION {Held[n] : n \in Nodes} \subseteq Pairs /\ MaxTid \in Nat /\ MaxReuse \in Nat
    BY KademliaAssumption
  <2> QED
    BY <1>i, <2>1 DEF Counts
<1> QED
  BY <1>1, <1>2, <1>3, <1>4, <1>5, <1>6 DEF StateInv

\* The invariants the theorems below rest on.
THEOREM StateInvariant == Spec => [](StateInv /\ LookInv)
<1>1. Init => StateInv /\ LookInv
  BY StateBegins, LookBegins
<1>2. StateInv /\ LookInv /\ [Next]_vars => (StateInv /\ LookInv)'
  BY StateSteps, LookSteps
<1> QED
  BY <1>1, <1>2, PTL DEF Spec

-------------------------------------------------------------------------------
(* The theorems. *)

\* However many nodes, calls and datagrams there are, tables hold each id once in
\* its bucket, and no call has more answers than it asked for.
THEOREM StateTypes == Spec => []TypeOK
<1>1. StateInv /\ LookInv => TypeOK
  <2> SUFFICES ASSUME StateInv, LookInv PROVE TypeOK
    OBVIOUS
  <2>1. /\ table \in [Nodes -> Tables]
        /\ \A n \in Nodes, b \in Buckets : OneEach(table[n][b], Id[n], b)
    <3>1. table \in [Nodes -> Tables] /\ \A n \in Nodes : InPlace(table[n], Id[n])
      BY DEF StateInv, TablesKept
    <3> QED
      BY <3>1 DEF InPlace
  <2>2. store \in [Nodes -> KStores]
    BY DEF StateInv, StoresKept, StoreKept
  <2>3. expected \in [Nodes -> [Tids -> {NoEntry} \cup [q : QueryNames, to : Nodes, chan : Chans]]]
    BY DEF StateInv, RoutinesKept, Expectations
  <2>4. /\ tids \in [Nodes -> 0 .. MaxTid]
        /\ announced \subseteq Pairs /\ reused \in 0 .. MaxReuse /\ expired \subseteq Calls \X Nat
    BY DEF StateInv, Counts
  <2>5. down \in [Nodes -> {"no", "left", "closed", "empty", "ping"}]
    BY DEF LookInv
  <2>6. \A m \in net : MessageOK(m)
    BY DEF StateInv, NetKept
  <2>7. ASSUME NEW c \in Calls PROVE CallOK(calls[c]) /\ Len(calls[c].results) <= Len(calls[c].asked)
    <3> DEFINE call == calls[c]
    <3>1. CallOK(call) /\ Shape(call) /\ Turn(c, call, Live, down[call.by], expired)
      BY DEF StateInv, CallsKept, LookInv
    <3> HIDE DEF call
    <3>2. Len(call.asked) \in Nat /\ Len(call.results) \in Nat
      BY <3>1, LenProperties DEF Shape
    <3>3. CASE call.pc # "collect"
      <4>1. call.results = <<>>
        BY <3>1, <3>3 DEF Turn
      <4>2. Len(call.results) = 0
        BY <4>1, EmptyShape
      <4> QED
        BY <3>1, <3>2, <4>2 DEF call
    <3>4. CASE call.pc = "collect"
      <4> DEFINE P == Places(Live, c, call.round)
      <4>1. P \subseteq 1 .. Len(call.asked) /\ Len(call.results) + Cardinality(P) <= Len(call.asked)
        BY <3>1, <3>4 DEF Turn
      <4> HIDE DEF P
      <4>2. Cardinality(P) \in Nat
        <5>1. IsFiniteSet(1 .. Len(call.asked))
          BY <3>2, FS_Interval
        <5> QED
          BY <4>1, <5>1, FS_Subset, FS_CardinalityType
      <4> QED
        BY <3>1, <3>2, <4>1, <4>2 DEF call
    <3> QED
      BY <3>1, <3>3, <3>4 DEF call
  <2>8. /\ \A w \in waiters : w.chan \in Chans /\ w.tid \in Tids /\ w.q \in {"ping", "lookup", "announce"}
        /\ \A p \in pend \cup fwd : p.chan \in Chans /\ (p.resp = Nil \/ MessageOK(p.resp))
    BY DEF StateInv, RoutinesKept, ReplyOK
  <2> QED
    BY <2>1, <2>2, <2>3, <2>4, <2>5, <2>6, <2>7, <2>8 DEF TypeOK
<1> QED
  BY <1>1, StateInvariant, PTL

\* Whatever is announced again while its time passes, a list of a store stays
\* sorted and holds no address without a time at which it goes.
THEOREM StoresAgree == Spec => []StoreAgrees
<1>1. StateInv => StoreAgrees
  BY DEF StateInv, StoresKept, StoreKept, StoreAgrees
<1> QED
  BY <1>1, StateInvariant, PTL

\* Whatever the answers hold, a node further on in the list never takes the place
\* of a nearer one: another round begins nearer to the target than the last.
THEOREM RoundsNearer == Spec => RoundsGetCloser
<1>1. StateInv /\ LookInv /\ [Next]_vars =>
        [\A c \in Calls : calls[c].round > 0 /\ calls'[c].round = calls[c].round + 1 =>
           Nearer(calls'[c].closest.id, calls[c].closest.id, calls[c].target)]_vars
  <2> SUFFICES ASSUME StateInv, LookInv, [Next]_vars, NEW c \in Calls,
                      calls[c].round > 0, calls'[c].round = calls[c].round + 1
               PROVE  Nearer(calls'[c].closest.id, calls[c].closest.id, calls[c].target)
    OBVIOUS
  <2> DEFINE old == calls[c]
             Closer(new) == Nearer(new.closest.id, old.closest.id, old.target)
  <2>1. DOMAIN calls = Calls /\ old.round \in Nat /\ old.pc \notin {"idle", "ping", "pinged", "pong"}
    BY CallKnown DEF CallOK, Phase
  <2>2. ASSUME NEW d \in Calls, NEW new, calls' = [calls EXCEPT ![d] = new]
        PROVE  d = c /\ calls'[c] = new /\ new.round # old.round
    BY <2>1, <2>2
  <2>3. ~UNCHANGED calls
    BY <2>1
  <2> HIDE DEF old
  <2>4. ASSUME NEW d \in Calls, NEW new, calls' = [calls EXCEPT ![d] = new],
               \/ d = c => new.round = old.round
               \/ d = c => old.pc \in {"idle", "ping", "pinged", "pong"}
               \/ d = c => Closer(new)
        PROVE  Closer(calls'[c])
    BY <2>1, <2>2, <2>4
  <2> HIDE DEF Closer
  <2>5. ASSUME NEW d \in Calls, NEW r \in Requests[d], Call(d, r) PROVE Closer(calls'[c])
    <3>1. calls[d].pc = "idle"
      BY <2>5 DEF Call
    <3>2. \E new : calls' = [calls EXCEPT ![d] = new]
      BY <2>5, CallKept
    <3> QED
      BY <2>4, <3>1, <3>2 DEF old
  <2>6. ASSUME NEW d \in Calls, NEW r \in Refreshed, RefreshBucket(d, r[1], r[2])
        PROVE  Closer(calls'[c])
    <3>1. calls[d].pc = "idle" /\ \E new : calls' = [calls EXCEPT ![d] = new]
      BY <2>6 DEF RefreshBucket
    <3> QED
      BY <2>4, <3>1 DEF old
  <2>7. ASSUME NEW d \in Calls, NEW new, calls' = [calls EXCEPT ![d] = new], Onwards(new, calls[d])
        PROVE  Closer(calls'[c])
    BY <2>4, <2>7 DEF Onwards, old
  <2>8. ASSUME NEW d \in Calls, NEW new, calls' = [calls EXCEPT ![d] = new],
               NEW R, RoundOver(new, calls[d], R) \/ new.round = calls[d].round
        PROVE  Closer(calls'[c])
    BY <2>4, <2>8 DEF RoundOver, old, Closer
  <2>9. ASSUME NEW d \in Calls, NEW t \in Tids, WriteQuery(d, t) PROVE Closer(calls'[c])
    BY <2>7, <2>9, WriteKept
  <2>10. ASSUME NEW d \in Calls, Register(d) PROVE Closer(calls'[c])
    BY <2>7, <2>10, RegisterKept
  <2>11. ASSUME NEW d \in Calls, NEW t \in Tids, MakeAnnounce(d, t) PROVE Closer(calls'[c])
    BY <2>7, <2>11, MakeKept
  <2>12. ASSUME NEW d \in Calls, AnnounceStep(d) PROVE Closer(calls'[c])
    BY <2>7, <2>12, SendKept
  <2>13. ASSUME NEW d \in Calls, NEW f \in fwd, Collect(d, f) PROVE Closer(calls'[c])
    <3> DEFINE R == Range(calls[d].results) \cup {f.resp}
    <3>1. PICK new : /\ calls' = [calls EXCEPT ![d] = new]
                     /\ RoundOver(new, calls[d], R) \/ new.round = calls[d].round
      BY <2>13, CollectKept
    <3> HIDE DEF R
    <3> QED
      BY <2>8, <3>1
  <2>14. ASSUME NEW d \in Calls, CollectTimesOut(d) PROVE Closer(calls'[c])
    BY <2>8, <2>14, TimeOutKept
  <2>15. ASSUME NEW w \in waiters, w.q = "ping",
                (\E p \in pend : WaiterReceives(w, p)) \/ WaiterTimesOut(w)
         PROVE  Closer(calls'[c])
    <3>1. calls[w.chan[1]].pc = "pong"
      BY <2>15 DEF LookInv, Waiting
    <3>2. w.chan[1] \in Calls /\ \E new : calls' = [calls EXCEPT ![w.chan[1]] = new]
      BY <2>15, PingKept
    <3> QED
      BY <2>4, <3>1, <3>2 DEF old
  <2>16. ASSUME NEW d \in Calls, NEW t \in Tids, WriteFails(d, t) PROVE Closer(calls'[c])
    BY <2>3, <2>7, <2>16, FailKept
  <2>17. Closer(calls'[c])
    BY <2>3, <2>5, <2>6, <2>9, <2>10, <2>11, <2>12, <2>13, <2>14, <2>15, <2>16, CallsMove
  <2> QED
    BY <2>17 DEF Closer, old
<1> QED
  BY <1>1, StateInvariant, PTL DEF Spec, RoundsGetCloser

-------------------------------------------------------------------------------
(* What is told: transaction ids. *)

\* A transaction id that was never drawn is larger than all that were.
LEMMA DrawnOnce ==
  ASSUME StateInv, NEW n \in Nodes, NEW t \in Tids, DrawTid(n, t), reused' = 0
  PROVE  reused = 0 /\ t = tids[n] + 1 /\ tids[n] \in Nat /\ tids' = [tids EXCEPT ![n] = t]
<1>1. tids \in [Nodes -> 0 .. MaxTid] /\ reused \in 0 .. MaxReuse /\ MaxTid \in Nat /\ MaxReuse \in Nat
  BY KademliaAssumption DEF StateInv, Counts
<1>2. t = tids[n] + 1 /\ reused = 0
  BY <1>1 DEF DrawTid
<1>3. tids' = [tids EXCEPT ![n] = IF t > @ THEN t ELSE @]
  BY DEF DrawTid
<1>4. t > tids[n] /\ tids[n] \in Nat
  BY <1>1, <1>2
<1>5. tids' = [tids EXCEPT ![n] = t]
  BY <1>3, <1>4
<1> QED
  BY <1>2, <1>4, <1>5

\* Ids are drawn in order, and a draw of one that was drawn is counted.
LEMMA TidsGrow ==
  ASSUME StateInv, [Next]_vars
  PROVE  /\ \A n \in Nodes : tids[n] \in Nat /\ tids'[n] \in Nat /\ tids[n] <= tids'[n]
         /\ reused' = 0 => reused = 0
<1>1. tids \in [Nodes -> 0 .. MaxTid] /\ reused \in 0 .. MaxReuse /\ MaxTid \in Nat /\ MaxReuse \in Nat
  BY KademliaAssumption DEF StateInv, Counts
<1> DEFINE Ok == /\ \A n \in Nodes : tids[n] \in Nat /\ tids'[n] \in Nat /\ tids[n] <= tids'[n]
                 /\ reused' = 0 => reused = 0
<1>2. ASSUME NEW n \in Nodes, NEW t \in Tids, DrawTid(n, t) PROVE Ok
  <2>1. /\ tids' = [tids EXCEPT ![n] = IF t > @ THEN t ELSE @]
        /\ reused' = reused \/ reused' = reused + 1
    BY <1>2 DEF DrawTid
  <2>2. t \in Nat
    BY <1>1 DEF Tids
  <2> QED
    BY <1>1, <2>1, <2>2
<1>3. \/ UNCHANGED <<tids, reused>>
      \/ \E c \in Calls, t \in Tids : DrawTid(calls[c].by, t)
  <2>1. \A c \in Calls, t \in Tids :
          WriteQuery(c, t) \/ WriteFails(c, t) \/ MakeAnnounce(c, t) => DrawTid(calls[c].by, t)
    BY DEF WriteQuery, WriteFails, MakeAnnounce
  <2> QED
    BY <2>1, NodesLeave, CallsLeave, WaitersLeave, Zenon DEF Next
<1>4. \A c \in Calls : calls[c].by \in Nodes
  BY DEF StateInv, CallsKept, CallOK
<1>5. CASE UNCHANGED <<tids, reused>>
  BY <1>1, <1>5
<1> QED
  BY <1>2, <1>3, <1>4, <1>5

\* What a node that wrote a query did: the id it drew is larger.
LEMMA QueryDrawn ==
  ASSUME StateInv, NEW c \in Calls, NEW t \in Tids,
         WriteQuery(c, t) \/ MakeAnnounce(c, t), reused' = 0
  PROVE  /\ calls[c].by \in Nodes /\ t = tids[calls[c].by] + 1 /\ tids[calls[c].by] \in Nat
         /\ tids' = [tids EXCEPT ![calls[c].by] = t] /\ tids'[calls[c].by] = t
<1>1. calls[c].by \in Nodes
  BY DEF StateInv, CallsKept, CallOK
<1>2. DrawTid(calls[c].by, t)
  BY DEF WriteQuery, MakeAnnounce
<1>3. tids \in [Nodes -> 0 .. MaxTid]
  BY DEF StateInv, Counts
<1> QED
  BY <1>1, <1>2, <1>3, DrawnOnce

\* A call that was made keeps its node and what it asks for.
LEMMA CallLasts ==
  ASSUME StateInv, LookInv, [Next]_vars, NEW d \in Calls, calls[d].pc # "idle"
  PROVE  calls'[d].pc # "idle" /\ Same(calls'[d], calls[d])
<1> DEFINE Ok == calls'[d].pc # "idle" /\ Same(calls'[d], calls[d])
<1>1. ASSUME calls'[d] = calls[d] PROVE Ok
  BY <1>1 DEF Same
<1>2. ASSUME NEW c \in Calls, NEW new, calls' = [calls EXCEPT ![c] = new],
             c = d => new.pc # "idle" /\ Same(new, calls[c])
      PROVE  Ok
  <2>1. DOMAIN calls = Calls
    BY CallKnown
  <2>2. CASE c = d
    BY <1>2, <2>1, <2>2
  <2>3. CASE c # d
    BY <1>1, <1>2, <2>1, <2>3
  <2> QED
    BY <2>2, <2>3
<1> HIDE DEF Ok
<1>3. ASSUME NEW c \in Calls, NEW r \in Requests[c], Call(c, r) PROVE Ok
  <2>1. calls[c].pc = "idle" /\ \E new : calls' = [calls EXCEPT ![c] = new]
    BY <1>3 DEF Call
  <2> QED
    BY <1>2, <2>1
<1>4. ASSUME NEW c \in Calls, NEW r \in Refreshed, RefreshBucket(c, r[1], r[2]) PROVE Ok
  <2>1. calls[c].pc = "idle" /\ \E new : calls' = [calls EXCEPT ![c] = new]
    BY <1>4 DEF RefreshBucket
  <2> QED
    BY <1>2, <2>1
<1>5. ASSUME NEW c \in Calls, NEW new, calls' = [calls EXCEPT ![c] = new], Onwards(new, calls[c]),
             new.pc # "idle"
      PROVE  Ok
  BY <1>2, <1>5 DEF Onwards
<1>6. ASSUME NEW c \in Calls, NEW t \in Tids, WriteQuery(c, t) PROVE Ok
  <2>1. \E new : calls' = [calls EXCEPT ![c] = new] /\ Onwards(new, calls[c]) /\ new.pc # "idle"
    BY <1>6, WriteKept
  <2> QED
    BY <1>5, <2>1
<1>7. ASSUME NEW c \in Calls, Register(c) PROVE Ok
  <2>1. \E new : calls' = [calls EXCEPT ![c] = new] /\ Onwards(new, calls[c]) /\ new.pc # "idle"
    BY <1>7, RegisterKept
  <2> QED
    BY <1>5, <2>1
<1>8. ASSUME NEW c \in Calls, NEW t \in Tids, MakeAnnounce(c, t) PROVE Ok
  <2>1. \E new : calls' = [calls EXCEPT ![c] = new] /\ Onwards(new, calls[c]) /\ new.pc # "idle"
    BY <1>8, MakeKept
  <2> QED
    BY <1>5, <2>1
<1>9. ASSUME NEW c \in Calls, AnnounceStep(c) PROVE Ok
  <2>1. \E new : calls' = [calls EXCEPT ![c] = new] /\ Onwards(new, calls[c]) /\ new.pc # "idle"
    BY <1>9, SendKept
  <2> QED
    BY <1>5, <2>1
<1>10. ASSUME NEW c \in Calls, NEW f \in fwd, Collect(c, f) PROVE Ok
  <2>1. \E new : calls' = [calls EXCEPT ![c] = new] /\ Same(new, calls[c]) /\ new.pc # "idle"
    BY <1>10, CollectKept DEF RoundOver
  <2> QED
    BY <1>2, <2>1
<1>11. ASSUME NEW c \in Calls, CollectTimesOut(c) PROVE Ok
  <2>1. \E new : calls' = [calls EXCEPT ![c] = new] /\ Same(new, calls[c]) /\ new.pc # "idle"
    BY <1>11, TimeOutKept DEF RoundOver
  <2> QED
    BY <1>2, <2>1
<1>12. ASSUME NEW w \in waiters, w.q = "ping",
              (\E p \in pend : WaiterReceives(w, p)) \/ WaiterTimesOut(w)
       PROVE  Ok
  <2>1. w.chan[1] \in Calls /\ \E new : /\ calls' = [calls EXCEPT ![w.chan[1]] = new]
                                        /\ Same(new, calls[w.chan[1]]) /\ new.pc # "idle"
    BY <1>12, PingKept
  <2> QED
    BY <1>2, <2>1
<1>13. UNCHANGED calls => Ok
  BY <1>1
<1>14. ASSUME NEW c \in Calls, NEW t \in Tids, WriteFails(c, t), ~UNCHANGED calls PROVE Ok
  <2>1. \E new : calls' = [calls EXCEPT ![c] = new] /\ Onwards(new, calls[c]) /\ new.pc # "idle"
    BY <1>14, FailKept
  <2> QED
    BY <1>5, <2>1
<1>15. Ok
  BY <1>3, <1>4, <1>6, <1>7, <1>8, <1>9, <1>10, <1>11, <1>12, <1>13, <1>14, CallsMove
<1> QED
  BY <1>15 DEF Ok

\* The answers to a query are about what it asks for.
LEMMA RightKept ==
  ASSUME StateInv, Told, [Next]_vars, reused' = 0,
         NEW n \in Nodes, NEW t \in Nat, t <= tids[n], NEW key, Right(n, t, key)
  PROVE  \A m \in net' :
           /\ m.y = "q" /\ m.q = "get_peers" /\ m.from = n /\ m.tid = t => m.target = key
           /\ m.y = "r" /\ m.what = "values" /\ m.to = n /\ m.tid = t =>
                \A i \in DOMAIN m.list : <<key, m.list[i]>> \in announced'
<1>0. announced \subseteq announced'
  BY AnnouncedGrows
<1> DEFINE Fine(m) ==
             /\ m.y = "q" /\ m.q = "get_peers" /\ m.from = n /\ m.tid = t => m.target = key
             /\ m.y = "r" /\ m.what = "values" /\ m.to = n /\ m.tid = t =>
                  \A i \in DOMAIN m.list : <<key, m.list[i]>> \in announced'
<1>1. \A m \in net : Fine(m)
  BY <1>0 DEF Right, For
<1>2. ASSUME NEW a \in Nodes, NEW m \in net, HandleQuery(a, m) PROVE \A x \in net' : Fine(x)
  <2> DEFINE r == Reply(a, m)
  <2>1. net' = (net \ {m}) \cup {r} /\ m.y = "q" /\ m.to = a
    BY <1>2 DEF HandleQuery
  <2>2. /\ r.y = "r" /\ r.to = m.from /\ r.tid = m.tid
        /\ r.what = "values" => m.q = "get_peers" /\ For(m.target, r.list)
    BY <2>1, ReplyTyped
  <2> HIDE DEF r
  <2>3. Fine(r)
    BY <1>0, <1>1, <2>1, <2>2 DEF For
  <2> HIDE DEF Fine
  <2> QED
    BY <1>1, <2>1, <2>3
<1>3. ASSUME NEW c \in Calls, NEW u \in Tids, WriteQuery(c, u) PROVE \A x \in net' : Fine(x)
  <2>1. PICK m : net' = net \cup {m} /\ m.y = "q" /\ m.from = calls[c].by /\ m.tid = u
    BY <1>3, Written
  <2>2. u = tids[calls[c].by] + 1 /\ tids[calls[c].by] \in Nat
    BY <1>3, QueryDrawn
  <2>3. Fine(m)
    BY <2>1, <2>2
  <2> HIDE DEF Fine
  <2> QED
    BY <1>1, <2>1, <2>3
<1>4. ASSUME NEW c \in Calls, NEW i \in calls[c].todo, WriteAnnounce(c, i) PROVE \A x \in net' : Fine(x)
  <2>1. PICK m : net' = net \cup {m} /\ m.y = "q" /\ m.q = "announce_peer"
    BY <1>4, Sent
  <2>2. Fine(m)
    BY <2>1
  <2> HIDE DEF Fine
  <2> QED
    BY <1>1, <2>1, <2>2
<1>5. ASSUME NEW a \in Nodes, NEW m \in net, HandleResponse(a, m) PROVE \A x \in net' : Fine(x)
  <2>1. net' \subseteq net
    BY <1>5 DEF HandleResponse
  <2> HIDE DEF Fine
  <2> QED
    BY <1>1, <2>1
<1> HIDE DEF Fine
<1>6. \A m \in net' : Fine(m)
  BY <1>1, <1>2, <1>3, <1>4, <1>5, NetMoves
<1> QED
  BY <1>6 DEF Fine

-------------------------------------------------------------------------------
(* What is told: step by step. *)

\* A datagram has an id that was drawn.
LEMMA DrawnStep ==
  ASSUME StateInv, Told, [Next]_vars, reused' = 0
  PROVE  (\A m \in net : Drawn(m))'
<1>1. \A n \in Nodes : tids[n] \in Nat /\ tids'[n] \in Nat /\ tids[n] <= tids'[n]
  BY TidsGrow
<1> DEFINE Fine(m) == m.tid <= tids'[IF m.y = "q" THEN m.from ELSE m.to]
<1>2. ASSUME NEW m \in net PROVE Fine(m)
  <2> DEFINE n == IF m.y = "q" THEN m.from ELSE m.to
  <2>1. n \in Nodes /\ m.tid \in Nat
    BY DEF StateInv, NetKept, MessageOK, Tids
  <2>2. m.tid <= tids[n]
    BY DEF Told, Drawn
  <2> HIDE DEF n
  <2>3. m.tid <= tids'[n]
    BY <1>1, <2>1, <2>2
  <2> QED
    BY <2>3 DEF n
<1>3. ASSUME NEW a \in Nodes, NEW m \in net, HandleQuery(a, m) PROVE \A x \in net' : Fine(x)
  <2> DEFINE r == Reply(a, m)
  <2>1. net' = (net \ {m}) \cup {r} /\ m.y = "q" /\ m.to = a
    BY <1>3 DEF HandleQuery
  <2>2. r.y = "r" /\ r.to = m.from /\ r.tid = m.tid
    BY <2>1, ReplyTyped
  <2> HIDE DEF r
  <2>3. Fine(m) /\ Fine(r)
    BY <1>2, <2>1, <2>2
  <2> HIDE DEF Fine
  <2> QED
    BY <1>2, <2>1, <2>3
<1>4. ASSUME NEW c \in Calls, NEW t \in Tids, WriteQuery(c, t) PROVE \A x \in net' : Fine(x)
  <2>1. PICK m : net' = net \cup {m} /\ m.y = "q" /\ m.from = calls[c].by /\ m.tid = t
    BY <1>4, Written
  <2>2. tids'[calls[c].by] = t /\ t \in Nat
    BY <1>4, QueryDrawn DEF Tids
  <2>3. Fine(m)
    BY <2>1, <2>2
  <2> HIDE DEF Fine
  <2> QED
    BY <1>2, <2>1, <2>3
<1>5. ASSUME NEW c \in Calls, NEW i \in calls[c].todo, WriteAnnounce(c, i)
      PROVE  \A x \in net' : Fine(x)
  <2>1. PICK m : /\ net' = net \cup {m} /\ m.y = "q" /\ m.from = calls[c].by
                 /\ m.tid = calls[c].tid /\ calls[c].pc = "announce"
                 /\ calls[c].by \in Nodes /\ calls[c].tid \in Nat
    BY <1>5, Sent DEF Tids
  <2>2. calls[c].tid <= tids[calls[c].by]
    BY <2>1 DEF Told, CallTold
  <2>3. Fine(m)
    BY <1>1, <2>1, <2>2
  <2> HIDE DEF Fine
  <2> QED
    BY <1>2, <2>1, <2>3
<1>6. ASSUME NEW a \in Nodes, NEW m \in net, HandleResponse(a, m) PROVE \A x \in net' : Fine(x)
  <2>1. net' \subseteq net
    BY <1>6 DEF HandleResponse
  <2> HIDE DEF Fine
  <2> QED
    BY <1>2, <2>1
<1> HIDE DEF Fine
<1>7. \A m \in net' : Fine(m)
  BY <1>2, <1>3, <1>4, <1>5, <1>6, NetMoves
<1> QED
  BY <1>7 DEF Fine, Drawn

\* What is expected of an id: a query that was sent, and a call that was made.
EntryFine(e, n, t) ==
  e # NoEntry =>
    /\ t <= tids[n]
    /\ calls[e.chan[1]].pc # "idle"
    /\ e.q = "ping" => e.chan[2] = 0
    /\ e.q = "get_peers" => Right(n, t, calls[e.chan[1]].target)

\* An entry that is fine before a step is fine after it.
LEMMA EntryLasts ==
  ASSUME StateInv, LookInv, Told, [Next]_vars, reused' = 0,
         NEW n \in Nodes, NEW t \in Tids, NEW e \in Expectations, EntryFine(e, n, t),
         expected'[n][t] = e
  PROVE  EntryTold(n, t)'
<1> SUFFICES ASSUME e # NoEntry
             PROVE  /\ t <= tids'[n]
                    /\ calls'[e.chan[1]].pc # "idle"
                    /\ e.q = "ping" => e.chan[2] = 0
                    /\ e.q = "get_peers" => Right(n, t, calls[e.chan[1]].target)'
  BY DEF EntryTold
<1> DEFINE d == e.chan[1]
<1>1. d \in Calls /\ t \in Nat
  BY EntryTyped DEF Chans, Tids
<1>2. /\ t <= tids[n] /\ calls[d].pc # "idle"
      /\ e.q = "ping" => e.chan[2] = 0
      /\ e.q = "get_peers" => Right(n, t, calls[d].target)
  BY DEF EntryFine
<1> HIDE DEF d
<1>3. tids[n] \in Nat /\ tids'[n] \in Nat /\ tids[n] <= tids'[n]
  BY TidsGrow
<1>4. calls'[d].pc # "idle" /\ calls'[d].target = calls[d].target
  BY <1>1, <1>2, CallLasts DEF Same
<1>5. ASSUME e.q = "get_peers" PROVE Right(n, t, calls[d].target)'
  <2>1. PICK key : key = calls[d].target
    OBVIOUS
  <2>2. \A m \in net' :
           /\ m.y = "q" /\ m.q = "get_peers" /\ m.from = n /\ m.tid = t => m.target = key
           /\ m.y = "r" /\ m.what = "values" /\ m.to = n /\ m.tid = t =>
                \A i \in DOMAIN m.list : <<key, m.list[i]>> \in announced'
    <3>1. Right(n, t, key)
      BY <1>2, <1>5, <2>1
    <3> QED
      BY <1>1, <1>2, <3>1, RightKept
  <2>3. calls'[d].target = key
    BY <1>4, <2>1
  <2> QED
    BY <2>2, <2>3 DEF Right, For
<1>6. t <= tids'[n]
  BY <1>1, <1>2, <1>3
<1> QED
  BY <1>2, <1>4, <1>5, <1>6 DEF d

\* What is expected stays about what the call asks for, and what is new is.
LEMMA EntryStep ==
  ASSUME StateInv, LookInv, Told, [Next]_vars, reused' = 0
  PROVE  (\A n \in Nodes, t \in Tids : EntryTold(n, t))'
<1>1. RoutinesKept /\ expected \in [Nodes -> [Tids -> Expectations]]
  BY DEF StateInv, RoutinesKept
<1>2. \A n \in Nodes, t \in Tids : expected[n][t] \in Expectations /\ EntryFine(expected[n][t], n, t)
  BY <1>1 DEF Told, EntryTold, EntryFine
<1>3. \A n \in Nodes, t \in Tids : NoEntry \in Expectations /\ EntryFine(NoEntry, n, t)
  BY EntryTyped DEF EntryFine
<1>4. ASSUME NEW a \in Nodes, NEW u \in Tids, NEW e \in Expectations, EntryFine(e, a, u),
             expected' = [expected EXCEPT ![a][u] = e] \/ expected' = expected
      PROVE  (\A n \in Nodes, t \in Tids : EntryTold(n, t))'
  <2> SUFFICES ASSUME NEW n \in Nodes, NEW t \in Tids PROVE EntryTold(n, t)'
    OBVIOUS
  <2>1. expected'[n][t] = expected[n][t] \/ (n = a /\ t = u /\ expected'[n][t] = e)
    BY <1>1, <1>4
  <2>2. PICK f \in Expectations : expected'[n][t] = f /\ EntryFine(f, n, t)
    BY <1>2, <1>4, <2>1
  <2> QED
    BY <2>2, EntryLasts
<1>5. ASSUME NEW a \in Nodes, NEW m \in net, HandleResponse(a, m)
      PROVE  (\A n \in Nodes, t \in Tids : EntryTold(n, t))'
  <2>1. expected' = [expected EXCEPT ![a][m.tid] = NoEntry] \/ expected' = expected
    BY <1>5 DEF HandleResponse
  <2>2. m.tid \in Tids
    BY DEF StateInv, NetKept, MessageOK
  <2> QED
    BY <1>3, <1>4, <2>1, <2>2
<1>6. ASSUME NEW c \in Calls, Register(c) PROVE (\A n \in Nodes, t \in Tids : EntryTold(n, t))'
  <2> DEFINE call == calls[c]
             i == Len(call.asked)
             t == call.asked[i]
             chan == Chan(c, call.round, i)
  <2>1. /\ call.by \in Nodes /\ t \in Tids /\ chan \in Chans
        /\ call.pc = "register" => call.nl[i].at \in Nodes /\ call.round > 0
        /\ call.pc \in {"register", "pinged"} /\ (call.pc = "pinged" => call.round = 0)
    <3>1. i \in 1 .. i
      BY <1>6, Registered
    <3> QED
      BY <1>6, <3>1, Registered
  <2>2. CallTold(call) /\ t <= tids[call.by]
    BY <2>1 DEF Told, CallTold
  <2>3. \/ /\ call.pc = "register"
           /\ expected' = [expected EXCEPT ![call.by][t] =
                Awaited(QueryName(call), call.nl[i].at, chan)]
        \/ /\ call.pc = "pinged"
           /\ expected' = [expected EXCEPT ![call.by][t] = Awaited("ping", Bootstrap, chan)]
    BY <1>6 DEF Register
  <2>4. chan[1] = c /\ chan[2] = call.round
    BY DEF Chan
  <2>5. call.use = "download" /\ call.pc = "register" => Right(call.by, t, call.target)
    BY <2>2 DEF CallTold
  <2> HIDE DEF i, t, chan
  <2>6. QueryName(call) \in QueryNames /\ "ping" \in QueryNames /\ Bootstrap \in Nodes
        /\ QueryName(call) # "ping" /\ (QueryName(call) = "get_peers" => call.use = "download")
    BY KademliaAssumption DEF QueryName, QueryNames
  <2>7. calls[chan[1]].pc # "idle" /\ calls[chan[1]].target = call.target
    BY <2>1, <2>4
  <2>8. CASE /\ call.pc = "register"
             /\ expected' = [expected EXCEPT ![call.by][t] =
                  Awaited(QueryName(call), call.nl[i].at, chan)]
    <3> DEFINE e == Awaited(QueryName(call), call.nl[i].at, chan)
    <3>1. e \in Expectations /\ e.q = QueryName(call) /\ e.chan = chan
      BY <2>1, <2>6, <2>8, EntryTyped
    <3> HIDE DEF e, call
    <3>2. EntryFine(e, call.by, t)
      BY <2>2, <2>5, <2>6, <2>7, <2>8, <3>1 DEF EntryFine
    <3> QED
      BY <1>4, <2>1, <2>8, <3>1, <3>2 DEF e
  <2>9. CASE /\ call.pc = "pinged"
             /\ expected' = [expected EXCEPT ![call.by][t] = Awaited("ping", Bootstrap, chan)]
    <3> DEFINE e == Awaited("ping", Bootstrap, chan)
    <3>1. e \in Expectations /\ e.q = "ping" /\ e.chan = chan
      BY <2>1, <2>6, EntryTyped
    <3> HIDE DEF e, call
    <3>2. EntryFine(e, call.by, t)
      BY <2>1, <2>2, <2>4, <2>7, <2>9, <3>1 DEF EntryFine
    <3> QED
      BY <1>4, <2>1, <2>9, <3>1, <3>2 DEF e
  <2> QED
    BY <2>3, <2>8, <2>9
<1>7. ASSUME NEW c \in Calls, NEW i \in calls[c].sent, RegisterAnnounce(c, i)
      PROVE  (\A n \in Nodes, t \in Tids : EntryTold(n, t))'
  <2> DEFINE call == calls[c]
             chan == Chan(c, call.round + 1, i)
             e == Awaited("announce_peer", call.nl[i].at, chan)
  <2>1. expected' = [expected EXCEPT ![call.by][call.tid] = e]
    BY <1>7 DEF RegisterAnnounce
  <2>2. /\ call.tid \in Tids /\ call.nl[i].at \in Nodes /\ call.by \in Nodes /\ chan \in Chans
        /\ "announce_peer" \in QueryNames /\ call.pc = "announce" /\ chan[1] = c
    BY AnnounceKnown DEF QueryNames, Chan
  <2>3. call.tid <= tids[call.by]
    BY <2>2 DEF Told, CallTold
  <2> HIDE DEF chan
  <2>4. e \in Expectations /\ e.q = "announce_peer" /\ e.chan = chan
    BY <2>2, EntryTyped
  <2>5. calls[chan[1]].pc # "idle"
    BY <2>2
  <2> HIDE DEF e, call
  <2>6. EntryFine(e, call.by, call.tid)
    BY <2>3, <2>4, <2>5 DEF EntryFine
  <2> QED
    BY <1>4, <2>1, <2>2, <2>4, <2>6
<1>8. \A w \in waiters : Caller(w.chan) \in Nodes /\ w.tid \in Tids
  <2>1. \A c \in Calls : calls[c].by \in Nodes
    BY DEF StateInv, CallsKept, CallOK
  <2> QED
    BY <1>1, <2>1 DEF RoutinesKept, Chans, Caller
<1>9. ASSUME NEW w \in waiters, (\E p \in pend : WaiterReceives(w, p)) \/ WaiterTimesOut(w)
      PROVE  (\A n \in Nodes, t \in Tids : EntryTold(n, t))'
  <2>1. expected' = expected \/ expected' = [expected EXCEPT ![Caller(w.chan)][w.tid] = NoEntry]
    BY <1>9 DEF WaiterReceives, WaiterTimesOut, Forgotten
  <2> QED
    BY <1>3, <1>4, <1>8, <2>1
<1>10. ASSUME NEW a \in Nodes, NEW u \in Tids, Sweep(a, u)
       PROVE  (\A n \in Nodes, t \in Tids : EntryTold(n, t))'
  <2>1. expected' = [expected EXCEPT ![a][u] = NoEntry]
    BY <1>10 DEF Sweep, Forgotten
  <2> QED
    BY <1>3, <1>4, <2>1
<1>11. CASE expected' = expected
  <2>1. Bootstrap \in Nodes /\ 1 \in Tids
    BY KademliaAssumption DEF Tids
  <2> QED
    BY <1>3, <1>4, <1>11, <2>1
<1>12. ASSUME NEW c \in Calls, NEW f \in fwd, Collect(c, f) PROVE expected' = expected
  BY <1>12, CallsLeave
<1> QED
  BY <1>5, <1>6, <1>7, <1>9, <1>10, <1>11, <1>12, RoutinesMove

\* An answer that is passed on is about what the call asks for.
LEMMA SenderLasts ==
  ASSUME StateInv, LookInv, [Next]_vars, NEW p, p.chan \in Chans, SenderTold(p)
  PROVE  SenderTold(p)'
<1> DEFINE d == p.chan[1]
<1>1. d \in Calls
  BY DEF Chans
<1>2. /\ calls[d].pc # "idle"
      /\ p.chan[2] # 0 /\ p.resp # Nil /\ p.resp.what = "values" =>
           For(calls[d].target, p.resp.list)
  BY DEF SenderTold
<1> HIDE DEF d
<1>3. calls'[d].pc # "idle" /\ calls'[d].target = calls[d].target
  BY <1>1, <1>2, CallLasts DEF Same
<1>4. announced \subseteq announced'
  BY AnnouncedGrows
<1>5. ASSUME p.chan[2] # 0, p.resp # Nil, p.resp.what = "values"
      PROVE  \A i \in DOMAIN p.resp.list : <<calls'[d].target, p.resp.list[i]>> \in announced'
  BY <1>2, <1>3, <1>4, <1>5 DEF For
<1> QED
  BY <1>3, <1>5 DEF SenderTold, For, d

\* ... and so is the one that getResponse sends.
LEMMA SenderBegins ==
  ASSUME StateInv, Told, NEW n \in Nodes, NEW m \in net, HandleResponse(n, m)
  PROVE  /\ fwd' = fwd
         /\ \/ pend' = pend
            \/ \E p : pend' = pend \cup {p} /\ p.chan \in Chans /\ SenderTold(p)
<1> DEFINE e == expected[n][m.tid]
           good == e # NoEntry /\ ~(e # NoEntry /\ ~(m.from = e.to /\ Fits(e, m))) /\ e.q # "announce_peer"
           p == [chan |-> e.chan, resp |-> IF good THEN m ELSE Nil]
<1>1. /\ pend' = pend \/ (e # NoEntry /\ pend' = pend \cup {p})
      /\ fwd' = fwd /\ m.y = "r" /\ m.to = n
  BY DEF HandleResponse
<1>2. m.tid \in Tids /\ e \in Expectations
  BY DEF StateInv, NetKept, MessageOK, RoutinesKept
<1>3. EntryTold(n, m.tid)
  BY <1>2 DEF Told
<1>4. ASSUME e # NoEntry PROVE p.chan \in Chans /\ SenderTold(p)
  <2>1. e.chan \in Chans /\ e.q \in QueryNames
    BY <1>2, <1>4, EntryTyped
  <2>2. /\ calls[e.chan[1]].pc # "idle"
        /\ e.q = "ping" => e.chan[2] = 0
        /\ e.q = "get_peers" => Right(n, m.tid, calls[e.chan[1]].target)
    BY <1>3, <1>4 DEF EntryTold
  <2>3. p.chan = e.chan /\ p.resp = IF good THEN m ELSE Nil
    OBVIOUS
  <2>4. good => e.q # "announce_peer" /\ Fits(e, m)
    OBVIOUS
  <2> HIDE DEF p, good, e
  <2>5. ASSUME p.chan[2] # 0, p.resp # Nil, p.resp.what = "values"
        PROVE  For(calls[e.chan[1]].target, p.resp.list)
    <3>1. p.resp = m /\ good /\ m.what = "values"
      BY <2>3, <2>5
    <3>2. e.q # "find_node"
      BY <2>4, <3>1 DEF Fits
    <3>3. e.q = "get_peers"
      BY <2>1, <2>2, <2>3, <2>4, <2>5, <3>1, <3>2 DEF QueryNames
    <3> QED
      BY <1>1, <2>2, <3>1, <3>3 DEF Right
  <2> QED
    BY <2>1, <2>2, <2>3, <2>5 DEF SenderTold
<1> HIDE DEF p, e
<1> QED
  BY <1>1, <1>4

\* Senders keep what they were told.
LEMMA SenderStep ==
  ASSUME StateInv, LookInv, Told, [Next]_vars
  PROVE  (\A p \in pend \cup fwd : SenderTold(p))'
<1>1. \A p \in pend \cup fwd : p.chan \in Chans /\ SenderTold(p)
  BY DEF StateInv, RoutinesKept, Told
<1>2. \A p : p.chan \in Chans /\ SenderTold(p) => SenderTold(p)'
  BY SenderLasts
<1>3. CASE pend' \cup fwd' \subseteq pend \cup fwd
  BY <1>1, <1>2, <1>3
<1>4. ASSUME NEW n \in Nodes, NEW m \in net, HandleResponse(n, m)
      PROVE  (\A p \in pend \cup fwd : SenderTold(p))'
  <2>1. \/ \E x : /\ pend' \cup fwd' \subseteq pend \cup fwd \cup {x}
                  /\ x.chan \in Chans /\ SenderTold(x)
        \/ pend' \cup fwd' \subseteq pend \cup fwd
    BY <1>4, SenderBegins
  <2> QED
    BY <1>1, <1>2, <2>1
<1>5. ASSUME NEW w \in waiters, NEW p \in pend, WaiterReceives(w, p)
      PROVE  pend' \cup fwd' \subseteq pend \cup fwd
  BY <1>5 DEF WaiterReceives
<1>6. ASSUME NEW w \in waiters, WaiterTimesOut(w) PROVE pend' \cup fwd' \subseteq pend \cup fwd
  BY <1>6 DEF WaiterTimesOut
<1>7. ASSUME NEW c \in Calls, Register(c) PROVE pend' \cup fwd' \subseteq pend \cup fwd
  BY <1>7 DEF Register
<1>8. ASSUME NEW c \in Calls, NEW f \in fwd, Collect(c, f)
      PROVE  pend' \cup fwd' \subseteq pend \cup fwd
  BY <1>8 DEF Collect
<1>9. ASSUME NEW c \in Calls, NEW i \in calls[c].sent, RegisterAnnounce(c, i)
      PROVE  pend' \cup fwd' \subseteq pend \cup fwd
  BY <1>9 DEF RegisterAnnounce
<1>10. ASSUME NEW n \in Nodes, NEW t \in Tids, Sweep(n, t)
       PROVE  pend' \cup fwd' \subseteq pend \cup fwd
  BY <1>10 DEF Sweep, routines
<1>11. ASSUME UNCHANGED <<expected, waiters, pend, fwd>> PROVE pend' \cup fwd' \subseteq pend \cup fwd
  BY <1>11
<1> QED
  BY <1>3, <1>4, <1>5, <1>6, <1>7, <1>8, <1>9, <1>10, <1>11, RoutinesMove

\* The answers are about the key.
AboutIt(R, key) == \A m \in R : m.what = "values" => For(key, m.list)

\* What a call was told stays true.
LEMMA CallToldLasts ==
  ASSUME StateInv, Told, [Next]_vars, reused' = 0,
         NEW k, CallOK(k), Phase(k), CallTold(k)
  PROVE  CallTold(k)'
<1>1. announced \subseteq announced'
  BY AnnouncedGrows
<1>2. /\ k.pc = "announce" => k.tid <= tids[k.by]
      /\ k.pc \in {"pinged", "register"} => k.asked[Len(k.asked)] <= tids[k.by]
      /\ k.pc = "register" /\ k.use = "download" => Right(k.by, k.asked[Len(k.asked)], k.target)
      /\ \A i \in DOMAIN k.results : k.results[i].what = "values" => For(k.target, k.results[i].list)
      /\ For(k.target, k.ret)
  BY DEF CallTold
<1>3. k.by \in Nodes /\ k.asked \in Seq(Tids) /\ (k.pc = "announce" => k.tid \in Nat)
  BY DEF CallOK, Phase, Tids
<1>4. tids[k.by] \in Nat /\ tids'[k.by] \in Nat /\ tids[k.by] <= tids'[k.by]
  BY <1>3, TidsGrow
<1>5. ASSUME k.pc \in {"pinged", "register"} PROVE k.asked[Len(k.asked)] \in Nat
  <2> DEFINE i == Len(k.asked)
  <2>1. i = 1 \/ k.asked # <<>>
    BY <1>5 DEF Phase
  <2>2. i \in Nat /\ DOMAIN k.asked = 1 .. i /\ \A j \in 1 .. i : k.asked[j] \in Tids
    BY <1>3, LenProperties
  <2>3. i # 0
    <3>1. k.asked # <<>> => Len(k.asked) # 0
      BY <1>3, LenProperties, EmptySeq
    <3> HIDE DEF i
    <3>2. i = Len(k.asked)
      BY DEF i
    <3> QED
      BY <2>1, <3>1, <3>2
  <2> HIDE DEF i
  <2>4. k.asked[i] \in Tids
    BY <2>2, <2>3
  <2> QED
    BY <2>4 DEF Tids, i
<1>6. k.pc = "announce" => k.tid <= tids'[k.by]
  BY <1>2, <1>3, <1>4
<1>7. k.pc \in {"pinged", "register"} => k.asked[Len(k.asked)] <= tids'[k.by]
  <2> DEFINE t == k.asked[Len(k.asked)]
  <2> SUFFICES ASSUME k.pc \in {"pinged", "register"} PROVE t <= tids'[k.by]
    OBVIOUS
  <2>1. t \in Nat /\ t <= tids[k.by]
    BY <1>2, <1>5
  <2> HIDE DEF t
  <2> QED
    BY <1>4, <2>1
<1>8. ASSUME k.pc = "register", k.use = "download"
      PROVE  Right(k.by, k.asked[Len(k.asked)], k.target)'
  <2> DEFINE t == k.asked[Len(k.asked)]
  <2>1. t \in Nat /\ t <= tids[k.by] /\ Right(k.by, t, k.target)
    BY <1>2, <1>5, <1>8
  <2> HIDE DEF t
  <2>2. \A m \in net' :
           /\ m.y = "q" /\ m.q = "get_peers" /\ m.from = k.by /\ m.tid = t => m.target = k.target
           /\ m.y = "r" /\ m.what = "values" /\ m.to = k.by /\ m.tid = t =>
                \A i \in DOMAIN m.list : <<k.target, m.list[i]>> \in announced'
    BY <1>3, <2>1, RightKept
  <2> QED
    BY <2>2 DEF Right, For, t
<1>9. \A list : For(k.target, list) => For(k.target, list)'
  BY <1>1 DEF For
<1>10. \A i \in DOMAIN k.results :
         k.results[i].what = "values" => For(k.target, k.results[i].list)'
  BY <1>2, <1>9
<1>11. For(k.target, k.ret)'
  BY <1>2, <1>9
<1> QED
  BY <1>6, <1>7, <1>8, <1>10, <1>11 DEF CallTold

\* One call changes.
LEMMA OneCallTold ==
  ASSUME StateInv, LookInv, Told, [Next]_vars, reused' = 0,
         NEW c \in Calls, NEW k, calls' = [calls EXCEPT ![c] = k], CallTold(k)'
  PROVE  (\A d \in Calls : CallTold(calls[d]))'
<1> SUFFICES ASSUME NEW d \in Calls PROVE CallTold(calls[d])'
  OBVIOUS
<1>1. PICK x : x = calls[d]
  OBVIOUS
<1>2. CallOK(x) /\ Phase(x) /\ CallTold(x) /\ DOMAIN calls = Calls
  BY <1>1, CallKnown DEF Told
<1>3. CallTold(x)'
  BY <1>2, CallToldLasts
<1>4. calls'[d] = IF d = c THEN k ELSE x
  BY <1>1, <1>2
<1>5. CASE d = c
  <2>1. calls'[d] = k
    BY <1>4, <1>5
  <2> QED
    BY <2>1 DEF CallTold
<1>6. CASE d # c
  <2>1. calls'[d] = x
    BY <1>4, <1>6
  <2> QED
    BY <1>3, <2>1 DEF CallTold
<1> QED
  BY <1>5, <1>6

\* A call that neither asks nor announces only has to know its answers.
LEMMA QuietTold ==
  ASSUME NEW k, k.pc \notin {"pinged", "register", "announce"},
         AboutIt(Range(k.results), k.target), For(k.target, k.ret)
  PROVE  CallTold(k)
BY DEF CallTold, AboutIt, Range

\* What a call knows of the answers it has.
LEMMA KnowsAnswers ==
  ASSUME Told, NEW c \in Calls
  PROVE  AboutIt(Range(calls[c].results), calls[c].target) /\ For(calls[c].target, calls[c].ret)
<1>1. CallTold(calls[c])
  BY DEF Told
<1> QED
  BY <1>1 DEF CallTold, AboutIt, Range

\* The end of a round.
LEMMA EndTold ==
  ASSUME Told, NEW c \in Calls, NEW R, AboutIt(R, calls[c].target),
         NEW k, RoundOver(k, calls[c], R)
  PROVE  CallOK(k) /\ Phase(k) /\ CallTold(k)
<1>1. /\ k.target = calls[c].target /\ CallOK(k) /\ Phase(k)
      /\ k.ret = calls[c].ret \/ \E m \in R : m.what = "values" /\ k.ret = m.list
      /\ k.pc \in {"write", "message", "done", "panic"} /\ k.results = <<>>
  BY DEF RoundOver, Same
<1>2. For(k.target, k.ret)
  BY <1>1, KnowsAnswers DEF AboutIt
<1>3. AboutIt(Range(k.results), k.target)
  BY <1>1 DEF AboutIt, Range
<1> QED
  BY <1>1, <1>2, <1>3, QuietTold

\* A query has an id that no datagram had, so its answers will be about it.
LEMMA WriteTold ==
  ASSUME StateInv, LookInv, Told, [Next]_vars, reused' = 0,
         NEW c \in Calls, NEW t \in Tids, WriteQuery(c, t)
  PROVE  (\A d \in Calls : CallTold(calls[d]))'
<1>1. PICK k : /\ calls' = [calls EXCEPT ![c] = k] /\ CallOK(k) /\ Phase(k)
               /\ Onwards(k, calls[c]) /\ k.asked[Len(k.asked)] = t
               /\ \/ calls[c].pc = "ping" /\ k.pc = "pinged"
                  \/ calls[c].pc = "write" /\ k.pc = "register"
  BY WriteKept
<1>2. PICK by \in Nodes : by = calls[c].by
  BY CallKnown DEF CallOK
<1>3. /\ k.by = by /\ k.target = calls[c].target /\ k.use = calls[c].use
      /\ k.results = <<>> /\ k.ret = calls[c].ret
  <2>1. calls[c].results = <<>>
    BY <1>1, CallKnown
  <2> QED
    BY <1>1, <1>2, <2>1 DEF Onwards, Same
<1>4. t = tids[by] + 1 /\ tids[by] \in Nat /\ tids'[by] = t
  BY <1>2, QueryDrawn
<1>5. announced \subseteq announced' /\ For(k.target, k.ret)
  BY <1>3, AnnouncedGrows, KnowsAnswers
<1>6. ASSUME k.pc = "register", k.use = "download"
      PROVE  \A m \in net' :
               /\ m.y = "q" /\ m.q = "get_peers" /\ m.from = by /\ m.tid = t => m.target = k.target
               /\ m.y = "r" /\ m.what = "values" /\ m.to = by /\ m.tid = t => For(k.target, m.list)
  <2> DEFINE Fine(m) ==
        /\ m.y = "q" /\ m.q = "get_peers" /\ m.from = by /\ m.tid = t => m.target = k.target
        /\ m.y = "r" /\ m.what = "values" /\ m.to = by /\ m.tid = t => For(k.target, m.list)
  <2>1. PICK new : /\ net' = net \cup {new} /\ new.y = "q"
                   /\ \/ calls[c].pc = "ping"
                      \/ calls[c].pc = "write" /\ new.target = calls[c].target
    BY Written
  <2>2. Fine(new)
    BY <1>1, <1>3, <1>6, <2>1
  <2>3. ASSUME NEW m \in net PROVE Fine(m)
    <3>1. m.tid <= tids[IF m.y = "q" THEN m.from ELSE m.to]
      BY DEF Told, Drawn
    <3>2. m.tid \in Nat
      BY DEF StateInv, NetKept, MessageOK, Tids
    <3>3. m.tid = t /\ (IF m.y = "q" THEN m.from ELSE m.to) = by => FALSE
      BY <1>4, <3>1, <3>2
    <3> QED
      BY <3>3
  <2> HIDE DEF Fine
  <2>4. \A m \in net' : Fine(m)
    BY <2>1, <2>2, <2>3
  <2> QED
    BY <2>4 DEF Fine
<1>7. k.pc = "register" /\ k.use = "download" => Right(k.by, k.asked[Len(k.asked)], k.target)'
  BY <1>1, <1>3, <1>5, <1>6 DEF Right, For
<1>8. For(k.target, k.ret)'
  BY <1>5 DEF For
<1>9. k.asked[Len(k.asked)] <= tids'[k.by]
  BY <1>1, <1>3, <1>4
<1>10. k.pc # "announce" /\ DOMAIN k.results = {}
  BY <1>1, <1>3
<1>11. CallTold(k)'
  BY <1>7, <1>8, <1>9, <1>10 DEF CallTold
<1> QED
  BY <1>1, <1>11, OneCallTold

\* The announce has the id that was drawn.
LEMMA MakeTold ==
  ASSUME StateInv, LookInv, Told, [Next]_vars, reused' = 0,
         NEW c \in Calls, NEW t \in Tids, MakeAnnounce(c, t)
  PROVE  (\A d \in Calls : CallTold(calls[d]))'
<1>1. PICK k : /\ calls' = [calls EXCEPT ![c] = k]
               /\ Onwards(k, calls[c]) /\ k.pc = "announce" /\ k.tid = t
  BY MakeKept
<1>2. PICK by \in Nodes : by = calls[c].by
  BY CallKnown DEF CallOK
<1>3. k.by = by /\ k.target = calls[c].target /\ k.results = <<>> /\ k.ret = calls[c].ret
  <2>1. calls[c].results = <<>>
    <3>1. calls[c].pc = "message"
      BY DEF MakeAnnounce
    <3> QED
      BY <3>1, CallKnown
  <2> QED
    BY <1>1, <1>2, <2>1 DEF Onwards, Same
<1>4. k.tid <= tids'[k.by]
  <2>1. t \in Nat /\ tids'[by] = t
    BY <1>2, QueryDrawn DEF Tids
  <2> QED
    BY <1>1, <1>3, <2>1
<1>5. announced \subseteq announced' /\ For(k.target, k.ret)
  BY <1>3, AnnouncedGrows, KnowsAnswers
<1>6. For(k.target, k.ret)'
  BY <1>5 DEF For
<1>7. DOMAIN k.results = {}
  BY <1>3
<1>8. CallTold(k)'
  BY <1>1, <1>4, <1>6, <1>7 DEF CallTold
<1> QED
  BY <1>1, <1>8, OneCallTold

\* What a call is told was announced for what it asks for.
LEMMA CallToldStep ==
  ASSUME StateInv, LookInv, Told, [Next]_vars, reused' = 0
  PROVE  (\A d \in Calls : CallTold(calls[d]))'
<1>1. ASSUME NEW c \in Calls, NEW k, calls' = [calls EXCEPT ![c] = k],
             CallOK(k), Phase(k), CallTold(k)
      PROVE  (\A d \in Calls : CallTold(calls[d]))'
  BY <1>1, CallToldLasts, OneCallTold
<1>2. CASE UNCHANGED calls
  <2>1. ASSUME NEW d \in Calls PROVE CallTold(calls[d])'
    <3>1. PICK k : k = calls[d]
      OBVIOUS
    <3>2. CallOK(k) /\ Phase(k) /\ CallTold(k)
      BY <3>1, CallKnown DEF Told
    <3>3. CallTold(k)'
      BY <3>2, CallToldLasts
    <3>4. calls'[d] = k
      BY <1>2, <3>1
    <3> QED
      BY <3>3, <3>4 DEF CallTold
  <2> QED
    BY <2>1
<1>3. ASSUME NEW k, k.results = <<>> PROVE AboutIt(Range(k.results), k.target)
  BY <1>3 DEF AboutIt, Range
<1>4. ASSUME NEW c \in Calls, NEW r \in Requests[c], Call(c, r)
      PROVE  (\A d \in Calls : CallTold(calls[d]))'
  <2>1. PICK k : /\ calls' = [calls EXCEPT ![c] = k] /\ CallOK(k) /\ Phase(k)
                 /\ k.pc \in {"ping", "write", "done"} /\ k.results = <<>>
                 /\ k.target = r.target /\ (k.ret # <<>> => For(r.target, k.ret))
    BY <1>4, CallKept
  <2>2. For(k.target, k.ret)
    BY <2>1 DEF For
  <2>3. CallTold(k)
    BY <1>3, <2>1, <2>2, QuietTold
  <2> QED
    BY <1>1, <2>1, <2>3
<1>5. ASSUME NEW c \in Calls, NEW r \in Refreshed, RefreshBucket(c, r[1], r[2])
      PROVE  (\A d \in Calls : CallTold(calls[d]))'
  <2>1. r[1] \in Nodes /\ r[2] \in Buckets
    BY KademliaAssumption
  <2>2. PICK k : /\ calls' = [calls EXCEPT ![c] = k] /\ CallOK(k) /\ Phase(k)
                 /\ k.pc \in {"write", "done"} /\ k.results = <<>> /\ k.ret = <<>>
    BY <1>5, <2>1, RefreshKept
  <2>3. For(k.target, k.ret)
    BY <2>2 DEF For
  <2>4. CallTold(k)
    BY <1>3, <2>2, <2>3, QuietTold
  <2> QED
    BY <1>1, <2>2, <2>4
<1>6. ASSUME NEW c \in Calls, Register(c) PROVE (\A d \in Calls : CallTold(calls[d]))'
  <2>1. PICK k : /\ calls' = [calls EXCEPT ![c] = k] /\ CallOK(k) /\ Phase(k)
                 /\ Onwards(k, calls[c]) /\ k.pc \in {"pong", "write", "collect"}
    BY <1>6, RegisterKept
  <2>2. k.target = calls[c].target /\ k.results = calls[c].results /\ k.ret = calls[c].ret
    BY <2>1 DEF Onwards, Same
  <2>3. CallTold(k)
    BY <2>1, <2>2, KnowsAnswers, QuietTold
  <2> QED
    BY <1>1, <2>1, <2>3
<1>7. ASSUME NEW c \in Calls, AnnounceStep(c)
      PROVE  (\A d \in Calls : CallTold(calls[d]))'
  <2>1. PICK k : /\ calls' = [calls EXCEPT ![c] = k] /\ CallOK(k) /\ Phase(k)
                 /\ Onwards(k, calls[c]) /\ k.pc \in {"announce", "done"}
                 /\ k.tid = calls[c].tid /\ calls[c].pc = "announce"
    BY <1>7, SendKept
  <2>2. /\ k.by = calls[c].by /\ k.target = calls[c].target
        /\ k.results = calls[c].results /\ k.ret = calls[c].ret
    BY <2>1 DEF Onwards, Same
  <2>3. CallTold(calls[c])
    BY DEF Told
  <2>4. CallTold(k)
    BY <2>1, <2>2, <2>3 DEF CallTold
  <2> QED
    BY <1>1, <2>1, <2>4
<1>8. ASSUME NEW w \in waiters, w.q = "ping",
             (\E p \in pend : WaiterReceives(w, p)) \/ WaiterTimesOut(w)
      PROVE  (\A d \in Calls : CallTold(calls[d]))'
  <2>1. PICK c \in Calls : c = w.chan[1]
    BY <1>8, PingKept
  <2>2. PICK k : /\ calls' = [calls EXCEPT ![c] = k] /\ CallOK(k) /\ Phase(k)
                 /\ k.pc \in {"write", "done"} /\ Same(k, calls[c])
                 /\ k.ret = calls[c].ret /\ k.results = <<>>
    BY <1>8, <2>1, PingKept
  <2>3. k.target = calls[c].target
    BY <2>2 DEF Same
  <2>4. CallTold(k)
    BY <1>3, <2>2, <2>3, KnowsAnswers, QuietTold
  <2> QED
    BY <1>1, <2>2, <2>4
<1>9. ASSUME NEW c \in Calls, NEW f \in fwd, Collect(c, f)
      PROVE  (\A d \in Calls : CallTold(calls[d]))'
  <2> DEFINE R == Range(calls[c].results) \cup {f.resp}
  <2>1. /\ calls[c].pc = "collect" /\ c = f.chan[1] /\ f.chan[2] = calls[c].round
        /\ \E call :
              /\ calls' = [calls EXCEPT ![c] = call]
              /\ \/ RoundOver(call, calls[c], R)
                 \/ /\ CallOK(call) /\ Phase(call) /\ Same(call, calls[c]) /\ call.pc = "collect"
                    /\ call.ret = calls[c].ret /\ call.round = calls[c].round
                    /\ Range(call.results) \subseteq R
    BY <1>9, CollectKept
  <2>2. calls[c].round > 0 /\ calls[c].round \in Nat
    BY <2>1, CallKnown DEF Phase, CallOK
  <2>3. f.resp # Nil /\ SenderTold(f)
    BY DEF StateInv, RoutinesKept, Told
  <2>4. f.resp.what = "values" => For(calls[c].target, f.resp.list)
    BY <2>1, <2>2, <2>3 DEF SenderTold
  <2>5. AboutIt(R, calls[c].target)
    BY <2>4, KnowsAnswers DEF AboutIt
  <2> HIDE DEF R
  <2>6. PICK k :
          /\ calls' = [calls EXCEPT ![c] = k]
          /\ \/ RoundOver(k, calls[c], R)
             \/ /\ CallOK(k) /\ Phase(k) /\ Same(k, calls[c]) /\ k.pc = "collect"
                /\ k.ret = calls[c].ret /\ Range(k.results) \subseteq R
    BY <2>1
  <2>7. CASE RoundOver(k, calls[c], R)
    <3>1. CallOK(k) /\ Phase(k) /\ CallTold(k)
      BY <2>5, <2>7, EndTold
    <3> QED
      BY <1>1, <2>6, <3>1
  <2>8. CASE /\ CallOK(k) /\ Phase(k) /\ Same(k, calls[c]) /\ k.pc = "collect"
             /\ k.ret = calls[c].ret /\ Range(k.results) \subseteq R
    <3>1. k.target = calls[c].target
      BY <2>8 DEF Same
    <3>2. AboutIt(Range(k.results), k.target) /\ For(k.target, k.ret)
      BY <2>5, <2>8, <3>1, KnowsAnswers DEF AboutIt
    <3>3. CallTold(k)
      BY <2>8, <3>2, QuietTold
    <3> QED
      BY <1>1, <2>6, <2>8, <3>3
  <2> QED
    BY <2>6, <2>7, <2>8
<1>10. ASSUME NEW c \in Calls, CollectTimesOut(c) PROVE (\A d \in Calls : CallTold(calls[d]))'
  <2>1. PICK k : /\ calls' = [calls EXCEPT ![c] = k]
                 /\ RoundOver(k, calls[c], Range(calls[c].results))
    BY <1>10, TimeOutKept
  <2>2. CallOK(k) /\ Phase(k) /\ CallTold(k)
    BY <2>1, KnowsAnswers, EndTold
  <2> QED
    BY <1>1, <2>1, <2>2
<1>11. ASSUME NEW c \in Calls, NEW t \in Tids, WriteQuery(c, t) \/ MakeAnnounce(c, t)
       PROVE  (\A d \in Calls : CallTold(calls[d]))'
  BY <1>11, WriteTold, MakeTold
<1>12. ASSUME NEW c \in Calls, NEW t \in Tids, WriteFails(c, t), ~UNCHANGED calls
       PROVE  (\A d \in Calls : CallTold(calls[d]))'
  <2>1. PICK k : /\ calls' = [calls EXCEPT ![c] = k] /\ CallOK(k) /\ Phase(k)
                 /\ Onwards(k, calls[c]) /\ k.pc = "done" /\ k.results = <<>>
    BY <1>12, FailKept
  <2>2. k.target = calls[c].target /\ k.ret = calls[c].ret
    BY <2>1 DEF Onwards, Same
  <2>3. CallTold(k)
    BY <1>3, <2>1, <2>2, KnowsAnswers, QuietTold
  <2> QED
    BY <1>1, <2>1, <2>3
<1> QED
  BY <1>2, <1>4, <1>5, <1>6, <1>7, <1>8, <1>9, <1>10, <1>11, <1>12, CallsMove

\* No transaction id was drawn twice: what is told was announced.
LEMMA ToldSteps == StateInv /\ LookInv /\ ToldInv /\ [Next]_vars => ToldInv'
<1> SUFFICES ASSUME StateInv, LookInv, ToldInv, [Next]_vars, reused' = 0 PROVE Told'
  BY DEF ToldInv
<1>1. Told
  BY TidsGrow DEF ToldInv
<1>2. (\A m \in net : Drawn(m))'
  BY <1>1, DrawnStep
<1>3. (\A n \in Nodes, t \in Tids : EntryTold(n, t))'
  BY <1>1, EntryStep
<1>4. (\A p \in pend \cup fwd : SenderTold(p))'
  BY <1>1, SenderStep
<1>5. (\A c \in Calls : CallTold(calls[c]))'
  BY <1>1, CallToldStep
<1> QED
  BY <1>2, <1>3, <1>4, <1>5 DEF Told

\* At first nothing was asked or told.
LEMMA ToldBegins == Init => ToldInv
<1> SUFFICES ASSUME Init PROVE Told
  BY DEF ToldInv
<1>1. net = {} /\ pend = {} /\ fwd = {}
  BY DEF Init
<1>2. \A n \in Nodes, t \in Tids : EntryTold(n, t)
  BY DEF Init, EntryTold
<1>3. ASSUME NEW c \in Calls PROVE CallTold(calls[c])
  <2>1. calls[c] = Idle
    BY DEF Init
  <2>2. Idle.pc = "idle" /\ Idle.results = <<>> /\ Idle.ret = <<>>
    BY DEF Idle, NewCall
  <2>3. AboutIt(Range(Idle.results), Idle.target) /\ For(Idle.target, Idle.ret)
    BY <2>2 DEF AboutIt, Range, For
  <2> QED
    BY <2>1, <2>2, <2>3, QuietTold
<1> QED
  BY <1>1, <1>2, <1>3 DEF Told

-------------------------------------------------------------------------------
(* What is told is about something the node wanted, whatever ids were drawn. *)

\* A call of the node is a download, and one of them asks for what is in the list.
Wants(n, d) == calls[d].pc # "idle" /\ calls[d].use = "download" /\ calls[d].by = n
Wanted(n, list) == \E d \in Calls : Wants(n, d) /\ For(calls[d].target, list)
Answered(c, list) ==
  calls[c].pc # "idle" /\ calls[c].use = "download" /\ Wanted(calls[c].by, list)

\* Datagrams ask for and hold what the node wants; ...
WantedIn(m) ==
  /\ m.y = "q" /\ m.q = "get_peers" =>
       \E d \in Calls : Wants(m.from, d) /\ calls[d].target = m.target
  /\ m.y = "r" /\ m.what = "values" => Wanted(m.to, m.list)

\* ... values are expected by downloads alone, ...
WantedBy(e, n) ==
  e # NoEntry =>
    /\ calls[e.chan[1]].pc # "idle"
    /\ e.q = "ping" => e.chan[2] = 0
    /\ e.q = "get_peers" => Wants(n, e.chan[1])

\* ... and passed on to them alone.
PassedOn(p) ==
  p.chan[2] # 0 /\ p.resp # Nil /\ p.resp.what = "values" => Answered(p.chan[1], p.resp.list)

Knows(c, call) ==
  /\ \A i \in DOMAIN call.results :
       call.results[i].what = "values" => Answered(c, call.results[i].list)
  /\ call.ret # <<>> => Answered(c, call.ret)

WantedInv ==
  /\ \A m \in net : WantedIn(m)
  /\ \A n \in Nodes, t \in Tids : WantedBy(expected[n][t], n)
  /\ \A p \in pend \cup fwd : PassedOn(p)
  /\ \A c \in Calls : Knows(c, calls[c])

\* What was wanted stays so.
LEMMA WantsLast ==
  ASSUME StateInv, LookInv, [Next]_vars
  PROVE  /\ \A n, d : d \in Calls /\ Wants(n, d) => Wants(n, d)' /\ calls'[d].target = calls[d].target
         /\ \A n, list : Wanted(n, list) => Wanted(n, list)'
         /\ \A c, list : c \in Calls /\ Answered(c, list) => Answered(c, list)'
<1>1. announced \subseteq announced'
  BY AnnouncedGrows
<1>2. \A d \in Calls : calls[d].pc # "idle" =>
        /\ calls'[d].pc # "idle" /\ calls'[d].use = calls[d].use
        /\ calls'[d].by = calls[d].by /\ calls'[d].target = calls[d].target
  BY CallLasts DEF Same
<1>3. ASSUME NEW n, NEW d \in Calls, Wants(n, d)
      PROVE  Wants(n, d)' /\ calls'[d].target = calls[d].target
  BY <1>2, <1>3 DEF Wants
<1>4. ASSUME NEW key, NEW list, For(key, list) PROVE For(key, list)'
  BY <1>1, <1>4 DEF For
<1>5. ASSUME NEW n, NEW list, Wanted(n, list) PROVE Wanted(n, list)'
  <2>1. PICK d \in Calls : Wants(n, d) /\ For(calls[d].target, list)
    BY <1>5 DEF Wanted
  <2>2. PICK key : key = calls[d].target
    OBVIOUS
  <2>3. For(key, list)' /\ calls'[d].target = key /\ Wants(n, d)'
    BY <1>3, <1>4, <2>1, <2>2
  <2>4. For(calls[d].target, list)'
    BY <2>3 DEF For
  <2> QED
    BY <2>3, <2>4 DEF Wanted
<1>6. ASSUME NEW c \in Calls, NEW list, Answered(c, list) PROVE Answered(c, list)'
  <2>1. PICK n : n = calls[c].by
    OBVIOUS
  <2>2. calls[c].pc # "idle" /\ calls[c].use = "download" /\ Wanted(n, list)
    BY <1>6, <2>1 DEF Answered
  <2>3. calls'[c].pc # "idle" /\ calls'[c].use = "download" /\ calls'[c].by = n
    BY <1>2, <2>1, <2>2
  <2>4. Wanted(n, list)'
    BY <1>5, <2>2
  <2> QED
    BY <2>3, <2>4 DEF Answered, Wanted
<1> QED
  BY <1>3, <1>5, <1>6

\* Datagrams are about what their nodes want.
LEMMA WantedInStep ==
  ASSUME StateInv, LookInv, WantedInv, [Next]_vars
  PROVE  (\A m \in net : WantedIn(m))'
<1>1. ASSUME NEW m, WantedIn(m) PROVE WantedIn(m)'
  <2>1. ASSUME m.y = "q", m.q = "get_peers"
        PROVE  (\E d \in Calls : Wants(m.from, d) /\ calls[d].target = m.target)'
    <3>1. PICK d \in Calls : Wants(m.from, d) /\ calls[d].target = m.target
      BY <1>1, <2>1 DEF WantedIn
    <3>2. Wants(m.from, d)' /\ calls'[d].target = m.target
      BY <3>1, WantsLast
    <3> QED
      BY <3>2
  <2>2. ASSUME m.y = "r", m.what = "values" PROVE Wanted(m.to, m.list)'
    BY <1>1, <2>2, WantsLast DEF WantedIn
  <2> QED
    BY <2>1, <2>2 DEF WantedIn
<1>2. ASSUME NEW new, net' \subseteq net \cup {new}, WantedIn(new)
      PROVE  (\A m \in net : WantedIn(m))'
  BY <1>1, <1>2 DEF WantedInv
<1>3. CASE net' \subseteq net
  BY <1>1, <1>3 DEF WantedInv
<1>4. ASSUME NEW n \in Nodes, NEW m \in net, HandleQuery(n, m) PROVE (\A x \in net : WantedIn(x))'
  <2> DEFINE r == Reply(n, m)
  <2>1. net' = (net \ {m}) \cup {r} /\ m.y = "q" /\ m.to = n
    BY <1>4 DEF HandleQuery
  <2>2. /\ r.y = "r" /\ r.to = m.from
        /\ r.what = "values" => m.q = "get_peers" /\ For(m.target, r.list)
    BY <2>1, ReplyTyped
  <2> HIDE DEF r
  <2>3. ASSUME r.what = "values" PROVE Wanted(r.to, r.list)
    <3>1. PICK d \in Calls : Wants(m.from, d) /\ calls[d].target = m.target
      BY <2>1, <2>2, <2>3 DEF WantedInv, WantedIn
    <3> QED
      BY <2>2, <2>3, <3>1 DEF Wanted
  <2>4. WantedIn(r)
    BY <2>2, <2>3 DEF WantedIn
  <2>5. PICK x : x = r
    OBVIOUS
  <2> QED
    BY <1>2, <2>1, <2>4, <2>5
<1>5. ASSUME NEW c \in Calls, NEW t \in Tids, WriteQuery(c, t) PROVE (\A x \in net : WantedIn(x))'
  <2>1. PICK m : /\ net' = net \cup {m} /\ m.y = "q" /\ m.from = calls[c].by
                 /\ \/ m.q = "ping"
                    \/ /\ calls[c].pc = "write" /\ m.q = QueryName(calls[c])
                       /\ m.target = calls[c].target
    BY <1>5, Written
  <2>2. m.q = "get_peers" => Wants(m.from, c) /\ calls[c].target = m.target
    BY <2>1 DEF QueryName, Wants
  <2>3. WantedIn(m)
    BY <2>1, <2>2 DEF WantedIn
  <2> QED
    BY <1>2, <2>1, <2>3
<1>6. ASSUME NEW c \in Calls, NEW i \in calls[c].todo, WriteAnnounce(c, i)
      PROVE  (\A x \in net : WantedIn(x))'
  <2>1. PICK m : net' = net \cup {m} /\ m.y = "q" /\ m.q = "announce_peer"
    BY <1>6, Sent
  <2>2. WantedIn(m)
    BY <2>1 DEF WantedIn
  <2> QED
    BY <1>2, <2>1, <2>2
<1>7. ASSUME NEW n \in Nodes, NEW m \in net, HandleResponse(n, m) PROVE net' \subseteq net
  BY <1>7 DEF HandleResponse
<1> QED
  BY <1>3, <1>4, <1>5, <1>6, <1>7, NetMoves

\* Values are expected by downloads.
LEMMA WantedByStep ==
  ASSUME StateInv, LookInv, WantedInv, [Next]_vars
  PROVE  (\A n \in Nodes, t \in Tids : WantedBy(expected[n][t], n))'
<1>1. expected \in [Nodes -> [Tids -> Expectations]]
  BY DEF StateInv, RoutinesKept
<1>2. ASSUME NEW n \in Nodes, NEW e \in Expectations, WantedBy(e, n) PROVE WantedBy(e, n)'
  <2> SUFFICES ASSUME e # NoEntry
               PROVE  /\ calls'[e.chan[1]].pc # "idle"
                      /\ e.q = "ping" => e.chan[2] = 0
                      /\ e.q = "get_peers" => Wants(n, e.chan[1])'
    BY DEF WantedBy
  <2>1. PICK d \in Calls : d = e.chan[1]
    BY EntryTyped DEF Chans
  <2>2. /\ calls[d].pc # "idle" /\ (e.q = "ping" => e.chan[2] = 0)
        /\ e.q = "get_peers" => Wants(n, d)
    BY <1>2, <2>1 DEF WantedBy
  <2>3. calls'[d].pc # "idle"
    BY <2>2, CallLasts
  <2> QED
    BY <2>1, <2>2, <2>3, WantsLast
<1>3. \A n \in Nodes : NoEntry \in Expectations /\ WantedBy(NoEntry, n)
  BY EntryTyped DEF WantedBy
<1>4. ASSUME NEW a \in Nodes, NEW u \in Tids, NEW e \in Expectations, WantedBy(e, a),
             expected' = [expected EXCEPT ![a][u] = e] \/ expected' = expected
      PROVE  (\A n \in Nodes, t \in Tids : WantedBy(expected[n][t], n))'
  <2> SUFFICES ASSUME NEW n \in Nodes, NEW t \in Tids PROVE WantedBy(expected[n][t], n)'
    OBVIOUS
  <2>1. expected'[n][t] = expected[n][t] \/ (n = a /\ expected'[n][t] = e)
    BY <1>1, <1>4
  <2>2. PICK f \in Expectations : expected'[n][t] = f /\ WantedBy(f, n)
    BY <1>1, <1>4, <2>1 DEF WantedInv
  <2>3. WantedBy(f, n)'
    BY <1>2, <2>2
  <2> QED
    BY <2>2, <2>3 DEF WantedBy
<1>5. ASSUME NEW a \in Nodes, NEW m \in net, HandleResponse(a, m)
      PROVE  (\A n \in Nodes, t \in Tids : WantedBy(expected[n][t], n))'
  <2>1. expected' = [expected EXCEPT ![a][m.tid] = NoEntry] \/ expected' = expected
    BY <1>5 DEF HandleResponse
  <2>2. m.tid \in Tids
    BY DEF StateInv, NetKept, MessageOK
  <2> QED
    BY <1>3, <1>4, <2>1, <2>2
<1>6. ASSUME NEW c \in Calls, Register(c)
      PROVE  (\A n \in Nodes, t \in Tids : WantedBy(expected[n][t], n))'
  <2> DEFINE call == calls[c]
             i == Len(call.asked)
             t == call.asked[i]
             chan == Chan(c, call.round, i)
  <2>1. /\ call.by \in Nodes /\ t \in Tids /\ chan \in Chans
        /\ call.pc = "register" => call.nl[i].at \in Nodes
        /\ call.pc \in {"register", "pinged"} /\ (call.pc = "pinged" => call.round = 0)
    <3>1. i \in 1 .. i
      BY <1>6, Registered
    <3> QED
      BY <1>6, <3>1, Registered
  <2>2. \E q \in QueryNames, to \in Nodes :
          /\ expected' = [expected EXCEPT ![call.by][t] = Awaited(q, to, chan)]
          /\ q = "ping" => call.round = 0
          /\ q = "get_peers" => call.use = "download"
    <3>1. QueryName(call) \in QueryNames /\ "ping" \in QueryNames /\ Bootstrap \in Nodes
          /\ QueryName(call) # "ping" /\ (QueryName(call) = "get_peers" => call.use = "download")
      BY KademliaAssumption DEF QueryName, QueryNames
    <3>2. \/ /\ call.pc = "register"
             /\ expected' = [expected EXCEPT ![call.by][t] =
                  Awaited(QueryName(call), call.nl[i].at, chan)]
          \/ /\ call.pc = "pinged"
             /\ expected' = [expected EXCEPT ![call.by][t] = Awaited("ping", Bootstrap, chan)]
      BY <1>6 DEF Register
    <3> HIDE DEF call, i, t, chan
    <3> QED
      BY <2>1, <3>1, <3>2
  <2>3. chan[1] = c /\ chan[2] = call.round
    BY DEF Chan
  <2> HIDE DEF t, chan
  <2>4. PICK q \in QueryNames, to \in Nodes :
          /\ expected' = [expected EXCEPT ![call.by][t] = Awaited(q, to, chan)]
          /\ q = "ping" => call.round = 0
          /\ q = "get_peers" => call.use = "download"
    BY <2>2
  <2>5. PICK e \in Expectations : e = Awaited(q, to, chan) /\ e.q = q /\ e.chan = chan
    BY <2>1, EntryTyped
  <2>6. WantedBy(e, call.by)
    BY <2>1, <2>3, <2>4, <2>5 DEF WantedBy, Wants
  <2> QED
    BY <1>4, <2>1, <2>4, <2>5, <2>6
<1>7. ASSUME NEW c \in Calls, NEW i \in calls[c].sent, RegisterAnnounce(c, i)
      PROVE  (\A n \in Nodes, t \in Tids : WantedBy(expected[n][t], n))'
  <2> DEFINE call == calls[c]
             chan == Chan(c, call.round + 1, i)
  <2>1. expected' = [expected EXCEPT ![call.by][call.tid] =
                       Awaited("announce_peer", call.nl[i].at, chan)]
    BY <1>7 DEF RegisterAnnounce
  <2>2. /\ call.tid \in Tids /\ call.nl[i].at \in Nodes /\ call.by \in Nodes /\ chan \in Chans
        /\ "announce_peer" \in QueryNames /\ call.pc = "announce" /\ chan[1] = c
    BY AnnounceKnown DEF QueryNames, Chan
  <2> HIDE DEF chan
  <2>3. PICK e \in Expectations :
          e = Awaited("announce_peer", call.nl[i].at, chan) /\ e.q = "announce_peer" /\ e.chan = chan
    BY <2>2, EntryTyped
  <2>4. WantedBy(e, call.by)
    BY <2>2, <2>3 DEF WantedBy
  <2> QED
    BY <1>4, <2>1, <2>2, <2>3, <2>4
<1>8. ASSUME NEW w \in waiters, (\E p \in pend : WaiterReceives(w, p)) \/ WaiterTimesOut(w)
      PROVE  (\A n \in Nodes, t \in Tids : WantedBy(expected[n][t], n))'
  <2>1. expected' = expected \/ expected' = [expected EXCEPT ![Caller(w.chan)][w.tid] = NoEntry]
    BY <1>8 DEF WaiterReceives, WaiterTimesOut, Forgotten
  <2>2. Caller(w.chan) \in Nodes /\ w.tid \in Tids
    <3>1. w.chan \in Chans /\ w.tid \in Tids
      BY DEF StateInv, RoutinesKept
    <3> QED
      BY <3>1 DEF StateInv, CallsKept, CallOK, Chans, Caller
  <2> QED
    BY <1>3, <1>4, <2>1, <2>2
<1>9. ASSUME NEW a \in Nodes, NEW u \in Tids, Sweep(a, u)
      PROVE  (\A n \in Nodes, t \in Tids : WantedBy(expected[n][t], n))'
  <2>1. expected' = [expected EXCEPT ![a][u] = NoEntry]
    BY <1>9 DEF Sweep, Forgotten
  <2> QED
    BY <1>3, <1>4, <2>1
<1>10. CASE expected' = expected
  <2>1. Bootstrap \in Nodes /\ 1 \in Tids
    BY KademliaAssumption DEF Tids
  <2> QED
    BY <1>3, <1>4, <1>10, <2>1
<1>11. ASSUME NEW c \in Calls, NEW f \in fwd, Collect(c, f) PROVE expected' = expected
  BY <1>11, CallsLeave
<1> QED
  BY <1>5, <1>6, <1>7, <1>8, <1>9, <1>10, <1>11, RoutinesMove

\* Values are passed on to downloads.
LEMMA PassedOnStep ==
  ASSUME StateInv, LookInv, WantedInv, [Next]_vars
  PROVE  (\A p \in pend \cup fwd : PassedOn(p))'
<1>1. \A p \in pend \cup fwd : p.chan \in Chans /\ PassedOn(p)
  BY DEF StateInv, RoutinesKept, WantedInv
<1>2. ASSUME NEW p, p.chan \in Chans, PassedOn(p) PROVE PassedOn(p)'
  <2>1. p.chan[1] \in Calls
    BY <1>2 DEF Chans
  <2> QED
    BY <1>2, <2>1, WantsLast DEF PassedOn
<1>3. CASE pend' \cup fwd' \subseteq pend \cup fwd
  BY <1>1, <1>2, <1>3
<1>4. ASSUME NEW n \in Nodes, NEW m \in net, HandleResponse(n, m)
      PROVE  (\A p \in pend \cup fwd : PassedOn(p))'
  <2> DEFINE e == expected[n][m.tid]
             good == e # NoEntry /\ ~(e # NoEntry /\ ~(m.from = e.to /\ Fits(e, m))) /\ e.q # "announce_peer"
             p == [chan |-> e.chan, resp |-> IF good THEN m ELSE Nil]
  <2>1. /\ pend' = pend \/ (e # NoEntry /\ pend' = pend \cup {p})
        /\ fwd' = fwd /\ m.y = "r" /\ m.to = n
    BY <1>4 DEF HandleResponse
  <2>2. m.tid \in Tids /\ e \in Expectations
    BY DEF StateInv, NetKept, MessageOK, RoutinesKept
  <2>3. WantedBy(e, n)
    BY <2>2 DEF WantedInv
  <2>4. p.chan = e.chan /\ p.resp = IF good THEN m ELSE Nil
    OBVIOUS
  <2>5. good => e # NoEntry /\ e.q # "announce_peer" /\ Fits(e, m)
    OBVIOUS
  <2> HIDE DEF p, good, e
  <2>6. ASSUME e # NoEntry, p.chan[2] # 0, p.resp # Nil, p.resp.what = "values"
        PROVE  Answered(p.chan[1], p.resp.list)
    <3>1. p.resp = m /\ good /\ m.what = "values"
      BY <2>4, <2>6
    <3>2. e.q \in QueryNames /\ e.q # "find_node"
      BY <2>2, <2>5, <2>6, <3>1, EntryTyped DEF Fits
    <3>3. e.q = "get_peers"
      BY <2>3, <2>4, <2>5, <2>6, <3>1, <3>2 DEF WantedBy, QueryNames
    <3>4. Wants(n, e.chan[1])
      BY <2>3, <2>6, <3>3 DEF WantedBy
    <3>5. Wanted(n, m.list)
      BY <2>1, <3>1 DEF WantedInv, WantedIn
    <3> QED
      BY <2>4, <3>1, <3>4, <3>5 DEF Answered, Wants
  <2>7. e # NoEntry => p.chan \in Chans /\ PassedOn(p)
    BY <2>2, <2>4, <2>6, EntryTyped DEF PassedOn
  <2>8. PICK x : x = p
    OBVIOUS
  <2> QED
    BY <1>1, <1>2, <2>1, <2>7, <2>8
<1>5. ASSUME NEW w \in waiters, (\E p \in pend : WaiterReceives(w, p)) \/ WaiterTimesOut(w)
      PROVE  pend' \cup fwd' \subseteq pend \cup fwd
  BY <1>5 DEF WaiterReceives, WaiterTimesOut
<1>6. ASSUME NEW c \in Calls, Register(c) PROVE pend' \cup fwd' \subseteq pend \cup fwd
  BY <1>6 DEF Register
<1>7. ASSUME NEW c \in Calls, NEW f \in fwd, Collect(c, f)
      PROVE  pend' \cup fwd' \subseteq pend \cup fwd
  BY <1>7 DEF Collect
<1>8. ASSUME NEW c \in Calls, NEW i \in calls[c].sent, RegisterAnnounce(c, i)
      PROVE  pend' \cup fwd' \subseteq pend \cup fwd
  BY <1>8 DEF RegisterAnnounce
<1>9. ASSUME NEW n \in Nodes, NEW t \in Tids, Sweep(n, t)
      PROVE  pend' \cup fwd' \subseteq pend \cup fwd
  BY <1>9 DEF Sweep, routines
<1>10. ASSUME UNCHANGED <<expected, waiters, pend, fwd>> PROVE pend' \cup fwd' \subseteq pend \cup fwd
  BY <1>10
<1> QED
  BY <1>3, <1>4, <1>5, <1>6, <1>7, <1>8, <1>9, <1>10, RoutinesMove

\* A call knows only what it was told.
LEMMA KnowsStep ==
  ASSUME StateInv, LookInv, WantedInv, [Next]_vars
  PROVE  (\A c \in Calls : Knows(c, calls[c]))'
<1> DEFINE Goal == (\A c \in Calls : Knows(c, calls[c]))'
<1>1. ASSUME NEW c \in Calls, NEW k, Knows(c, k) PROVE Knows(c, k)'
  BY <1>1, WantsLast DEF Knows
<1>2. ASSUME NEW c \in Calls, NEW k, calls' = [calls EXCEPT ![c] = k], Knows(c, k)'
      PROVE  Goal
  <2> SUFFICES ASSUME NEW d \in Calls PROVE Knows(d, calls[d])'
    OBVIOUS
  <2>1. PICK x : x = calls[d]
    OBVIOUS
  <2>2. Knows(d, x) /\ DOMAIN calls = Calls
    BY <2>1, CallKnown DEF WantedInv
  <2>3. Knows(d, x)'
    BY <1>1, <2>2
  <2>4. PICK y : y = calls'[d] /\ Knows(d, y)'
    BY <1>2, <2>1, <2>2, <2>3
  <2> QED
    BY <2>4 DEF Knows
<1>3. ASSUME NEW c \in Calls, NEW k, NEW R,
             Range(k.results) \subseteq R,
             k.ret = calls[c].ret \/ \E m \in R : m.what = "values" /\ k.ret = m.list,
             \A m \in R : m.what = "values" => Answered(c, m.list)
      PROVE  Knows(c, k)
  <2>1. calls[c].ret # <<>> => Answered(c, calls[c].ret)
    BY DEF WantedInv, Knows
  <2>2. k.ret # <<>> => Answered(c, k.ret)
    BY <1>3, <2>1
  <2>3. \A i \in DOMAIN k.results : k.results[i] \in R
    BY <1>3 DEF Range
  <2> QED
    BY <1>3, <2>2, <2>3 DEF Knows
<1>4. ASSUME NEW c \in Calls
      PROVE  \A m \in Range(calls[c].results) : m.what = "values" => Answered(c, m.list)
  BY DEF WantedInv, Knows, Range
<1>5. ASSUME NEW c \in Calls, NEW k, calls' = [calls EXCEPT ![c] = k],
             k.results = calls[c].results \/ k.results = <<>>, k.ret = calls[c].ret
      PROVE  Goal
  <2>1. Range(k.results) \subseteq Range(calls[c].results)
    BY <1>5 DEF Range
  <2>2. Knows(c, k)
    BY <1>3, <1>4, <1>5, <2>1
  <2> HIDE DEF Goal
  <2> QED
    BY <1>1, <1>2, <1>5, <2>2
<1>6. CASE UNCHANGED calls
  <2>1. ASSUME NEW d \in Calls PROVE Knows(d, calls[d])'
    <3>1. PICK x : x = calls[d] /\ Knows(d, x)
      BY DEF WantedInv
    <3>2. Knows(d, x)' /\ calls'[d] = x
      BY <1>1, <1>6, <3>1
    <3> QED
      BY <3>2 DEF Knows
  <2> QED
    BY <2>1
<1>7. ASSUME NEW c \in Calls, NEW r \in Requests[c], Call(c, r) PROVE Goal
  <2>1. PICK k : /\ calls' = [calls EXCEPT ![c] = k] /\ CallOK(k) /\ Phase(k)
                 /\ k.pc \in {"ping", "write", "done"} /\ k.results = <<>>
                 /\ k.target = r.target /\ (k.ret # <<>> => For(r.target, k.ret))
                 /\ k.use = r.use /\ k.by = r.by /\ (k.ret # <<>> => r.use = "download")
    BY <1>7, CallKept
  <2>2. calls'[c] = k
    BY <2>1, CallKnown
  <2>3. ASSUME k.ret # <<>> PROVE Answered(c, k.ret)'
    <3>1. announced \subseteq announced'
      BY AnnouncedGrows
    <3>2. For(k.target, k.ret)'
      BY <2>1, <2>3, <3>1 DEF For
    <3>3. Wants(k.by, c)' /\ For(calls[c].target, k.ret)'
      BY <2>1, <2>2, <2>3, <3>2 DEF Wants, For
    <3> QED
      BY <2>2, <3>3 DEF Answered, Wanted, Wants
  <2>4. Knows(c, k)'
    BY <2>1, <2>3 DEF Knows
  <2> HIDE DEF Goal
  <2> QED
    BY <1>2, <2>1, <2>4
<1>8. ASSUME NEW c \in Calls, NEW r \in Refreshed, RefreshBucket(c, r[1], r[2]) PROVE Goal
  <2>1. r[1] \in Nodes /\ r[2] \in Buckets
    BY KademliaAssumption
  <2>2. PICK k : calls' = [calls EXCEPT ![c] = k] /\ k.results = <<>> /\ k.ret = <<>>
    BY <1>8, <2>1, RefreshKept
  <2>3. Knows(c, k)'
    BY <2>2 DEF Knows
  <2> HIDE DEF Goal
  <2> QED
    BY <1>2, <2>2, <2>3
<1>9. ASSUME NEW c \in Calls, Register(c) PROVE Goal
  <2>1. PICK k : calls' = [calls EXCEPT ![c] = k] /\ Onwards(k, calls[c])
    BY <1>9, RegisterKept
  <2> HIDE DEF Goal
  <2> QED
    BY <1>5, <2>1 DEF Onwards
<1>10. ASSUME NEW c \in Calls, NEW t \in Tids, WriteQuery(c, t) PROVE Goal
  <2>1. PICK k : calls' = [calls EXCEPT ![c] = k] /\ Onwards(k, calls[c])
    BY <1>10, WriteKept
  <2> HIDE DEF Goal
  <2> QED
    BY <1>5, <2>1 DEF Onwards
<1>11. ASSUME NEW c \in Calls, NEW t \in Tids, MakeAnnounce(c, t) PROVE Goal
  <2>1. PICK k : calls' = [calls EXCEPT ![c] = k] /\ Onwards(k, calls[c])
    BY <1>11, MakeKept
  <2> HIDE DEF Goal
  <2> QED
    BY <1>5, <2>1 DEF Onwards
<1>12. ASSUME NEW c \in Calls, AnnounceStep(c) PROVE Goal
  <2>1. PICK k : calls' = [calls EXCEPT ![c] = k] /\ Onwards(k, calls[c])
    BY <1>12, SendKept
  <2> HIDE DEF Goal
  <2> QED
    BY <1>5, <2>1 DEF Onwards
<1>13. ASSUME NEW c \in Calls, NEW t \in Tids, WriteFails(c, t), ~UNCHANGED calls PROVE Goal
  <2>1. PICK k : calls' = [calls EXCEPT ![c] = k] /\ Onwards(k, calls[c])
    BY <1>13, FailKept
  <2> HIDE DEF Goal
  <2> QED
    BY <1>5, <2>1 DEF Onwards
<1>14. ASSUME NEW w \in waiters, w.q = "ping",
              (\E p \in pend : WaiterReceives(w, p)) \/ WaiterTimesOut(w)
       PROVE  Goal
  <2>1. PICK c \in Calls : c = w.chan[1]
    BY <1>14, PingKept
  <2>2. PICK k : /\ calls' = [calls EXCEPT ![c] = k] /\ k.ret = calls[c].ret /\ k.results = <<>>
    BY <1>14, <2>1, PingKept
  <2> HIDE DEF Goal
  <2> QED
    BY <1>5, <2>2
<1>15. ASSUME NEW c \in Calls, NEW f \in fwd, Collect(c, f) PROVE Goal
  <2> DEFINE R == Range(calls[c].results) \cup {f.resp}
  <2>1. /\ calls[c].pc = "collect" /\ c = f.chan[1] /\ f.chan[2] = calls[c].round
        /\ \E call :
              /\ calls' = [calls EXCEPT ![c] = call]
              /\ \/ RoundOver(call, calls[c], R)
                 \/ /\ CallOK(call) /\ Phase(call) /\ Same(call, calls[c]) /\ call.pc = "collect"
                    /\ call.ret = calls[c].ret /\ call.round = calls[c].round
                    /\ Range(call.results) \subseteq R
    BY <1>15, CollectKept
  <2>2. calls[c].round > 0 /\ calls[c].round \in Nat
    BY <2>1, CallKnown DEF Phase, CallOK
  <2>3. f.resp # Nil /\ PassedOn(f)
    BY DEF StateInv, RoutinesKept, WantedInv
  <2>4. f.resp.what = "values" => Answered(c, f.resp.list)
    BY <2>1, <2>2, <2>3 DEF PassedOn
  <2>5. \A m \in R : m.what = "values" => Answered(c, m.list)
    BY <1>4, <2>4
  <2> HIDE DEF R
  <2>6. PICK k :
          /\ calls' = [calls EXCEPT ![c] = k]
          /\ RoundOver(k, calls[c], R) \/ (k.ret = calls[c].ret /\ Range(k.results) \subseteq R)
    BY <2>1
  <2>7. /\ Range(k.results) \subseteq R
        /\ k.ret = calls[c].ret \/ \E m \in R : m.what = "values" /\ k.ret = m.list
    BY <2>6 DEF RoundOver, Range
  <2>8. Knows(c, k)
    BY <1>3, <2>5, <2>7
  <2> HIDE DEF Goal
  <2> QED
    BY <1>1, <1>2, <2>6, <2>8
<1>16. ASSUME NEW c \in Calls, CollectTimesOut(c) PROVE Goal
  <2> DEFINE R == Range(calls[c].results)
  <2>1. PICK k : calls' = [calls EXCEPT ![c] = k] /\ RoundOver(k, calls[c], R)
    BY <1>16, TimeOutKept
  <2>2. \A m \in R : m.what = "values" => Answered(c, m.list)
    BY <1>4
  <2> HIDE DEF R
  <2>3. /\ Range(k.results) \subseteq R
        /\ k.ret = calls[c].ret \/ \E m \in R : m.what = "values" /\ k.ret = m.list
    BY <2>1 DEF RoundOver, Range
  <2>4. Knows(c, k)
    BY <1>3, <2>2, <2>3
  <2> HIDE DEF Goal
  <2> QED
    BY <1>1, <1>2, <2>1, <2>4
<1> QED
  BY <1>6, <1>7, <1>8, <1>9, <1>10, <1>11, <1>12, <1>13, <1>14, <1>15, <1>16, CallsMove

\* What is told stays about what was wanted.
LEMMA WantedSteps == StateInv /\ LookInv /\ WantedInv /\ [Next]_vars => WantedInv'
<1> SUFFICES ASSUME StateInv, LookInv, WantedInv, [Next]_vars PROVE WantedInv'
  OBVIOUS
<1> QED
  BY WantedInStep, WantedByStep, PassedOnStep, KnowsStep DEF WantedInv

\* At first nothing was told.
LEMMA WantedBegins == Init => WantedInv
<1> SUFFICES ASSUME Init PROVE WantedInv
  OBVIOUS
<1>1. net = {} /\ pend = {} /\ fwd = {}
  BY DEF Init
<1>2. \A n \in Nodes, t \in Tids : WantedBy(expected[n][t], n)
  BY DEF Init, WantedBy
<1>3. ASSUME NEW c \in Calls PROVE Knows(c, calls[c])
  <2>1. calls[c] = Idle
    BY DEF Init
  <2>2. Idle.results = <<>> /\ Idle.ret = <<>>
    BY DEF Idle, NewCall
  <2> QED
    BY <2>1, <2>2 DEF Knows
<1> QED
  BY <1>1, <1>2, <1>3 DEF WantedInv

\* Nodes store only what was announced for that very key, and a call is told only
\* what was announced for a key that a download of its node asks for: its own,
\* while no transaction id is drawn twice.  For any ids, nodes and calls.
THEOREM ToldWasAnnounced == Spec => []PeersWereAnnounced
<1>1. Init => ToldInv /\ WantedInv
  BY ToldBegins, WantedBegins
<1>2. (StateInv /\ LookInv) /\ (ToldInv /\ WantedInv) /\ [Next]_vars => (ToldInv /\ WantedInv)'
  BY ToldSteps, WantedSteps
<1>3. (StateInv /\ LookInv) /\ (ToldInv /\ WantedInv) => PeersWereAnnounced
  <2> SUFFICES ASSUME StateInv, ToldInv, WantedInv PROVE PeersWereAnnounced
    OBVIOUS
  <2>1. \A n \in Nodes : Stored(store[n]) \subseteq announced
    BY DEF StateInv, StoresKept, StoreKept
  <2>2. ASSUME NEW c \in Calls, NEW i \in DOMAIN calls[c].ret
        PROVE  \E d \in Calls :
                 /\ calls[d].use = "download" /\ calls[d].by = calls[c].by
                 /\ <<calls[d].target, calls[c].ret[i]>> \in announced
                 /\ d # c => reused > 0
    <3>1. Answered(c, calls[c].ret)
      <4>1. calls[c].ret # <<>>
        BY <2>2
      <4> QED
        BY <4>1 DEF WantedInv, Knows
    <3>2. CASE reused = 0
      <4>1. For(calls[c].target, calls[c].ret)
        BY <3>2 DEF ToldInv, Told, CallTold
      <4> QED
        BY <2>2, <3>1, <4>1 DEF Answered, For
    <3>3. CASE reused # 0
      <4>1. reused > 0
        BY <3>3, KademliaAssumption DEF StateInv, Counts
      <4>2. PICK d \in Calls : Wants(calls[c].by, d) /\ For(calls[d].target, calls[c].ret)
        BY <3>1 DEF Answered, Wanted
      <4> QED
        BY <2>2, <4>1, <4>2 DEF Wants, For
    <3> QED
      BY <3>2, <3>3
  <2> QED
    BY <2>1, <2>2 DEF PeersWereAnnounced
<1>4. Spec => [](StateInv /\ LookInv)
  BY StateInvariant
<1> QED
  BY <1>1, <1>2, <1>3, <1>4, PTL DEF Spec

===============================================================================
