------------------------------- MODULE Kademlia -------------------------------
(***************************************************************************)
(* A network of DHT nodes (dht.go, krpc.go, handler.go): queries and       *)
(* answers as datagrams that may be lost, be late or come in any order,    *)
(* the answers a node expects, and LookUP with its goroutines and          *)
(* channels, as JoinNetwork, GetPeersToDownload, AnnouncePeer and          *)
(* RefreshBucket call it.                                                  *)
(*                                                                         *)
(* There is no clock: a time limit of TimeToDie may pass at any step.  A   *)
(* datagram that is lost is one that nobody ever handles.                  *)
(***************************************************************************)
EXTENDS KStore, RoutingTable

CONSTANTS
  Id,        \* the id of the node at each address
  ALPHA,     \* nodes asked in a round
  K,         \* nodes in an answer
  Calls,     \* calls of the application
  Requests,  \* what each of them may ask: [use, by, target]
  Refreshed, \* bound: <<node, bucket>> whose timer of RefreshBucket runs
  Contacts,  \* <<m, n>>: n heard of m before; m did not hear of n if the answer was lost
  Held,      \* <<key, address>> announced before, for each node that was told
  Bootstrap, \* the address a node joins at
  MaxTid,    \* bound: transaction ids a node draws; 256 in the code
  MaxReuse,  \* bound: draws of an id that was drawn before
  Together,  \* bound: what calls may be for, for one to be made when another was
  Sweepers,  \* bound: nodes that clean up what they expect
  Ticking,   \* bound: <<node, pair>> that grow old
  Mortal,    \* nodes that may go away
  Unplugged  \* nodes whose writes to the socket may fail

Nodes == Addresses

ASSUME KademliaAssumption ==
  /\ Id \in [Nodes -> Ids]
  /\ \A m, n \in Nodes : Id[m] = Id[n] => m = n
  /\ Values = Nodes
  /\ Keys \subseteq Ids
  /\ {ALPHA, K, MaxTid} \subseteq Nat \ {0}
  /\ MaxReuse \in Nat
  /\ Requests \in [Calls -> SUBSET [use : {"join", "download", "announce"},
                                   by : Nodes, target : Ids]]
  /\ \A c \in Calls : \A r \in Requests[c] : r.use = "join" => r.target = Id[r.by]
  /\ Refreshed \subseteq Nodes \X Buckets
  /\ Contacts \subseteq Nodes \X Nodes
  /\ \A n \in Nodes : IsFiniteSet({m \in Nodes : <<m, n>> \in Contacts})
  /\ Held \in [Nodes -> SUBSET Pairs] /\ \A n \in Nodes : IsFiniteSet(Held[n])
  /\ \A c \in Calls : \A r \in Requests[c] : r.use \in {"download", "announce"} => r.target \in Keys
  /\ Bootstrap \in Nodes

VARIABLES
  table,     \* DHT.RoutingTable
  store,     \* DHT.store
  expected,  \* DHT.expectedResponses, by transaction id
  tids,      \* transaction ids drawn, in order
  down,      \* what ended a node's process, or "no"
  net,       \* datagrams on their way
  calls,     \* calls of the application and what LookUP keeps for them
  waiters,   \* goroutines that wait for an answer, each on a channel of its own
  pend,      \* senders on those channels
  fwd,       \* senders on the channel respChan of a round
  announced, \* history: <<key, address>> of each AnnouncePeer
  reused,    \* history: draws of a transaction id that was drawn before
  expired    \* history: <<call, round>> of rounds ended by their time limit

history == <<announced, reused, expired>>
rpc == <<expected, tids, net>>
routines == <<waiters, pend, fwd>>
vars == <<table, store, expected, tids, down, net, calls, waiters, pend, fwd, announced, reused, expired>>

-------------------------------------------------------------------------------
(* Messages and channels. *)

Tids == 1 .. MaxTid
QueryNames == {"ping", "find_node", "get_peers", "announce_peer"}

\* A channel is named by the call, the round and the place in it.
Chan(c, round, i) == <<c, round, i>>

NoEntry == [q |-> "none"]
Awaited(q, to, chan) == [q |-> q, to |-> to, chan |-> chan]

Query(q, from, to, tid, id, target) ==
  [y |-> "q", q |-> q, from |-> from, to |-> to, tid |-> tid, id |-> id, target |-> target]

\* What an answer holds besides the id: nothing, nodes or values.
Answer(m, what, list) ==
  [y |-> "r", from |-> m.to, to |-> m.from, tid |-> m.tid, what |-> what, list |-> list]

Nil == [y |-> "nil"]

Up(n) == down[n] = "no"

\* newTransactionID: one random byte.  Only equality matters, so a fresh id is
\* the next number.
DrawTid(n, t) ==
  /\ \/ t = tids[n] + 1 /\ t \in Tids /\ UNCHANGED reused
     \/ t \in 1 .. tids[n] /\ reused < MaxReuse /\ reused' = reused + 1
  /\ tids' = [tids EXCEPT ![n] = IF t > @ THEN t ELSE @]

NewCall(r) ==
  [use |-> r.use, by |-> r.by, target |-> r.target, bucket |-> 0, pc |-> "begin", round |-> 0,
   nl |-> <<>>, closest |-> [id |-> {}, at |-> r.by], asked |-> <<>>, tid |-> 0,
   todo |-> {}, sent |-> {}, results |-> <<>>, ret |-> <<>>]

Idle == [NewCall([use |-> "none", by |-> Bootstrap, target |-> {}]) EXCEPT !.pc = "idle"]

Init ==
  /\ table = [n \in Nodes |->
       FoldSet(LAMBDA m, t : updateBucketOfNode(t, Id[n], [id |-> Id[m], at |-> m]), EmptyTable,
               {m \in Nodes : <<m, n>> \in Contacts})]
  /\ store = [n \in Nodes |-> FoldSet(LAMBDA p, st : Store(st, p[1], p[2]), NewKStore, Held[n])]
  /\ expected = [n \in Nodes |-> [t \in Tids |-> NoEntry]]
  /\ tids = [n \in Nodes |-> 0]
  /\ down = [n \in Nodes |-> "no"]
  /\ net = {}
  /\ calls = [c \in Calls |-> Idle]
  /\ waiters = {} /\ pend = {} /\ fwd = {}
  /\ announced = UNION {Held[n] : n \in Nodes} /\ reused = 0 /\ expired = {}

-------------------------------------------------------------------------------
(* A node handles a datagram: HandleMessage. *)

Learned(n, id, at) ==
  [table EXCEPT ![n] = updateBucketOfNode(@, Id[n], [id |-> id, at |-> at])]

FindNode(n, target) == getNearestNodes(table[n], Id[n], K, target)

Reply(n, m) ==
  CASE m.q \in {"ping", "announce_peer"} -> Answer(m, "id", <<>>)
    [] m.q = "find_node" -> Answer(m, "nodes", FindNode(n, m.target))
    [] m.q = "get_peers" ->
         LET values == store[n].data[m.target]
         IN  IF values # <<>> THEN Answer(m, "values", values)
             ELSE Answer(m, "nodes", FindNode(n, m.target))

\* Mutant: the branches of get_peers and announce_peer run into each other.
HandleQuery_stores(n, m) ==
  /\ Up(n) /\ m \in net /\ m.y = "q" /\ m.to = n
  /\ net' = (net \ {m}) \cup {Reply(n, m)}
  /\ store' = IF m.q \in {"get_peers", "announce_peer"}
              THEN [store EXCEPT ![n] = Store(@, m.target, m.from)] ELSE store
  /\ table' = Learned(n, m.id, m.from)
  /\ UNCHANGED <<expected, tids, down, calls, routines, history>>

\* ResponsePing, ResponseFindNode, ResponseGetPeers, ResponseAnnouncePeers
HandleQuery(n, m) ==
  /\ Up(n) /\ m \in net /\ m.y = "q" /\ m.to = n
  /\ net' = (net \ {m}) \cup {Reply(n, m)}
  /\ store' = IF m.q = "announce_peer"
              THEN [store EXCEPT ![n] = Store(@, m.target, m.from)] ELSE store
  /\ table' = Learned(n, m.id, m.from)
  /\ UNCHANGED <<expected, tids, down, calls, routines, history>>

\* Does someone wait on the channel, or will when the round is sent?  A sender
\* whose receiver is gone waits for ever and changes nothing.
Heard(chan) ==
  \/ \E w \in waiters : w.chan = chan
  \/ LET c == calls[chan[1]]
     IN  /\ c.pc \in {"write", "register"}
         /\ c.round = chan[2] /\ chan[3] \in DOMAIN c.asked

\* Is the answer what the query asked for?
Fits(e, m) ==
  CASE e.q = "find_node" -> m.what = "nodes"
    [] e.q = "get_peers" -> m.what \in {"nodes", "values"}
    [] OTHER -> TRUE

\* getResponse
HandleResponse(n, m) ==
  LET e    == expected[n][m.tid]
      bad  == e # NoEntry /\ ~(m.from = e.to /\ Fits(e, m))
      good == e # NoEntry /\ ~bad /\ e.q # "announce_peer"
  IN  /\ Up(n) /\ m \in net /\ m.y = "r" /\ m.to = n
      /\ net' = net \ {m}
      /\ expected' = IF bad THEN [expected EXCEPT ![n][m.tid] = NoEntry] ELSE expected
      /\ pend' = IF (bad \/ good) /\ Heard(e.chan)
                 THEN pend \cup {[chan |-> e.chan, resp |-> IF good THEN m ELSE Nil]}
                 ELSE pend
      /\ table' = Learned(n, Id[m.from], m.from)
      /\ UNCHANGED <<store, tids, down, calls, waiters, fwd, history>>

-------------------------------------------------------------------------------
(* Calls. *)

Running(c) == calls[c].pc \notin {"idle", "done"} /\ Up(calls[c].by)

QueryName(call) == IF call.use = "download" THEN "get_peers" ELSE "find_node"

\* LookUP up to its loop.
Begun(call) ==
  LET n  == call.by
      nl == getNearestNodes(table[n], Id[n], ALPHA, call.target)
  IN  IF nl = <<>> THEN [call EXCEPT !.pc = "done"]
      ELSE [call EXCEPT !.pc = "write", !.round = 1, !.nl = nl, !.closest = nl[1]]

\* Is there a call within the bound?
MayCall(use) ==
  \A d \in Calls : calls[d].pc # "idle" => {use, calls[d].use} \subseteq Together

\* The application calls; GetPeersToDownload looks into its own store first.
Call(c, r) ==
  LET new  == NewCall(r)
      mine == IF r.use = "download" THEN store[r.by].data[r.target] ELSE <<>>
  IN  /\ calls[c].pc = "idle" /\ Up(r.by)
      /\ MayCall(r.use)
      /\ calls' = [calls EXCEPT ![c] =
           CASE r.use = "join" -> [new EXCEPT !.pc = "ping"]
             [] mine # <<>> -> [new EXCEPT !.pc = "done", !.ret = mine]
             [] OTHER -> Begun(new)]
      /\ UNCHANGED <<table, store, rpc, down, routines, history>>

\* RefreshBucket, when its timer runs out and the bucket did not change lately.
RefreshBucket(c, n, b) ==
  /\ calls[c].pc = "idle" /\ Up(n)
  /\ MayCall("refresh")
  /\ \E id \in getRandomIDFromBucket(Id[n], b) :
       calls' = [calls EXCEPT ![c] =
         Begun([NewCall([use |-> "refresh", by |-> n, target |-> id]) EXCEPT !.bucket = b])]
  /\ UNCHANGED <<table, store, rpc, down, routines, history>>

\* SendMessage, first half: the datagram is written.  LookUP sends the id of the
\* node it asks, where Ping sends its own.
WriteQuery(c, t) ==
  LET call == calls[c]
      to   == call.nl[Len(call.asked) + 1]
  IN  /\ Running(c) /\ DrawTid(call.by, t)
      /\ \/ /\ call.pc = "ping"
            /\ net' = net \cup {Query("ping", call.by, Bootstrap, t, Id[call.by], {})}
            /\ calls' = [calls EXCEPT ![c].pc = "pinged", ![c].asked = <<t>>]
         \/ /\ call.pc = "write"
            /\ net' = net \cup {Query(QueryName(call), call.by, to.at, t, to.id, call.target)}
            /\ calls' = [calls EXCEPT ![c].pc = "register", ![c].asked = Append(@, t)]
      /\ UNCHANGED <<table, store, expected, down, routines, announced, expired>>

\* ... or it is not: SendMessage's error makes LookUP return, and Ping reads the
\* channel of the nil *ExpectedResponse that comes with it.
WriteFails(c, t) ==
  LET call == calls[c]
  IN  /\ Running(c) /\ call.by \in Unplugged /\ DrawTid(call.by, t)
      /\ \/ /\ call.pc = "ping"
            /\ down' = [down EXCEPT ![call.by] = "ping"]
            /\ UNCHANGED calls
         \/ /\ call.pc = "write"
            /\ calls' = [calls EXCEPT ![c].pc = "done", ![c].asked = <<>>]
            /\ UNCHANGED down
      /\ UNCHANGED <<table, store, expected, net, routines, announced, expired>>

\* ... and the second half: the answer is expected from now on.  After the last query
\* of a round each answer gets a goroutine to wait for it.
Register(c) ==
  LET call == calls[c]
      i    == Len(call.asked)
      t    == call.asked[i]
      chan == Chan(c, call.round, i)
      last == i = Min({ALPHA, Len(call.nl)})
  IN  /\ Running(c)
      /\ \/ /\ call.pc = "register"
            /\ expected' = [expected EXCEPT ![call.by][t] =
                 Awaited(QueryName(call), call.nl[i].at, chan)]
            /\ calls' = [calls EXCEPT ![c].pc = IF last THEN "collect" ELSE "write"]
            /\ waiters' = IF last
                 THEN waiters \cup {[chan |-> Chan(c, call.round, j), tid |-> call.asked[j], q |-> "lookup"]
                                      : j \in 1 .. i}
                 ELSE waiters
         \/ /\ call.pc = "pinged"
            /\ expected' = [expected EXCEPT ![call.by][t] = Awaited("ping", Bootstrap, chan)]
            /\ calls' = [calls EXCEPT ![c].pc = "pong"]
            /\ waiters' = waiters \cup {[chan |-> chan, tid |-> t, q |-> "ping"]}
      /\ UNCHANGED <<table, store, tids, down, net, pend, fwd, history>>

Caller(chan) == calls[chan[1]].by
Forgotten(n, t) == [expected EXCEPT ![n][t] = NoEntry]

\* What Ping and the goroutines of LookUP do when they are done waiting: a
\* join goes on to its LookUP, an answer of a round goes on to respChan.
WaiterReceives(w, p) ==
  LET n == Caller(w.chan)
      c == w.chan[1]
  IN  /\ Up(n) /\ w \in waiters /\ p \in pend /\ p.chan = w.chan
      /\ waiters' = waiters \ {w}
      /\ pend' = {x \in pend : x.chan # w.chan}
      /\ fwd' = IF w.q = "lookup" /\ p.resp # Nil THEN fwd \cup {p} ELSE fwd
      /\ expected' = IF w.q = "lookup" /\ p.resp = Nil THEN Forgotten(n, w.tid) ELSE expected
      /\ calls' = IF w.q = "ping"
                  THEN [calls EXCEPT ![c] = Begun([@ EXCEPT !.asked = <<>>])] ELSE calls
      /\ UNCHANGED <<table, store, tids, down, net, history>>

WaiterTimesOut(w) ==
  LET n == Caller(w.chan)
      c == w.chan[1]
  IN  /\ Up(n) /\ w \in waiters
      /\ waiters' = waiters \ {w}
      /\ pend' = {x \in pend : x.chan # w.chan}
      /\ expected' = Forgotten(n, w.tid)
      /\ calls' = IF w.q = "ping"
                  THEN [calls EXCEPT ![c] = Begun([@ EXCEPT !.asked = <<>>])] ELSE calls
      /\ UNCHANGED <<table, store, tids, down, net, fwd, history>>

-------------------------------------------------------------------------------
(* The end of a round. *)

Collecting(chan) == LET c == calls[chan[1]] IN c.pc = "collect" /\ c.round = chan[2]

\* An answer is added to the list.  An empty list of nodes is one string of no
\* bytes, which NewNodeFromCompactInfo cuts out of range.
Absorb(acc, m) ==
  IF acc.end # "no" THEN acc
  ELSE CASE m.what = "values" -> [acc EXCEPT !.end = "values", !.list = m.list]
         [] m.what # "values" /\ m.list = <<>> -> [acc EXCEPT !.end = "panic"]
         [] OTHER -> [acc EXCEPT !.list = AppendUnique(@, m.list)]

\* LookUP from the end of its WAIT loop to the next round or its return.
Rounded(call, results) ==
  LET acc == FoldLeft(LAMBDA a, m : Absorb(a, m), [end |-> "no", list |-> call.nl], results)
      nl  == Sorted(acc.list, call.target)
  IN  CASE acc.end = "panic" -> [call EXCEPT !.pc = "panic", !.asked = <<>>, !.results = <<>>]
        [] acc.end = "values" ->
             [call EXCEPT !.pc = "done", !.ret = acc.list, !.asked = <<>>, !.results = <<>>]
        [] acc.end = "no" /\ nl[1] = call.closest ->
             [call EXCEPT !.pc = IF call.use = "announce" THEN "message" ELSE "done",
                          !.nl = nl, !.asked = <<>>, !.results = <<>>]
        [] OTHER ->
             [call EXCEPT !.pc = "write", !.round = @ + 1, !.nl = nl, !.closest = nl[1],
                          !.asked = <<>>, !.results = <<>>]

EndRound(c, results) ==
  \E call \in {Rounded(calls[c], results)} :
    /\ calls' = [calls EXCEPT ![c] = call]
    /\ down' = IF call.pc = "panic" THEN [down EXCEPT ![call.by] = "empty"] ELSE down

\* Mutant: the round ends one answer early.
Collect_early(c, f) ==
  LET results == Append(calls[c].results, f.resp)
  IN  /\ Running(c) /\ f \in fwd /\ f.chan[1] = c /\ Collecting(f.chan)
      /\ fwd' = fwd \ {f}
      /\ IF Len(results) >= Len(calls[c].asked) - 1
         THEN EndRound(c, results)
         ELSE calls' = [calls EXCEPT ![c].results = results] /\ UNCHANGED down
      /\ UNCHANGED <<table, store, rpc, waiters, pend, history>>

\* A result is received; with as many as were asked for the round ends.
Collect(c, f) ==
  LET results == Append(calls[c].results, f.resp)
  IN  /\ Running(c) /\ f \in fwd /\ f.chan[1] = c /\ Collecting(f.chan)
      /\ fwd' = fwd \ {f}
      /\ IF Len(results) = Len(calls[c].asked)
         THEN EndRound(c, results)
         ELSE calls' = [calls EXCEPT ![c].results = results] /\ UNCHANGED down
      /\ UNCHANGED <<table, store, rpc, waiters, pend, history>>

\* Mutant: the time limit is given up once a result is there.
CollectTimesOut_first(c) ==
  /\ Running(c) /\ calls[c].pc = "collect" /\ calls[c].results = <<>>
  /\ EndRound(c, calls[c].results)
  /\ expired' = expired \cup {<<c, calls[c].round>>}
  /\ UNCHANGED <<table, store, rpc, routines, announced, reused>>

CollectTimesOut(c) ==
  /\ Running(c) /\ calls[c].pc = "collect"
  /\ EndRound(c, calls[c].results)
  /\ expired' = expired \cup {<<c, calls[c].round>>}
  /\ UNCHANGED <<table, store, rpc, routines, announced, reused>>

\* respChan is closed: a sender panics.
SendOnClosed(f) ==
  LET n == Caller(f.chan)
  IN  /\ Up(n) /\ f \in fwd /\ ~Collecting(f.chan)
      /\ down' = [down EXCEPT ![n] = "closed"]
      /\ UNCHANGED <<table, store, rpc, calls, routines, history>>

-------------------------------------------------------------------------------
(* AnnouncePeer after its LookUP: one message, with one transaction id, to all. *)

MakeAnnounce(c, t) ==
  LET call == calls[c]
  IN  /\ Running(c) /\ call.pc = "message"
      /\ DrawTid(call.by, t)
      /\ calls' = [calls EXCEPT ![c].pc = "announce", ![c].tid = t, ![c].todo = DOMAIN call.nl]
      /\ announced' = announced \cup {<<call.target, call.by>>}
      /\ UNCHANGED <<table, store, expected, down, net, routines, expired>>

\* Each goroutine writes it ...
WriteAnnounce(c, i) ==
  LET call == calls[c]
  IN  /\ Running(c) /\ call.pc = "announce" /\ i \in call.todo
      /\ net' = net \cup {Query("announce_peer", call.by, call.nl[i].at, call.tid,
                                Id[call.by], call.target)}
      /\ calls' = [calls EXCEPT ![c].todo = @ \ {i}, ![c].sent = @ \cup {i}]
      /\ UNCHANGED <<table, store, expected, tids, down, routines, history>>

\* ... and returns if that fails; ...
AnnounceFails(c, i) ==
  LET call == calls[c]
  IN  /\ Running(c) /\ call.pc = "announce" /\ i \in call.todo /\ call.by \in Unplugged
      /\ calls' = [calls EXCEPT ![c].todo = @ \ {i},
                                ![c].pc = IF call.todo = {i} /\ call.sent = {} THEN "done" ELSE @]
      /\ UNCHANGED <<table, store, rpc, down, routines, history>>

\* ... it expects the answer under the id of them all, and waits: getResponse
\* sends it nothing when the answer is good.
RegisterAnnounce(c, i) ==
  LET call == calls[c]
      chan == Chan(c, call.round + 1, i)
  IN  /\ Running(c) /\ call.pc = "announce" /\ i \in call.sent
      /\ expected' = [expected EXCEPT ![call.by][call.tid] =
                        Awaited("announce_peer", call.nl[i].at, chan)]
      /\ waiters' = waiters \cup {[chan |-> chan, tid |-> call.tid, q |-> "announce"]}
      /\ calls' = [calls EXCEPT ![c].sent = @ \ {i},
                                ![c].pc = IF call.sent = {i} /\ call.todo = {} THEN "done" ELSE @]
      /\ UNCHANGED <<table, store, tids, down, net, pend, fwd, history>>

-------------------------------------------------------------------------------
(* Time, and nodes that go away. *)

\* CheckExpectedResponses: an answer whose time is up is no longer expected.
Sweep(n, t) ==
  /\ Up(n) /\ n \in Sweepers /\ expected[n][t] # NoEntry
  /\ expected' = Forgotten(n, t)
  /\ UNCHANGED <<table, store, tids, down, net, calls, routines, history>>

Expire(n, p) ==
  /\ Up(n) /\ <<n, p>> \in Ticking /\ p \in store[n].timed \ store[n].due
  /\ store' = [store EXCEPT ![n] = TimePasses(@, p)]
  /\ UNCHANGED <<table, rpc, down, calls, routines, history>>

\* checkForExpirationTime
CheckForExpirationTime(n) ==
  /\ Up(n) /\ store[n].due # {}
  /\ store' = [store EXCEPT ![n] = ExpireKeys(@)]
  /\ UNCHANGED <<table, rpc, down, calls, routines, history>>

\* A node is switched off, or the runtime ends it: expectedResponses is written
\* by goroutines without a lock.
Leave(n) ==
  /\ Up(n) /\ n \in Mortal
  /\ down' = [down EXCEPT ![n] = "left"]
  /\ UNCHANGED <<table, store, rpc, calls, routines, history>>

Next ==
  \/ \E n \in Nodes, m \in net : HandleQuery(n, m)
  \/ \E n \in Nodes, m \in net : HandleResponse(n, m)
  \/ \E c \in Calls : \E r \in Requests[c] : Call(c, r)
  \/ \E c \in Calls, r \in Refreshed : RefreshBucket(c, r[1], r[2])
  \/ \E c \in Calls, t \in Tids : WriteQuery(c, t)
  \/ \E c \in Calls, t \in Tids : WriteFails(c, t)
  \/ \E c \in Calls : Register(c)
  \/ \E c \in Calls, f \in fwd : Collect(c, f)
  \/ \E c \in Calls : CollectTimesOut(c)
  \/ \E c \in Calls, t \in Tids : MakeAnnounce(c, t)
  \/ \E c \in Calls : \E i \in calls[c].todo : WriteAnnounce(c, i) \/ AnnounceFails(c, i)
  \/ \E c \in Calls : \E i \in calls[c].sent : RegisterAnnounce(c, i)
  \/ \E w \in waiters, p \in pend : WaiterReceives(w, p)
  \/ \E w \in waiters : WaiterTimesOut(w)
  \/ \E f \in fwd : SendOnClosed(f)
  \/ \E n \in Nodes, t \in Tids : Sweep(n, t)
  \/ \E n \in Nodes, p \in Pairs : Expire(n, p)
  \/ \E n \in Nodes : CheckForExpirationTime(n)
  \/ \E n \in Nodes : Leave(n)

\* The scheduler runs every goroutine, and a time limit passes in the end.
Fairness ==
  /\ \A c \in Calls :
       /\ WF_vars(\E t \in Tids : WriteQuery(c, t))
       /\ WF_vars(Register(c))
       /\ WF_vars(CollectTimesOut(c))
       /\ WF_vars(\E t \in Tids : MakeAnnounce(c, t))
       /\ WF_vars(\E i \in calls[c].todo : WriteAnnounce(c, i))
       /\ WF_vars(\E i \in calls[c].sent : RegisterAnnounce(c, i))
  /\ \A c \in Calls : WF_vars(\E w \in waiters : w.q = "ping" /\ w.chan[1] = c /\ WaiterTimesOut(w))

Spec == Init /\ [][Next]_vars
FairSpec == Spec /\ Fairness

-------------------------------------------------------------------------------
(* Properties. *)

Chans == Calls \X Nat \X Nat

MessageOK(m) ==
  /\ m.from \in Nodes /\ m.to \in Nodes /\ m.tid \in Tids
  /\ \/ m.y = "q" /\ m.q \in QueryNames /\ m.id \in Ids /\ m.target \in Ids
     \/ m.y = "r" /\ m.what \in {"id", "nodes"} /\ m.list \in Seq(Entries)
     \/ m.y = "r" /\ m.what = "values" /\ m.list \in Seq(Values)

CallOK(c) ==
  /\ c.by \in Nodes /\ c.target \in Ids /\ c.bucket \in Buckets /\ c.round \in Nat
  /\ c.pc \in {"idle", "ping", "pinged", "pong", "write", "register", "collect", "panic",
               "message", "announce", "done"}
  /\ c.nl \in Seq(Entries) /\ c.closest \in Entries /\ c.asked \in Seq(Tids)
  /\ c.todo \cup c.sent \subseteq DOMAIN c.nl /\ c.ret \in Seq(Values)
  /\ \A i \in DOMAIN c.results : MessageOK(c.results[i])

\* The types of the state.  A table has each id once, in the bucket of the id:
\* getNearestNodes counts on it (routingTable.go:156-162).
TypeOK ==
  /\ table \in [Nodes -> Tables]
  /\ \A n \in Nodes, b \in Buckets : OneEach(table[n][b], Id[n], b)
  /\ store \in [Nodes -> KStores]
  /\ expected \in [Nodes -> [Tids -> {NoEntry} \cup [q : QueryNames, to : Nodes, chan : Chans]]]
  /\ tids \in [Nodes -> 0 .. MaxTid]
  /\ down \in [Nodes -> {"no", "left", "closed", "empty", "ping"}]
  /\ \A m \in net : MessageOK(m)
  /\ \A c \in Calls : CallOK(calls[c]) /\ Len(calls[c].results) <= Len(calls[c].asked)
  /\ \A w \in waiters : w.chan \in Chans /\ w.tid \in Tids /\ w.q \in {"ping", "lookup", "announce"}
  /\ \A p \in pend \cup fwd : p.chan \in Chans /\ (p.resp = Nil \/ MessageOK(p.resp))
  /\ announced \subseteq Pairs /\ reused \in 0 .. MaxReuse /\ expired \subseteq Calls \X Nat

\* The lists of a store and its two maps of times agree through every order of
\* announces, times that pass and runs of ExpireKeys: no address stays in a list
\* without a time at which it goes (kStore.go:42-82, 146-164).
StoreAgrees == \A n \in Nodes : Agrees(store[n])

\* What a node stores was announced for that very key, and so was what a
\* download is told, however late answers are and whoever else asks.  Only when a
\* transaction id was drawn twice may the answer to one download of a node be
\* taken for that to another (dht.go:116, 218-223; handler.go:175-214).
PeersWereAnnounced ==
  /\ \A n \in Nodes : Stored(store[n]) \subseteq announced
  /\ \A c \in Calls : \A i \in DOMAIN calls[c].ret : \E d \in Calls :
       /\ calls[d].use = "download" /\ calls[d].by = calls[c].by
       /\ <<calls[d].target, calls[c].ret[i]>> \in announced
       /\ d # c => reused > 0

\* A round that LookUP ended because it had counted every answer has nobody left
\* who could send on the channel it closed (dht.go:193-195): only the time limit
\* can make a late answer end the process.
CountedRoundIsOver ==
  \A x \in {w \in waiters : w.q = "lookup"} \cup fwd :
    Up(Caller(x.chan)) => Collecting(x.chan) \/ <<x.chan[1], x.chan[2]>> \in expired

\* The refresh of a bucket asks for an id that lies in it or nearer to the node
\* (nearer when the bit came out wrong); only that of every eighth bucket may go
\* farther, to the seven above it (routingTable.go:191-224, dht.go:398-407).
RefreshStaysNear ==
  \A c \in Calls : LET call == calls[c] IN call.use = "refresh" =>
    getFirstDifBitBucketIndex(Id[call.by], call.target)
      \in 0 .. (IF call.bucket % W = 0 THEN call.bucket + W - 1 ELSE call.bucket)

\* Another round begins only from a node closer to the target than the one the
\* last round began from (dht.go:238-246).
RoundsGetCloser ==
  [][\A c \in Calls : calls[c].round > 0 /\ calls'[c].round = calls[c].round + 1 =>
       Nearer(calls'[c].closest.id, calls[c].closest.id, calls[c].target)]_vars

\* Every call returns, whatever is lost and whoever goes away, unless its own node
\* ends (dht.go:88, 127-249).
CallsReturn ==
  \A c \in Calls : calls[c].pc # "idle" ~> (calls[c].pc = "done" \/ ~Up(calls[c].by))
===============================================================================
