---------------------------- MODULE KademliaProofs ----------------------------
(***************************************************************************)
(* Proofs about Kademlia: a round of LookUP that counted its answers is    *)
(* over, and a refresh stays near its bucket.                              *)
(***************************************************************************)
EXTENDS Kademlia, KademliaDataProofs

-------------------------------------------------------------------------------
(* The inductive invariant. *)

CallFields == {"use", "by", "target", "bucket", "pc", "round", "nl", "closest", "asked", "tid",
               "todo", "sent", "results", "ret"}

\* The fields of a call, and those that count.
Shape(call) ==
  /\ DOMAIN call = CallFields
  /\ call.by \in Nodes /\ call.round \in Nat
  /\ call.asked \in Seq(Tids) /\ call.results \in Seq(Range(call.results))

\* What RefreshStaysNear says of a call.
Near(call) ==
  call.use = "refresh" =>
    getFirstDifBitBucketIndex(Id[call.by], call.target)
      \in 0 .. (IF call.bucket % W = 0 THEN call.bucket + W - 1 ELSE call.bucket)

\* The channels on which an answer of a round may still come.
Live == {w.chan : w \in {v \in waiters : v.q = "lookup"}} \cup {f.chan : f \in fwd}

\* Those of one call, and the places in one round of it.
LiveOf(live, c) == {x \in live : x[1] = c}
Places(live, c, round) == {x[3] : x \in {y \in live : y[1] = c /\ y[2] = round}}

\* An answer that may still come is of a round that was sent: of the one that is
\* collected, or the time limit of its round passed.  In the round that is
\* collected there are not more of them than LookUP still waits for.
Turn(c, call, live, state, exp) ==
  /\ \A x \in LiveOf(live, c) :
       /\ call.pc \notin {"idle", "ping", "pinged", "pong"}
       /\ x[2] \in 0 .. call.round
       /\ call.pc \in {"write", "register"} => x[2] < call.round
       /\ state = "no" => (call.pc = "collect" /\ x[2] = call.round) \/ <<c, x[2]>> \in exp
  /\ call.pc # "collect" => call.results = <<>>
  /\ call.pc = "collect" =>
       /\ Places(live, c, call.round) \subseteq 1 .. Len(call.asked)
       /\ Len(call.results) + Cardinality(Places(live, c, call.round)) <= Len(call.asked)

\* One goroutine or sender to a channel; a Ping has the only one of its call.
Waiting ==
  /\ \A x \in {w \in waiters : w.q # "announce"} \cup fwd : x.chan \in Calls \X Nat \X Nat
  /\ \A w \in waiters : w.q \in {"ping", "lookup", "announce"}
  /\ \A w \in waiters : w.q = "ping" => calls[w.chan[1]].pc = "pong"
  /\ \A w, v \in waiters : w.q = "ping" /\ v.q = "ping" /\ w.chan[1] = v.chan[1] => w = v
  /\ \A w, v \in waiters : w.q = "lookup" /\ v.q = "lookup" /\ w.chan = v.chan => w = v
  /\ \A f, g \in fwd : f.chan = g.chan => f = g
  /\ \A w \in waiters, f \in fwd : w.q = "lookup" => w.chan # f.chan

\* CountedRoundIsOver is not inductive: that no answer is left when as many came
\* as were asked for is a count over the goroutines and the senders, each of
\* which must have a place of its own.
LookInv ==
  /\ DOMAIN calls = Calls
  /\ \A c \in Calls : Shape(calls[c]) /\ Near(calls[c])
  /\ down \in [Nodes -> {"no", "left", "closed", "empty", "ping"}]
  /\ Waiting
  /\ \A c \in Calls : Turn(c, calls[c], Live, down[calls[c].by], expired)
-------------------------------------------------------------------------------
(* What LookUP makes of a call. *)

\* The fields a call keeps.
Same(new, call) ==
  /\ DOMAIN new = DOMAIN call
  /\ new.use = call.use /\ new.by = call.by /\ new.target = call.target /\ new.bucket = call.bucket

\* LookUP begins its first round, or has nobody to ask.
LEMMA BegunShape ==
  ASSUME NEW call, DOMAIN call = CallFields
  PROVE  LET new == Begun(call) IN
         /\ Same(new, call) /\ new.asked = call.asked /\ new.results = call.results
         /\ \/ new.pc = "done" /\ new.round = call.round
            \/ new.pc = "write" /\ new.round = 1
<1> DEFINE nl == getNearestNodes(table[call.by], Id[call.by], ALPHA, call.target)
<1>1. Begun(call) = IF nl = <<>> THEN [call EXCEPT !.pc = "done"]
                    ELSE [call EXCEPT !.pc = "write", !.round = 1, !.nl = nl, !.closest = nl[1]]
  BY DEF Begun
<1> HIDE DEF nl
<1> QED
  BY <1>1 DEF CallFields, Same

\* A round ends: another one begins, or LookUP does not wait any more.
LEMMA RoundedShape ==
  ASSUME NEW call, DOMAIN call = CallFields, NEW results
  PROVE  LET new == Rounded(call, results) IN
         /\ Same(new, call) /\ new.asked = <<>> /\ new.results = <<>>
         /\ \/ new.pc \in {"panic", "done", "message"} /\ new.round = call.round
            \/ new.pc = "write" /\ new.round = call.round + 1
<1> DEFINE acc == FoldLeft(LAMBDA a, m : Absorb(a, m), [end |-> "no", list |-> call.nl], results)
           nl == Sorted(acc.list, call.target)
           new == Rounded(call, results)
<1>1. \/ new = [call EXCEPT !.pc = "panic", !.asked = <<>>, !.results = <<>>]
      \/ new = [call EXCEPT !.pc = "done", !.ret = acc.list, !.asked = <<>>, !.results = <<>>]
      \/ new = [call EXCEPT !.pc = IF call.use = "announce" THEN "message" ELSE "done",
                            !.nl = nl, !.asked = <<>>, !.results = <<>>]
      \/ new = [call EXCEPT !.pc = "write", !.round = @ + 1, !.nl = nl, !.closest = nl[1],
                            !.asked = <<>>, !.results = <<>>]
  BY Zenon DEF Rounded
<1> HIDE DEF acc, nl, new
<1>2. /\ Same(new, call) /\ new.asked = <<>> /\ new.results = <<>>
      /\ \/ new.pc \in {"panic", "done", "message"} /\ new.round = call.round
         \/ new.pc = "write" /\ new.round = call.round + 1
  BY ZenonT(30), <1>1 DEF CallFields, Same
<1> QED
  BY <1>2 DEF new

-------------------------------------------------------------------------------
(* Steps that leave most of it alone. *)

\* Fewer answers that may come, nodes that go away and time limits that pass do
\* a call no harm.
LEMMA TurnKeeps ==
  ASSUME NEW c, NEW call, Shape(call), NEW live, NEW live2, NEW state, NEW state2, NEW exp, NEW exp2,
         Turn(c, call, live, state, exp),
         LiveOf(live2, c) \subseteq LiveOf(live, c), state2 = "no" => state = "no", exp \subseteq exp2
  PROVE  Turn(c, call, live2, state2, exp2)
<1>1. ASSUME call.pc = "collect"
      PROVE  /\ Places(live2, c, call.round) \subseteq 1 .. Len(call.asked)
             /\ Len(call.results) + Cardinality(Places(live2, c, call.round)) <= Len(call.asked)
  <2> DEFINE P == Places(live, c, call.round)  P2 == Places(live2, c, call.round)
  <2>1. P2 \subseteq P
    BY DEF Places, LiveOf
  <2>2. P \subseteq 1 .. Len(call.asked) /\ Len(call.results) + Cardinality(P) <= Len(call.asked)
    BY <1>1 DEF Turn
  <2>3. Len(call.asked) \in Nat /\ Len(call.results) \in Nat
    BY LenProperties DEF Shape
  <2> HIDE DEF P, P2
  <2>4. IsFiniteSet(P)
    <3>1. IsFiniteSet(1 .. Len(call.asked))
      BY <2>3, FS_Interval
    <3> QED
      BY <2>2, <3>1, FS_Subset
  <2>5. Cardinality(P2) <= Cardinality(P) /\ Cardinality(P) \in Nat /\ Cardinality(P2) \in Nat
    BY <2>1, <2>4, FS_Subset, FS_CardinalityType
  <2>6. P2 \subseteq 1 .. Len(call.asked) /\ Len(call.results) + Cardinality(P2) <= Len(call.asked)
    BY <2>1, <2>2, <2>3, <2>5
  <2> QED
    BY <2>6 DEF P2
<1>2. \A x \in LiveOf(live2, c) :
        /\ call.pc \notin {"idle", "ping", "pinged", "pong"}
        /\ x[2] \in 0 .. call.round
        /\ call.pc \in {"write", "register"} => x[2] < call.round
        /\ state2 = "no" => (call.pc = "collect" /\ x[2] = call.round) \/ <<c, x[2]>> \in exp2
  BY DEF Turn
<1>3. call.pc # "collect" => call.results = <<>>
  BY DEF Turn
<1> QED
  BY <1>1, <1>2, <1>3 DEF Turn

\* A call none of whose answers may come.
LEMMA TurnEmpty ==
  ASSUME NEW c, NEW call, NEW live, NEW state, NEW exp,
         LiveOf(live, c) = {}, call.pc # "collect", call.results = <<>>
  PROVE  Turn(c, call, live, state, exp)
  BY DEF Turn

\* Goroutines and senders that go away.
LEMMA WaitingShrinks ==
  ASSUME Waiting, waiters' \subseteq waiters, fwd' \subseteq fwd,
         \A w \in waiters' : w.q = "ping" => calls'[w.chan[1]].pc = "pong"
  PROVE  Waiting' /\ Live' \subseteq Live
<1>1. Waiting'
  BY DEF Waiting
<1>2. Live' \subseteq Live
  BY DEF Live
<1> QED
  BY <1>1, <1>2

\* One call changes.
LEMMA CallKeeps ==
  ASSUME LookInv, NEW c \in Calls, NEW call, calls' = [calls EXCEPT ![c] = call],
         Shape(call), Near(call), Waiting',
         down' \in [Nodes -> {"no", "left", "closed", "empty", "ping"}],
         \A n \in Nodes : Up(n)' => Up(n), expired \subseteq expired',
         \A d \in Calls \ {c} : LiveOf(Live', d) \subseteq LiveOf(Live, d),
         Turn(c, call, Live', down'[call.by], expired')
  PROVE  LookInv'
<1>1. DOMAIN calls = Calls /\ DOMAIN calls' = Calls /\ calls'[c] = call
      /\ \A d \in Calls \ {c} : calls'[d] = calls[d]
  BY DEF LookInv
<1>2. \A d \in Calls : Shape(calls'[d]) /\ Near(calls'[d])
  BY <1>1 DEF LookInv
<1>3. ASSUME NEW d \in Calls PROVE Turn(d, calls'[d], Live', down'[calls'[d].by], expired')
  <2>1. CASE d = c
    BY <1>1, <2>1 DEF Up
  <2>2. CASE d # c
    <3>1. calls'[d] = calls[d] /\ Shape(calls[d]) /\ calls[d].by \in Nodes
          /\ Turn(d, calls[d], Live, down[calls[d].by], expired)
      BY <1>1, <2>2 DEF LookInv, Shape
    <3>2. down'[calls[d].by] = "no" => down[calls[d].by] = "no"
      BY <3>1 DEF Up
    <3>3. LiveOf(Live', d) \subseteq LiveOf(Live, d)
      BY <2>2
    <3>4. Turn(d, calls[d], Live', down'[calls[d].by], expired')
      BY <3>1, <3>2, <3>3, TurnKeeps
    <3> QED
      BY <3>1, <3>4
  <2> QED
    BY <2>1, <2>2
<1>4. (\A d \in Calls : Turn(d, calls[d], Live, down[calls[d].by], expired))'
  BY <1>3 DEF Up
<1>5. (\A d \in Calls : Shape(calls[d]) /\ Near(calls[d]))'
  BY <1>2
<1> QED
  BY <1>1, <1>4, <1>5 DEF LookInv

\* No call changes.
LEMMA StillKeeps ==
  ASSUME LookInv, calls' = calls, Waiting',
         down' \in [Nodes -> {"no", "left", "closed", "empty", "ping"}],
         \A n \in Nodes : Up(n)' => Up(n), expired \subseteq expired',
         \A d \in Calls : LiveOf(Live', d) \subseteq LiveOf(Live, d)
  PROVE  LookInv'
<1>1. ASSUME NEW d \in Calls PROVE Turn(d, calls'[d], Live', down'[calls'[d].by], expired')
  <2>1. calls'[d] = calls[d] /\ Shape(calls[d]) /\ calls[d].by \in Nodes
        /\ Turn(d, calls[d], Live, down[calls[d].by], expired)
    BY DEF LookInv, Shape
  <2>2. down'[calls[d].by] = "no" => down[calls[d].by] = "no"
    BY <2>1 DEF Up
  <2>3. Turn(d, calls[d], Live', down'[calls[d].by], expired')
    BY <2>1, <2>2, TurnKeeps
  <2> QED
    BY <2>1, <2>3
<1>2. (\A d \in Calls : Turn(d, calls[d], Live, down[calls[d].by], expired))'
  BY <1>1 DEF Up
<1>3. (\A d \in Calls : Shape(calls[d]) /\ Near(calls[d]))'
  BY DEF LookInv
<1> QED
  BY <1>2, <1>3 DEF LookInv

\* Steps that no call takes part in.
LEMMA QuietKeeps ==
  ASSUME LookInv, UNCHANGED <<calls, waiters, fwd, expired>>,
         down' \in [Nodes -> {"no", "left", "closed", "empty", "ping"}],
         \A n \in Nodes : Up(n)' => Up(n)
  PROVE  LookInv'
<1>1. Waiting' /\ Live' = Live
  BY DEF LookInv, Waiting, Live
<1> QED
  BY <1>1, StillKeeps

\* Steps of one call that sends or receives nothing on a channel.
LEMMA OneCallKeeps ==
  ASSUME LookInv, NEW c \in Calls, NEW call, calls' = [calls EXCEPT ![c] = call],
         Shape(call), Near(call), calls[c].pc # "pong", UNCHANGED <<waiters, fwd, down, expired>>,
         Turn(c, call, Live, down[call.by], expired)
  PROVE  LookInv'
<1>1. \A w \in waiters : w.q = "ping" => calls'[w.chan[1]].pc = "pong"
  BY DEF LookInv, Waiting
<1>2. Waiting' /\ Live' = Live
  BY <1>1, WaitingShrinks DEF LookInv, Live
<1>3. /\ down' \in [Nodes -> {"no", "left", "closed", "empty", "ping"}]
      /\ \A n \in Nodes : Up(n)' => Up(n)
      /\ down' = down /\ expired' = expired
  BY DEF LookInv, Up
<1> QED
  BY <1>2, <1>3, CallKeeps

-------------------------------------------------------------------------------
(* The steps of a call. *)

\* What is empty is a sequence of what it holds.
LEMMA EmptyShape == <<>> \in Seq(Range(<<>>)) /\ <<>> \in Seq(Tids) /\ Len(<<>>) = 0
  BY EmptySeq

\* A call that was not made yet, or not answered, has no round.
LEMMA NoRound ==
  ASSUME LookInv, NEW c \in Calls, calls[c].pc \in {"idle", "ping", "pinged", "pong"}
  PROVE  LiveOf(Live, c) = {}
  BY DEF LookInv, Turn

\* A new call.
LEMMA NewShape ==
  ASSUME NEW r, r.by \in Nodes
  PROVE  LET new == NewCall(r) IN
         /\ DOMAIN new = CallFields /\ Shape(new)
         /\ new.use = r.use /\ new.by = r.by /\ new.target = r.target /\ new.results = <<>>
         /\ new.pc = "begin" /\ new.bucket = 0 /\ new.round = 0
<1> DEFINE new == NewCall(r)
<1>1. /\ DOMAIN new = CallFields
      /\ new.use = r.use /\ new.by = r.by /\ new.target = r.target
      /\ new.results = <<>> /\ new.asked = <<>>
      /\ new.pc = "begin" /\ new.bucket = 0 /\ new.round = 0
  BY DEF NewCall, CallFields
<1> HIDE DEF new
<1>2. Shape(new)
  BY <1>1, EmptyShape DEF Shape
<1> QED
  BY <1>1, <1>2 DEF new

\* A call that LookUP began, and that no answer came for yet.
LEMMA BegunKeeps ==
  ASSUME NEW call, Shape(call), Near(call), call.results = <<>>,
         NEW c, NEW live, NEW state, NEW exp, LiveOf(live, c) = {}
  PROVE  LET new == Begun(call) IN
         Shape(new) /\ Near(new) /\ new.by = call.by /\ Turn(c, new, live, state, exp)
<1> DEFINE new == Begun(call)
<1>1. /\ Same(new, call) /\ new.asked = call.asked /\ new.results = <<>>
      /\ new.pc # "collect" /\ new.round \in Nat
  BY BegunShape DEF Shape
<1> HIDE DEF new
<1>2. Shape(new) /\ Near(new) /\ new.by = call.by
  BY <1>1, EmptyShape DEF Same, Shape, Near
<1>3. Turn(c, new, live, state, exp)
  BY <1>1, TurnEmpty
<1> QED
  BY <1>2, <1>3 DEF new

\* The application calls.
LEMMA CallStep ==
  ASSUME LookInv, NEW c \in Calls, NEW r \in Requests[c], Call(c, r)
  PROVE  LookInv'
<1> DEFINE new == NewCall(r)
           mine == IF r.use = "download" THEN store[r.by].data[r.target] ELSE <<>>
           call == CASE r.use = "join" -> [new EXCEPT !.pc = "ping"]
                     [] mine # <<>> -> [new EXCEPT !.pc = "done", !.ret = mine]
                     [] OTHER -> Begun(new)
<1>1. /\ calls[c].pc = "idle" /\ calls' = [calls EXCEPT ![c] = call]
      /\ UNCHANGED <<waiters, fwd, down, expired>>
  BY DEF Call, routines, history
<1>2. r.by \in Nodes /\ r.use # "refresh"
  BY KademliaAssumption
<1>3. /\ DOMAIN new = CallFields /\ Shape(new) /\ new.results = <<>>
      /\ new.use # "refresh"
  BY <1>2, NewShape
<1>4. LiveOf(Live, c) = {}
  BY <1>1, NoRound
<1> HIDE DEF new, mine
<1>5. Near(new)
  BY <1>3 DEF Near
<1>6. Shape(call) /\ Near(call) /\ Turn(c, call, Live, down[call.by], expired)
  <2>1. ASSUME NEW k, k = [new EXCEPT !.pc = "ping"] \/ k = [new EXCEPT !.pc = "done", !.ret = mine]
        PROVE  Shape(k) /\ Near(k) /\ Turn(c, k, Live, down[k.by], expired)
    <3>1. /\ DOMAIN k = CallFields /\ k.use = new.use /\ k.by = new.by /\ k.target = new.target
          /\ k.bucket = new.bucket /\ k.round = new.round /\ k.asked = new.asked
          /\ k.results = <<>> /\ k.pc \in {"ping", "done"}
      BY <1>3, <2>1 DEF CallFields
    <3>2. Shape(k) /\ Near(k)
      BY <1>3, <1>5, <3>1 DEF Shape, Near
    <3>3. Turn(c, k, Live, down[k.by], expired)
      BY <1>4, <3>1, TurnEmpty
    <3> QED
      BY <3>2, <3>3
  <2>2. LET k == Begun(new) IN Shape(k) /\ Near(k) /\ Turn(c, k, Live, down[k.by], expired)
    BY <1>3, <1>4, <1>5, BegunKeeps
  <2>3. \/ call = [new EXCEPT !.pc = "ping"] \/ call = [new EXCEPT !.pc = "done", !.ret = mine]
        \/ call = Begun(new)
    OBVIOUS
  <2> HIDE DEF call
  <2> QED
    BY <2>1, <2>2, <2>3
<1> HIDE DEF call
<1> QED
  BY <1>1, <1>6, OneCallKeeps

\* A bucket is refreshed.
LEMMA RefreshStep ==
  ASSUME LookInv, NEW c \in Calls, NEW n \in Nodes, NEW b \in Buckets, RefreshBucket(c, n, b)
  PROVE  LookInv'
<1>1. PICK id \in getRandomIDFromBucket(Id[n], b) :
        calls' = [calls EXCEPT ![c] =
          Begun([NewCall([use |-> "refresh", by |-> n, target |-> id]) EXCEPT !.bucket = b])]
  BY DEF RefreshBucket
<1> DEFINE r == [use |-> "refresh", by |-> n, target |-> id]
           new == NewCall(r)
           asks == [new EXCEPT !.bucket = b]
           call == Begun(asks)
<1>2. calls[c].pc = "idle" /\ UNCHANGED <<waiters, fwd, down, expired>>
  BY DEF RefreshBucket, routines, history
<1>3. /\ DOMAIN new = CallFields /\ Shape(new) /\ new.results = <<>>
      /\ new.use = "refresh" /\ new.by = n /\ new.target = id
  <2>1. r.by \in Nodes /\ r.use = "refresh" /\ r.by = n /\ r.target = id
    OBVIOUS
  <2> HIDE DEF r
  <2> QED
    BY <2>1, NewShape
<1> HIDE DEF new
<1>4. /\ DOMAIN asks = CallFields /\ asks.use = "refresh" /\ asks.by = n /\ asks.target = id
      /\ asks.bucket = b /\ asks.round = new.round /\ asks.asked = new.asked
      /\ asks.results = <<>>
  BY <1>3 DEF CallFields
<1> HIDE DEF asks
<1>5. Shape(asks) /\ Near(asks)
  <2>1. Near(asks)
    <3>1. Id[n] \in Ids
      BY KademliaAssumption
    <3> QED
      BY <1>4, <3>1, RefreshNear DEF Near
  <2> QED
    BY <1>3, <1>4, <2>1, EmptyShape DEF Shape
<1>6. LiveOf(Live, c) = {}
  BY <1>2, NoRound
<1>7. Shape(call) /\ Near(call) /\ Turn(c, call, Live, down[call.by], expired)
  BY <1>4, <1>5, <1>6, BegunKeeps
<1>8. calls' = [calls EXCEPT ![c] = call]
  BY <1>1 DEF asks, new
<1> HIDE DEF call
<1> QED
  BY <1>2, <1>7, <1>8, OneCallKeeps

\* A call goes on between two rounds, or after the last.
LEMMA GoesOn ==
  ASSUME NEW c, NEW old, NEW new, NEW live, NEW state, NEW exp, Turn(c, old, live, state, exp),
         {old.pc, new.pc} \subseteq {"write", "register", "message", "announce", "done"},
         new.pc \in {"write", "register"} => old.pc \in {"write", "register"},
         new.round = old.round, new.results = old.results
  PROVE  Turn(c, new, live, state, exp)
  BY DEF Turn

\* A query is written.
LEMMA WriteQueryStep ==
  ASSUME LookInv, NEW c \in Calls, NEW t \in Tids, WriteQuery(c, t)
  PROVE  LookInv'
<1> DEFINE old == calls[c]
<1>1. /\ \/ old.pc = "ping" /\ calls' = [calls EXCEPT ![c].pc = "pinged", ![c].asked = <<t>>]
         \/ /\ old.pc = "write"
            /\ calls' = [calls EXCEPT ![c].pc = "register", ![c].asked = Append(@, t)]
      /\ UNCHANGED <<waiters, fwd, down, expired>>
  BY DEF WriteQuery, routines
<1>2. /\ DOMAIN calls = Calls /\ DOMAIN old = CallFields /\ Shape(old) /\ Near(old)
      /\ Turn(c, old, Live, down[old.by], expired)
  BY DEF LookInv, Shape
<1>3. old.pc # "collect" => old.results = <<>>
  BY <1>2 DEF Turn
<1>4. CASE old.pc = "ping" /\ calls' = [calls EXCEPT ![c].pc = "pinged", ![c].asked = <<t>>]
  <2> DEFINE new == [old EXCEPT !.pc = "pinged", !.asked = <<t>>]
  <2>1. calls' = [calls EXCEPT ![c] = new]
    BY <1>2, <1>4
  <2>2. LiveOf(Live, c) = {}
    BY <1>4, NoRound
  <2> HIDE DEF old
  <2>3. /\ DOMAIN new = CallFields /\ Same(new, old) /\ new.pc = "pinged" /\ new.asked = <<t>>
        /\ new.round = old.round /\ new.results = <<>>
    BY <1>2, <1>3, <1>4 DEF CallFields, Same
  <2> HIDE DEF new
  <2>4. <<t>> \in Seq(Tids)
    OBVIOUS
  <2>5. Shape(new) /\ Near(new)
    BY <1>2, <2>3, <2>4, EmptyShape DEF Same, Shape, Near
  <2>6. Turn(c, new, Live, down[new.by], expired)
    BY <2>2, <2>3, TurnEmpty
  <2>7. calls[c].pc # "pong"
    BY <1>4 DEF old
  <2> QED
    BY <1>1, <2>1, <2>5, <2>6, <2>7, OneCallKeeps
<1>5. CASE old.pc = "write"
           /\ calls' = [calls EXCEPT ![c].pc = "register", ![c].asked = Append(@, t)]
  <2> DEFINE new == [old EXCEPT !.pc = "register", !.asked = Append(old.asked, t)]
  <2>1. calls' = [calls EXCEPT ![c] = new]
    BY <1>2, <1>5
  <2> HIDE DEF old
  <2>2. /\ DOMAIN new = CallFields /\ Same(new, old) /\ new.pc = "register"
        /\ new.asked = Append(old.asked, t)
        /\ new.round = old.round /\ new.results = old.results /\ old.results = <<>>
    BY <1>2, <1>3, <1>5 DEF CallFields, Same
  <2> HIDE DEF new
  <2>3. Append(old.asked, t) \in Seq(Tids)
    BY <1>2 DEF Shape
  <2>4. Shape(new) /\ Near(new)
    BY <1>2, <2>2, <2>3, EmptyShape DEF Same, Shape, Near
  <2>5. Turn(c, new, Live, down[new.by], expired)
    <3>1. new.by = old.by
      BY <2>2 DEF Same
    <3> QED
      BY <1>2, <1>5, <2>2, <3>1, GoesOn
  <2>6. calls[c].pc # "pong"
    BY <1>5 DEF old
  <2> QED
    BY <1>1, <2>1, <2>4, <2>5, <2>6, OneCallKeeps
<1> QED
  BY <1>1, <1>4, <1>5

\* A write fails: the call is over, or with the Ping of a join the node is.
LEMMA WriteFailsStep ==
  ASSUME LookInv, NEW c \in Calls, NEW t \in Tids, WriteFails(c, t)
  PROVE  LookInv'
<1> DEFINE old == calls[c]
           new == [old EXCEPT !.pc = "done", !.asked = <<>>]
<1>1. /\ DOMAIN calls = Calls /\ DOMAIN old = CallFields /\ Shape(old) /\ Near(old)
      /\ Turn(c, old, Live, down[old.by], expired)
      /\ down \in [Nodes -> {"no", "left", "closed", "empty", "ping"}]
  BY DEF LookInv, Shape
<1>2. CASE old.pc = "ping" /\ down' = [down EXCEPT ![old.by] = "ping"] /\ UNCHANGED calls
  <2>1. UNCHANGED <<calls, waiters, fwd, expired>>
    BY <1>2 DEF WriteFails, routines
  <2>2. /\ down' \in [Nodes -> {"no", "left", "closed", "empty", "ping"}]
        /\ \A n \in Nodes : Up(n)' => Up(n)
    BY <1>1, <1>2 DEF Up
  <2> QED
    BY <2>1, <2>2, QuietKeeps
<1>3. CASE /\ old.pc = "write" /\ UNCHANGED down
           /\ calls' = [calls EXCEPT ![c].pc = "done", ![c].asked = <<>>]
  <2>1. UNCHANGED <<waiters, fwd, down, expired>>
    BY <1>3 DEF WriteFails, routines
  <2>2. calls' = [calls EXCEPT ![c] = new] /\ calls[c].pc # "pong"
    BY <1>1, <1>3
  <2>3. old.results = <<>>
    BY <1>1, <1>3 DEF Turn
  <2> HIDE DEF old
  <2>4. /\ DOMAIN new = CallFields /\ Same(new, old) /\ new.pc = "done" /\ new.asked = <<>>
        /\ new.round = old.round /\ new.results = old.results
    BY <1>1 DEF CallFields, Same
  <2> HIDE DEF new
  <2>5. Shape(new) /\ Near(new) /\ new.by = old.by
    BY <1>1, <2>3, <2>4, EmptyShape DEF Same, Shape, Near
  <2>6. Turn(c, new, Live, down[new.by], expired)
    BY <1>1, <1>3, <2>4, <2>5, GoesOn
  <2> QED
    BY <2>1, <2>2, <2>5, <2>6, OneCallKeeps
<1> QED
  BY <1>2, <1>3 DEF WriteFails

\* A call whose rounds are over goes on with the messages of AnnouncePeer.
LEMMA AnnounceGoesOn ==
  ASSUME LookInv, NEW c \in Calls, calls[c].pc \in {"message", "announce"},
         NEW new, DOMAIN new = CallFields, Same(new, calls[c]), new.pc \in {"announce", "done"},
         new.asked = calls[c].asked, new.round = calls[c].round, new.results = calls[c].results
  PROVE  /\ Shape(new) /\ Near(new) /\ calls[c].pc # "pong"
         /\ Turn(c, new, Live, down[new.by], expired)
<1> DEFINE old == calls[c]
<1>1. Shape(old) /\ Near(old) /\ Turn(c, old, Live, down[old.by], expired)
  BY DEF LookInv
<1>2. /\ old.pc \in {"message", "announce"} /\ Same(new, old) /\ new.by = old.by
      /\ new.asked = old.asked /\ new.round = old.round /\ new.results = old.results
  BY DEF Same
<1> HIDE DEF old
<1>3. Shape(new) /\ Near(new)
  BY <1>1, <1>2 DEF Same, Shape, Near
<1>4. Turn(c, new, Live, down[new.by], expired)
  BY <1>1, <1>2, GoesOn
<1> QED
  BY <1>3, <1>4

\* The message of AnnouncePeer is made, and written or not.
LEMMA AnnounceSteps ==
  ASSUME LookInv, NEW c \in Calls,
         \/ \E t \in Tids : MakeAnnounce(c, t)
         \/ \E i \in calls[c].todo : WriteAnnounce(c, i) \/ AnnounceFails(c, i)
  PROVE  LookInv'
<1> DEFINE old == calls[c]
<1>1. DOMAIN calls = Calls /\ DOMAIN old = CallFields
  BY DEF LookInv, Shape
<1>2. PICK new : /\ calls' = [calls EXCEPT ![c] = new] /\ old.pc \in {"message", "announce"}
                 /\ UNCHANGED <<waiters, fwd, down, expired>>
                 /\ DOMAIN new = CallFields /\ Same(new, old) /\ new.pc \in {"announce", "done"}
                 /\ new.asked = old.asked /\ new.round = old.round /\ new.results = old.results
  <2>1. ASSUME NEW t \in Tids, MakeAnnounce(c, t)
        PROVE  LET new == [old EXCEPT !.pc = "announce", !.tid = t, !.todo = DOMAIN old.nl] IN
               /\ calls' = [calls EXCEPT ![c] = new] /\ old.pc = "message"
               /\ UNCHANGED <<waiters, fwd, down, expired>>
    BY <1>1, <2>1 DEF MakeAnnounce, routines
  <2>2. ASSUME NEW i \in old.todo, WriteAnnounce(c, i)
        PROVE  LET new == [old EXCEPT !.todo = old.todo \ {i}, !.sent = old.sent \cup {i}] IN
               /\ calls' = [calls EXCEPT ![c] = new] /\ old.pc = "announce"
               /\ UNCHANGED <<waiters, fwd, down, expired>>
    BY <1>1, <2>2 DEF WriteAnnounce, routines, history, CallFields
  <2>3. ASSUME NEW i \in old.todo, AnnounceFails(c, i)
        PROVE  \E pc \in {"announce", "done"} :
                 /\ calls' = [calls EXCEPT ![c] = [old EXCEPT !.todo = old.todo \ {i}, !.pc = pc]]
                 /\ old.pc = "announce" /\ UNCHANGED <<waiters, fwd, down, expired>>
    <3> DEFINE pc == IF old.todo = {i} /\ old.sent = {} THEN "done" ELSE "announce"
    <3>1. /\ calls' = [calls EXCEPT ![c].todo = @ \ {i}, ![c].pc = pc]
          /\ old.pc = "announce" /\ UNCHANGED <<waiters, fwd, down, expired>>
      BY <2>3 DEF AnnounceFails, routines, history
    <3>2. pc \in {"announce", "done"}
      OBVIOUS
    <3> HIDE DEF pc
    <3>3. calls' = [calls EXCEPT ![c] = [old EXCEPT !.todo = old.todo \ {i}, !.pc = pc]]
      BY <1>1, <3>1
    <3> QED
      BY <3>1, <3>2, <3>3
  <2> HIDE DEF old
  <2>4. ASSUME NEW t, NEW todo
        PROVE  LET new == [old EXCEPT !.pc = "announce", !.tid = t, !.todo = todo] IN
               /\ DOMAIN new = CallFields /\ Same(new, old) /\ new.pc \in {"announce", "done"}
               /\ new.asked = old.asked /\ new.round = old.round /\ new.results = old.results
    BY <1>1 DEF CallFields, Same
  <2>5. ASSUME NEW todo, NEW sent, old.pc = "announce"
        PROVE  LET new == [old EXCEPT !.todo = todo, !.sent = sent] IN
               /\ DOMAIN new = CallFields /\ Same(new, old) /\ new.pc \in {"announce", "done"}
               /\ new.asked = old.asked /\ new.round = old.round /\ new.results = old.results
    BY <1>1, <2>5 DEF CallFields, Same
  <2>6. ASSUME NEW todo, NEW pc \in {"announce", "done"}
        PROVE  LET new == [old EXCEPT !.todo = todo, !.pc = pc] IN
               /\ DOMAIN new = CallFields /\ Same(new, old) /\ new.pc \in {"announce", "done"}
               /\ new.asked = old.asked /\ new.round = old.round /\ new.results = old.results
    BY <1>1, <2>6 DEF CallFields, Same
  <2>7. CASE \E t \in Tids : MakeAnnounce(c, t)
    <3>1. PICK t \in Tids : MakeAnnounce(c, t)
      BY <2>7
    <3> DEFINE new == [old EXCEPT !.pc = "announce", !.tid = t, !.todo = DOMAIN old.nl]
    <3>2. /\ calls' = [calls EXCEPT ![c] = new] /\ old.pc \in {"message", "announce"}
          /\ UNCHANGED <<waiters, fwd, down, expired>>
      BY <3>1, <2>1
    <3>3. /\ DOMAIN new = CallFields /\ Same(new, old) /\ new.pc \in {"announce", "done"}
          /\ new.asked = old.asked /\ new.round = old.round /\ new.results = old.results
      BY <3>1, <2>1, <2>4
    <3> HIDE DEF new
    <3> QED
      BY <3>2, <3>3
  <2>8. CASE \E i \in calls[c].todo : WriteAnnounce(c, i)
    <3>1. PICK i \in old.todo : WriteAnnounce(c, i)
      BY <2>8 DEF old
    <3> DEFINE new == [old EXCEPT !.todo = old.todo \ {i}, !.sent = old.sent \cup {i}]
    <3>2. /\ calls' = [calls EXCEPT ![c] = new] /\ old.pc \in {"message", "announce"}
          /\ UNCHANGED <<waiters, fwd, down, expired>>
      BY <3>1, <2>2
    <3>3. /\ DOMAIN new = CallFields /\ Same(new, old) /\ new.pc \in {"announce", "done"}
          /\ new.asked = old.asked /\ new.round = old.round /\ new.results = old.results
      BY <3>1, <2>2, <2>5
    <3> HIDE DEF new
    <3> QED
      BY <3>2, <3>3
  <2>9. CASE \E i \in calls[c].todo : AnnounceFails(c, i)
    <3>1. PICK i \in old.todo : AnnounceFails(c, i)
      BY <2>9 DEF old
    <3>p. PICK pc \in {"announce", "done"} :
            /\ calls' = [calls EXCEPT ![c] = [old EXCEPT !.todo = old.todo \ {i}, !.pc = pc]]
            /\ old.pc = "announce" /\ UNCHANGED <<waiters, fwd, down, expired>>
      BY <2>3, <3>1
    <3> DEFINE new == [old EXCEPT !.todo = old.todo \ {i}, !.pc = pc]
    <3>2. /\ calls' = [calls EXCEPT ![c] = new] /\ old.pc \in {"message", "announce"}
          /\ UNCHANGED <<waiters, fwd, down, expired>>
      BY <3>p
    <3>3. /\ DOMAIN new = CallFields /\ Same(new, old) /\ new.pc \in {"announce", "done"}
          /\ new.asked = old.asked /\ new.round = old.round /\ new.results = old.results
      BY <2>6
    <3> HIDE DEF new
    <3> QED
      BY <3>2, <3>3
  <2> QED
    BY <2>7, <2>8, <2>9
<1>3. /\ Shape(new) /\ Near(new) /\ calls[c].pc # "pong"
      /\ Turn(c, new, Live, down[new.by], expired)
  BY <1>2, AnnounceGoesOn
<1> QED
  BY <1>2, <1>3, OneCallKeeps

\* A goroutine of AnnouncePeer waits, on a channel that is none of a round.
LEMMA RegisterAnnounceStep ==
  ASSUME LookInv, NEW c \in Calls, NEW i \in calls[c].sent, RegisterAnnounce(c, i)
  PROVE  LookInv'
<1> DEFINE old == calls[c]
           pc == IF old.sent = {i} /\ old.todo = {} THEN "done" ELSE "announce"
           new == [old EXCEPT !.sent = old.sent \ {i}, !.pc = pc]
           one == [chan |-> Chan(c, old.round + 1, i), tid |-> old.tid, q |-> "announce"]
<1>1. /\ DOMAIN calls = Calls /\ DOMAIN old = CallFields /\ old.round \in Nat /\ Waiting
      /\ down \in [Nodes -> {"no", "left", "closed", "empty", "ping"}]
  BY DEF LookInv, Shape
<1>2. /\ calls' = [calls EXCEPT ![c].sent = @ \ {i}, ![c].pc = pc] /\ old.pc = "announce"
      /\ waiters' = waiters \cup {one} /\ UNCHANGED <<fwd, down, expired>>
  BY DEF RegisterAnnounce, history
<1>3. pc \in {"announce", "done"}
  OBVIOUS
<1>4. one.q = "announce"
  OBVIOUS
<1> HIDE DEF one, pc
<1>5. calls' = [calls EXCEPT ![c] = new]
  BY <1>1, <1>2
<1>6. /\ DOMAIN new = CallFields /\ Same(new, old) /\ new.pc \in {"announce", "done"}
      /\ new.asked = old.asked /\ new.round = old.round /\ new.results = old.results
  <2> HIDE DEF old
  <2> QED
    BY <1>1, <1>3 DEF CallFields, Same
<1> HIDE DEF new
<1>7. /\ Shape(new) /\ Near(new) /\ Turn(c, new, Live, down[new.by], expired)
  BY <1>2, <1>6, AnnounceGoesOn
<1>8. Live' = Live
  BY <1>2, <1>4 DEF Live
<1>9. Waiting'
  <2>1. \A w \in waiters : w.q = "ping" => calls'[w.chan[1]].pc = "pong"
    <3>1. \A w \in waiters : w.q = "ping" => w.chan[1] \in Calls \ {c}
      BY <1>1, <1>2 DEF Waiting
    <3> QED
      BY <1>1, <1>5, <3>1 DEF Waiting
  <2> QED
    BY <1>1, <1>2, <1>4, <2>1 DEF Waiting
<1>10. /\ down' \in [Nodes -> {"no", "left", "closed", "empty", "ping"}]
       /\ \A n \in Nodes : Up(n)' => Up(n)
       /\ down' = down /\ expired' = expired
  BY <1>1, <1>2 DEF Up
<1> QED
  BY <1>5, <1>7, <1>8, <1>9, <1>10, CallKeeps

\* An answer is expected, and after the last query of a round each has someone
\* who waits for it.
LEMMA RegisterStep ==
  ASSUME LookInv, NEW c \in Calls, Register(c)
  PROVE  LookInv'
<1> DEFINE old == calls[c]
           i == Len(old.asked)
           last == i = Min({ALPHA, Len(old.nl)})
           New == {[chan |-> Chan(c, old.round, j), tid |-> old.asked[j], q |-> "lookup"] : j \in 1 .. i}
           Ponged == [chan |-> Chan(c, old.round, i), tid |-> old.asked[i], q |-> "ping"]
<1>1. /\ \/ /\ old.pc = "register" /\ ~last
            /\ calls' = [calls EXCEPT ![c].pc = "write"] /\ waiters' = waiters
         \/ /\ old.pc = "register" /\ last
            /\ calls' = [calls EXCEPT ![c].pc = "collect"] /\ waiters' = waiters \cup New
         \/ /\ old.pc = "pinged"
            /\ calls' = [calls EXCEPT ![c].pc = "pong"] /\ waiters' = waiters \cup {Ponged}
      /\ UNCHANGED <<fwd, down, expired>>
  BY DEF Register, history
<1>2. /\ DOMAIN calls = Calls /\ DOMAIN old = CallFields /\ Shape(old) /\ Near(old)
      /\ Turn(c, old, Live, down[old.by], expired) /\ Waiting
      /\ down' \in [Nodes -> {"no", "left", "closed", "empty", "ping"}]
      /\ \A n \in Nodes : Up(n)' => Up(n)
  BY <1>1 DEF LookInv, Shape, Up
<1>3. i \in Nat /\ old.round \in Nat /\ (old.pc # "collect" => old.results = <<>>)
  BY <1>2, LenProperties DEF Shape, Turn
<1>4. \A x \in LiveOf(Live, c) : old.pc = "register" =>
        x[2] \in 0 .. old.round /\ x[2] < old.round
        /\ (down[old.by] = "no" => <<c, x[2]>> \in expired)
  BY <1>2 DEF Turn
<1> HIDE DEF i, last
<1>5. ASSUME NEW pc \in {"write", "collect", "pong"}
      PROVE  LET new == [old EXCEPT !.pc = pc] IN
             /\ Shape(new) /\ Near(new) /\ new.pc = pc /\ new.by = old.by
             /\ new.round = old.round /\ new.results = old.results /\ new.asked = old.asked
  BY <1>2 DEF CallFields, Shape, Near
<1>6. CASE /\ old.pc = "register" /\ ~last
           /\ calls' = [calls EXCEPT ![c].pc = "write"] /\ waiters' = waiters
  <2> DEFINE new == [old EXCEPT !.pc = "write"]
  <2>1. calls' = [calls EXCEPT ![c] = new] /\ calls[c].pc # "pong"
    BY <1>2, <1>6
  <2>2. /\ Shape(new) /\ Near(new) /\ new.pc = "write" /\ new.by = old.by
        /\ new.round = old.round /\ new.results = old.results
    BY <1>5
  <2> HIDE DEF new, old
  <2>3. Turn(c, new, Live, down[new.by], expired)
    BY <1>2, <1>6, <2>2, GoesOn
  <2> QED
    BY <1>1, <1>6, <2>1, <2>2, <2>3, OneCallKeeps
<1>7. CASE /\ old.pc = "register" /\ last
           /\ calls' = [calls EXCEPT ![c].pc = "collect"] /\ waiters' = waiters \cup New
  <2> DEFINE new == [old EXCEPT !.pc = "collect"]
  <2>1. calls' = [calls EXCEPT ![c] = new]
    BY <1>2, <1>7
  <2>2. /\ Shape(new) /\ Near(new) /\ new.pc = "collect" /\ new.by = old.by
        /\ new.round = old.round /\ new.results = <<>> /\ new.asked = old.asked
    BY <1>3, <1>5, <1>7
  <2> HIDE DEF new
  <2>3. \A w \in New : /\ w.q = "lookup" /\ w.chan \in Calls \X Nat \X Nat
                       /\ w.chan[1] = c /\ w.chan[2] = old.round /\ w.chan[3] \in 1 .. i
                       /\ \A v \in New : w.chan = v.chan => w = v
    <3>1. \A w \in New : \E j \in 1 .. i :
            w = [chan |-> Chan(c, old.round, j), tid |-> old.asked[j], q |-> "lookup"]
      OBVIOUS
    <3>2. \A j \in 1 .. i : /\ Chan(c, old.round, j) \in Calls \X Nat \X Nat
                            /\ Chan(c, old.round, j)[1] = c
                            /\ Chan(c, old.round, j)[2] = old.round
                            /\ Chan(c, old.round, j)[3] = j
      BY <1>3 DEF Chan
    <3> HIDE DEF New, old
    <3> QED
      BY <3>1, <3>2
  <2>4. \A x \in Live : x[1] = c => x[2] < old.round
    BY <1>4, <1>7 DEF LiveOf
  <2>5. \A w \in waiters : (w.q = "lookup" => w.chan \in Live)
    BY DEF Live
  <2>6. \A f \in fwd : f.chan \in Live
    BY DEF Live
  <2> HIDE DEF New
  <2>7. Live' = Live \cup {w.chan : w \in New}
    BY <1>1, <1>7, <2>3 DEF Live
  <2>8. Waiting'
    <3>1. \A x \in {v \in waiters' : v.q # "announce"} \cup fwd' : x.chan \in Calls \X Nat \X Nat
      BY <1>1, <1>2, <1>7, <2>3 DEF Waiting
    <3>2. /\ \A w \in waiters' : w.q \in {"ping", "lookup", "announce"}
          /\ \A w \in waiters' : w.q = "ping" => w \in waiters
      BY <1>2, <1>7, <2>3 DEF Waiting
    <3>3. \A w \in waiters' : w.q = "ping" => calls'[w.chan[1]].pc = "pong"
      BY <1>2, <1>7, <2>1, <3>2 DEF Waiting
    <3>4. \A w, v \in waiters' : w.q = "ping" /\ v.q = "ping" /\ w.chan[1] = v.chan[1] => w = v
      BY <1>2, <3>2 DEF Waiting
    <3>5. \A w, v \in waiters' : w.q = "lookup" /\ v.q = "lookup" /\ w.chan = v.chan => w = v
      <4>1. \A w \in New, v \in waiters : v.q = "lookup" => w.chan # v.chan
        <5>1. ASSUME NEW w \in New, NEW v \in waiters, v.q = "lookup", w.chan = v.chan PROVE FALSE
          <6>1. v.chan[1] = c /\ v.chan[2] = old.round /\ v.chan \in Live /\ old.round \in Nat
            BY <1>3, <2>3, <2>5, <5>1
          <6> QED
            BY <2>4, <6>1
        <5> QED
          BY <5>1
      <4> QED
        BY <1>2, <1>7, <2>3, <4>1 DEF Waiting
    <3>6. \A w \in waiters', f \in fwd' : w.q = "lookup" => w.chan # f.chan
      <4>1. \A w \in New, f \in fwd : w.chan # f.chan
        <5>1. ASSUME NEW w \in New, NEW f \in fwd, w.chan = f.chan PROVE FALSE
          <6>1. f.chan[1] = c /\ f.chan[2] = old.round /\ f.chan \in Live /\ old.round \in Nat
            BY <1>3, <2>3, <2>6, <5>1
          <6> QED
            BY <2>4, <6>1
        <5> QED
          BY <5>1
      <4> QED
        BY <1>1, <1>2, <1>7, <4>1 DEF Waiting
    <3>7. \A f, g \in fwd' : f.chan = g.chan => f = g
      BY <1>1, <1>2 DEF Waiting
    <3> QED
      BY <3>1, <3>2, <3>3, <3>4, <3>5, <3>6, <3>7 DEF Waiting
  <2>9. \A d \in Calls \ {c} : LiveOf(Live', d) \subseteq LiveOf(Live, d)
    BY <2>3, <2>7 DEF LiveOf
  <2>10. Turn(c, new, Live', down[old.by], expired)
    <3>1. \A x \in LiveOf(Live', c) : x \in LiveOf(Live, c) \/ (x[2] = old.round /\ x[3] \in 1 .. i)
      BY <2>3, <2>7 DEF LiveOf
    <3>2. \A x \in LiveOf(Live', c) :
            /\ x[2] \in 0 .. new.round
            /\ down[old.by] = "no" => x[2] = new.round \/ <<c, x[2]>> \in expired
      BY <1>3, <1>4, <1>7, <2>2, <3>1
    <3>3. Places(Live', c, old.round) \subseteq 1 .. i
      BY <1>3, <2>4, <3>1 DEF Places, LiveOf
    <3>4. /\ IsFiniteSet(1 .. i) /\ Cardinality(1 .. i) = i
      BY <1>3, FS_Interval
    <3>5. Cardinality(Places(Live', c, old.round)) <= i
          /\ Cardinality(Places(Live', c, old.round)) \in Nat
      BY <3>3, <3>4, FS_Subset, FS_CardinalityType
    <3>6. Len(new.asked) = i /\ Len(new.results) = 0
      BY <2>2, EmptyShape DEF i
    <3>7. /\ Places(Live', c, new.round) \subseteq 1 .. Len(new.asked)
          /\ Len(new.results) + Cardinality(Places(Live', c, new.round)) <= Len(new.asked)
      BY <1>3, <2>2, <3>3, <3>5, <3>6
    <3> QED
      BY <2>2, <3>2, <3>7 DEF Turn
  <2>11. /\ expired' = expired /\ down'[new.by] = down[old.by] /\ expired \subseteq expired'
    BY <1>1, <2>2
  <2>12. Turn(c, new, Live', down'[new.by], expired')
    BY <2>10, <2>11
  <2> QED
    BY <1>2, <2>1, <2>2, <2>8, <2>9, <2>11, <2>12, CallKeeps
<1>8. CASE /\ old.pc = "pinged"
           /\ calls' = [calls EXCEPT ![c].pc = "pong"] /\ waiters' = waiters \cup {Ponged}
  <2> DEFINE new == [old EXCEPT !.pc = "pong"]
  <2>1. calls' = [calls EXCEPT ![c] = new]
    BY <1>2, <1>8
  <2>2. /\ Shape(new) /\ Near(new) /\ new.pc = "pong" /\ new.results = <<>>
    BY <1>3, <1>5, <1>8
  <2> HIDE DEF new
  <2>3. Ponged.q = "ping" /\ Ponged.chan \in Calls \X Nat \X Nat /\ Ponged.chan[1] = c
    BY <1>3 DEF Chan
  <2> HIDE DEF Ponged
  <2>4. Live' = Live
    BY <1>1, <1>8, <2>3 DEF Live
  <2>5. \A w \in waiters : w.q = "ping" => w.chan[1] # c
    BY <1>2, <1>8 DEF Waiting
  <2>6. calls'[c].pc = "pong" /\ \A d \in Calls \ {c} : calls'[d] = calls[d]
    BY <1>2, <2>1, <2>2
  <2>7. Waiting'
    <3>1. \A w \in waiters : w.q = "ping" => w.chan[1] \in Calls
      BY <1>2 DEF Waiting
    <3>2. \A w \in waiters' : w.q = "ping" => calls'[w.chan[1]].pc = "pong"
      BY <1>2, <1>8, <2>3, <2>5, <2>6, <3>1 DEF Waiting
    <3> QED
      BY <1>1, <1>2, <1>8, <2>3, <2>5, <3>2 DEF Waiting
  <2>8. LiveOf(Live, c) = {}
    BY <1>8, NoRound
  <2>9. Turn(c, new, Live', down'[new.by], expired')
    BY <2>2, <2>4, <2>8, TurnEmpty
  <2>10. expired \subseteq expired' /\ \A d \in Calls \ {c} : LiveOf(Live', d) \subseteq LiveOf(Live, d)
    BY <1>1, <2>4
  <2> QED
    BY <1>2, <2>1, <2>2, <2>7, <2>9, <2>10, CallKeeps
<1> QED
  BY <1>1, <1>6, <1>7, <1>8

\* A goroutine of LookUP got its answer, or waited for long enough.
LEMMA LookupWaiterStep ==
  ASSUME LookInv, NEW w \in waiters, w.q = "lookup",
         (\E p \in pend : WaiterReceives(w, p)) \/ WaiterTimesOut(w)
  PROVE  LookInv'
<1>1. /\ calls' = calls /\ waiters' = waiters \ {w} /\ UNCHANGED <<down, expired>>
      /\ fwd' = fwd \/ \E p : p.chan = w.chan /\ fwd' = fwd \cup {p}
  BY DEF WaiterReceives, WaiterTimesOut, history
<1>2. Waiting /\ down \in [Nodes -> {"no", "left", "closed", "empty", "ping"}]
  BY DEF LookInv
<1>3. PICK p : /\ p.chan = w.chan
               /\ \A f \in fwd' : f \in fwd \/ f = p
  <2>1. CASE fwd' = fwd
    <3>1. w.chan = w.chan
      OBVIOUS
    <3> QED
      BY <2>1, <3>1
  <2> QED
    BY <1>1, <2>1
<1>4. w.chan \in Live /\ \A f \in fwd : f.chan # p.chan
  BY <1>2, <1>3 DEF Live, Waiting
<1>5. Waiting'
  <2>1. \A x \in {v \in waiters' : v.q # "announce"} \cup fwd' : x.chan \in Calls \X Nat \X Nat
    BY <1>1, <1>2, <1>3 DEF Waiting
  <2>2. \A f, g \in fwd' : f.chan = g.chan => f = g
    BY <1>2, <1>3, <1>4 DEF Waiting
  <2>3. \A v \in waiters', f \in fwd' : v.q = "lookup" => v.chan # f.chan
    BY <1>1, <1>2, <1>3 DEF Waiting
  <2> QED
    BY <1>1, <1>2, <2>1, <2>2, <2>3 DEF Waiting
<1>6. Live' \subseteq Live
  BY <1>1, <1>3, <1>4 DEF Live
<1>7. \A d \in Calls : LiveOf(Live', d) \subseteq LiveOf(Live, d)
  BY <1>6 DEF LiveOf
<1>8. down' \in [Nodes -> {"no", "left", "closed", "empty", "ping"}] /\ expired \subseteq expired'
      /\ \A n \in Nodes : Up(n)' => Up(n)
  BY <1>1, <1>2 DEF Up
<1> QED
  BY <1>1, <1>5, <1>7, <1>8, StillKeeps

\* A goroutine of AnnouncePeer did.
LEMMA AnnounceWaiterStep ==
  ASSUME LookInv, NEW w \in waiters, w.q = "announce",
         (\E p \in pend : WaiterReceives(w, p)) \/ WaiterTimesOut(w)
  PROVE  LookInv'
<1>1. calls' = calls /\ waiters' = waiters \ {w} /\ UNCHANGED <<fwd, down, expired>>
  BY DEF WaiterReceives, WaiterTimesOut, history
<1>2. Waiting /\ down \in [Nodes -> {"no", "left", "closed", "empty", "ping"}]
  BY DEF LookInv
<1>3. \A v \in waiters' : v.q = "ping" => calls'[v.chan[1]].pc = "pong"
  BY <1>1, <1>2 DEF Waiting
<1>4. Waiting' /\ Live' \subseteq Live
  BY <1>1, <1>2, <1>3, WaitingShrinks
<1>5. \A d \in Calls : LiveOf(Live', d) \subseteq LiveOf(Live, d)
  BY <1>4 DEF LiveOf
<1>6. down' \in [Nodes -> {"no", "left", "closed", "empty", "ping"}] /\ expired \subseteq expired'
      /\ \A n \in Nodes : Up(n)' => Up(n)
  BY <1>1, <1>2 DEF Up
<1> QED
  BY <1>1, <1>4, <1>5, <1>6, StillKeeps

\* Ping did.
LEMMA PingWaiterStep ==
  ASSUME LookInv, NEW w \in waiters, w.q = "ping",
         (\E p \in pend : WaiterReceives(w, p)) \/ WaiterTimesOut(w)
  PROVE  LookInv'
<1> DEFINE c == w.chan[1]
           old == calls[c]
           asks == [old EXCEPT !.asked = <<>>]
           new == Begun(asks)
<1>1. /\ calls' = [calls EXCEPT ![c] = Begun([@ EXCEPT !.asked = <<>>])]
      /\ waiters' = waiters \ {w} /\ UNCHANGED <<fwd, down, expired>>
  BY DEF WaiterReceives, WaiterTimesOut, history
<1>2. Waiting /\ down \in [Nodes -> {"no", "left", "closed", "empty", "ping"}]
  BY DEF LookInv
<1>3. c \in Calls /\ old.pc = "pong"
  BY <1>2 DEF Waiting
<1>4. /\ DOMAIN calls = Calls /\ DOMAIN old = CallFields /\ Shape(old) /\ Near(old)
      /\ Turn(c, old, Live, down[old.by], expired)
  BY <1>3 DEF LookInv, Shape
<1>5. old.results = <<>> /\ LiveOf(Live, c) = {}
  BY <1>3, <1>4 DEF Turn
<1>6. calls' = [calls EXCEPT ![c] = new]
  BY <1>1, <1>3, <1>4
<1>7. \A v \in waiters' : v.q = "ping" => v.chan[1] # c
  BY <1>1, <1>2 DEF Waiting
<1>8. \A v \in waiters' : v.q = "ping" => calls'[v.chan[1]].pc = "pong"
  <2> HIDE DEF new, c
  <2>1. \A v \in waiters : v.q = "ping" => v.chan[1] \in Calls
    BY <1>2 DEF Waiting
  <2> QED
    BY <1>1, <1>2, <1>4, <1>6, <1>7, <2>1 DEF Waiting
<1>9. Waiting' /\ Live' \subseteq Live
  BY <1>1, <1>2, <1>8, WaitingShrinks
<1> HIDE DEF old, c
<1>10. /\ DOMAIN asks = CallFields /\ Same(asks, old) /\ asks.asked = <<>>
       /\ asks.results = <<>> /\ asks.round = old.round
  BY <1>4, <1>5 DEF CallFields, Same
<1> HIDE DEF asks
<1>11. Shape(asks) /\ Near(asks)
  BY <1>4, <1>10, EmptyShape DEF Same, Shape, Near
<1>12. LiveOf(Live', c) = {} /\ \A d \in Calls : LiveOf(Live', d) \subseteq LiveOf(Live, d)
  BY <1>5, <1>9 DEF LiveOf
<1>13. Shape(new) /\ Near(new) /\ Turn(c, new, Live', down'[new.by], expired')
  BY <1>10, <1>11, <1>12, BegunKeeps
<1> HIDE DEF new
<1>14. down' \in [Nodes -> {"no", "left", "closed", "empty", "ping"}] /\ expired \subseteq expired'
       /\ \A n \in Nodes : Up(n)' => Up(n)
  BY <1>1, <1>2 DEF Up
<1> QED
  BY <1>3, <1>6, <1>9, <1>12, <1>13, <1>14, CallKeeps

-------------------------------------------------------------------------------
(* The end of a round. *)

\* A round ends, with as many answers as came.
LEMMA RoundEnds ==
  ASSUME LookInv, NEW c \in Calls, NEW results, Running(c), EndRound(c, results),
         calls[c].pc = "collect", waiters' = waiters, fwd' \subseteq fwd,
         expired \subseteq expired',
         \A x \in LiveOf(Live', c) : x[2] = calls[c].round => <<c, x[2]>> \in expired'
  PROVE  LookInv'
<1> DEFINE old == calls[c]
           new == Rounded(old, results)
<1>1. /\ calls' = [calls EXCEPT ![c] = new]
      /\ down' = IF new.pc = "panic" THEN [down EXCEPT ![new.by] = "empty"] ELSE down
  BY DEF EndRound
<1>2. /\ DOMAIN calls = Calls /\ DOMAIN old = CallFields /\ Shape(old) /\ Near(old)
      /\ Turn(c, old, Live, down[old.by], expired) /\ Waiting
      /\ down \in [Nodes -> {"no", "left", "closed", "empty", "ping"}]
  BY DEF LookInv, Shape
<1>3. /\ Same(new, old) /\ new.asked = <<>> /\ new.results = <<>>
      /\ \/ new.pc \in {"panic", "done", "message"} /\ new.round = old.round
         \/ new.pc = "write" /\ new.round = old.round + 1
  BY <1>2, RoundedShape
<1>4. down[old.by] = "no"
  BY DEF Running, Up
<1> HIDE DEF new
<1>5. Shape(new) /\ Near(new)
  BY <1>2, <1>3, EmptyShape DEF Same, Shape, Near
<1>6. /\ down' \in [Nodes -> {"no", "left", "closed", "empty", "ping"}]
      /\ \A n \in Nodes : Up(n)' => Up(n)
  BY <1>1, <1>2 DEF Up
<1>7. \A w \in waiters' : w.q = "ping" => calls'[w.chan[1]].pc = "pong"
  <2>1. \A w \in waiters : w.q = "ping" => w.chan[1] # c /\ w.chan[1] \in Calls
    BY <1>2 DEF Waiting
  <2> QED
    BY <1>1, <1>2, <2>1 DEF Waiting
<1>8. Waiting' /\ Live' \subseteq Live
  BY <1>2, <1>7, WaitingShrinks
<1>9. \A d \in Calls : LiveOf(Live', d) \subseteq LiveOf(Live, d)
  BY <1>8 DEF LiveOf
<1>10. Turn(c, new, Live', down'[new.by], expired')
  <2>1. \A x \in LiveOf(Live', c) : x[2] \in 0 .. old.round /\ <<c, x[2]>> \in expired'
    BY <1>2, <1>4, <1>9 DEF Turn
  <2>2. old.round \in Nat
    BY <1>2 DEF Shape
  <2>3. \A x \in LiveOf(Live', c) :
          /\ new.pc \notin {"idle", "ping", "pinged", "pong"} /\ x[2] \in 0 .. new.round
          /\ new.pc \in {"write", "register"} => x[2] < new.round
    <3>1. CASE new.pc = "write" /\ new.round = old.round + 1
      <4>1. ASSUME NEW x \in LiveOf(Live', c) PROVE x[2] \in 0 .. new.round /\ x[2] < new.round
        <5> HIDE DEF old
        <5>1. \A k \in 0 .. old.round : k \in 0 .. old.round + 1 /\ k < old.round + 1
          BY <2>2
        <5> QED
          BY <2>1, <3>1, <5>1
      <4> QED
        BY <3>1, <4>1
    <3>2. CASE new.pc \in {"panic", "done", "message"} /\ new.round = old.round
      BY <2>1, <3>2
    <3> QED
      BY <1>3, <3>1, <3>2
  <2> QED
    BY <1>3, <2>1, <2>3 DEF Turn
<1> QED
  BY <1>1, <1>5, <1>6, <1>8, <1>9, <1>10, CallKeeps

\* The time limit of a round passes.
LEMMA CollectTimesOutStep ==
  ASSUME LookInv, NEW c \in Calls, CollectTimesOut(c)
  PROVE  LookInv'
<1>1. /\ Running(c) /\ calls[c].pc = "collect" /\ EndRound(c, calls[c].results)
      /\ expired' = expired \cup {<<c, calls[c].round>>}
      /\ waiters' = waiters /\ fwd' \subseteq fwd
  BY DEF CollectTimesOut, routines
<1> QED
  BY <1>1, RoundEnds

\* A result more.
LEMMA ResultsGrow ==
  ASSUME NEW s, s \in Seq(Range(s)), NEW e
  PROVE  /\ Append(s, e) \in Seq(Range(Append(s, e)))
         /\ Len(Append(s, e)) = Len(s) + 1 /\ Len(s) \in Nat
<1> DEFINE r == Append(s, e)
           S == Range(s) \cup {e}
<1>1. s \in Seq(S) /\ e \in S
  <2>1. Len(s) \in Nat /\ s \in [1 .. Len(s) -> Range(s)]
    BY LenProperties
  <2>2. s \in [1 .. Len(s) -> S]
    BY <2>1
  <2> QED
    BY <2>1, <2>2, SeqDef
<1> HIDE DEF S
<1>2. r \in Seq(S) /\ Len(r) = Len(s) + 1 /\ Len(s) \in Nat
  BY <1>1, AppendProperties, LenProperties
<1> HIDE DEF r
<1>3. r \in [1 .. Len(r) -> S] /\ Len(r) \in Nat /\ DOMAIN r = 1 .. Len(r)
  BY <1>2, LenProperties
<1>4. r \in [1 .. Len(r) -> Range(r)]
  BY <1>3 DEF Range
<1>5. r \in Seq(Range(r))
  BY <1>3, <1>4, SeqDef
<1> QED
  BY <1>2, <1>5 DEF r

\* A result is taken: by nobody else, and from a place of its own.
LEMMA Taken ==
  ASSUME Waiting, NEW f \in fwd, waiters' = waiters, fwd' = fwd \ {f}
  PROVE  /\ f.chan \in Live /\ f.chan \notin Live' /\ Live' \subseteq Live
         /\ \A x \in Live' : x[1] = f.chan[1] /\ x[2] = f.chan[2] => x[3] # f.chan[3]
<1>1. Live \subseteq Calls \X Nat \X Nat /\ f.chan \in Live /\ Live' \subseteq Live
  BY DEF Live, Waiting
<1>2. f.chan \notin Live'
  BY DEF Live, Waiting
<1>3. \A x, y \in Calls \X Nat \X Nat : x[1] = y[1] /\ x[2] = y[2] /\ x[3] = y[3] => x = y
  OBVIOUS
<1> QED
  BY <1>1, <1>2, <1>3

\* LookUP receives a result.
LEMMA CollectStep ==
  ASSUME LookInv, NEW c \in Calls, NEW f \in fwd, Collect(c, f)
  PROVE  LookInv'
<1> DEFINE old == calls[c]
           results == Append(old.results, f.resp)
           P == Places(Live, c, old.round)
           P2 == Places(Live', c, old.round)
<1>1. /\ Running(c) /\ f.chan[1] = c /\ old.pc = "collect" /\ f.chan[2] = old.round
      /\ waiters' = waiters /\ fwd' = fwd \ {f} /\ expired' = expired
      /\ IF Len(results) = Len(old.asked) THEN EndRound(c, results)
         ELSE calls' = [calls EXCEPT ![c].results = results] /\ UNCHANGED down
  BY DEF Collect, Collecting, history
<1>2. /\ DOMAIN calls = Calls /\ DOMAIN old = CallFields /\ Shape(old) /\ Near(old)
      /\ Turn(c, old, Live, down[old.by], expired) /\ Waiting
      /\ down \in [Nodes -> {"no", "left", "closed", "empty", "ping"}]
  BY DEF LookInv, Shape
<1>3. /\ f.chan \in Live /\ f.chan \notin Live' /\ Live' \subseteq Live
      /\ \A x \in Live' : x[1] = c /\ x[2] = old.round => x[3] # f.chan[3]
  BY <1>1, <1>2, Taken
<1>4. P \subseteq 1 .. Len(old.asked) /\ Len(old.results) + Cardinality(P) <= Len(old.asked)
  BY <1>1, <1>2 DEF Turn
<1>5. /\ results \in Seq(Range(results)) /\ Len(results) = Len(old.results) + 1
      /\ Len(old.results) \in Nat /\ Len(old.asked) \in Nat
  BY <1>2, ResultsGrow, LenProperties DEF Shape
<1>6. f.chan[3] \in P /\ P2 \subseteq P \ {f.chan[3]}
  BY <1>1, <1>3 DEF Places
<1>7. IsFiniteSet(P)
  <2>1. IsFiniteSet(1 .. Len(old.asked))
    BY <1>5, FS_Interval
  <2> QED
    BY <1>4, <2>1, FS_Subset
<1>8. /\ Cardinality(P) \in Nat /\ Cardinality(P2) \in Nat /\ Cardinality(P2) + 1 <= Cardinality(P)
      /\ IsFiniteSet(P2)
  <2> HIDE DEF P, P2
  <2>1. /\ Cardinality(P \ {f.chan[3]}) = Cardinality(P) - 1 /\ IsFiniteSet(P \ {f.chan[3]})
        /\ Cardinality(P) \in Nat
    BY <1>6, <1>7, FS_RemoveElement, FS_CardinalityType
  <2>2. Cardinality(P2) <= Cardinality(P \ {f.chan[3]}) /\ IsFiniteSet(P2)
    BY <1>6, <2>1, FS_Subset
  <2>3. Cardinality(P2) \in Nat
    BY <2>2, FS_CardinalityType
  <2> QED
    BY <2>1, <2>2, <2>3
<1>9. CASE Len(results) = Len(old.asked)
  <2>1. Cardinality(P2) = 0
    BY <1>4, <1>5, <1>8, <1>9
  <2>2. P2 = {}
    BY <1>8, <2>1, FS_EmptySet
  <2>3. \A x \in LiveOf(Live', c) : x[2] = old.round => <<c, x[2]>> \in expired'
    <3>1. \A x \in LiveOf(Live', c) : x[2] = old.round => x[3] \in P2
      BY DEF LiveOf, Places
    <3> QED
      BY <2>2, <3>1
  <2>4. /\ EndRound(c, results) /\ Running(c) /\ calls[c].pc = "collect" /\ waiters' = waiters
        /\ fwd' \subseteq fwd /\ expired \subseteq expired'
    BY <1>1, <1>9
  <2> HIDE DEF results
  <2> QED
    BY <2>3, <2>4, RoundEnds
<1>10. CASE Len(results) # Len(old.asked)
  <2> DEFINE new == [old EXCEPT !.results = results]
  <2>1. calls' = [calls EXCEPT ![c] = new] /\ UNCHANGED <<down, expired>>
    BY <1>1, <1>2, <1>10
  <2> HIDE DEF results, P, P2, old
  <2>2. /\ DOMAIN new = CallFields /\ Same(new, old) /\ new.pc = "collect"
        /\ new.asked = old.asked /\ new.round = old.round /\ new.results = results
    BY <1>1, <1>2 DEF CallFields, Same
  <2> HIDE DEF new
  <2>3. Shape(new) /\ Near(new) /\ new.by = old.by
    BY <1>2, <1>5, <2>2 DEF Same, Shape, Near
  <2>4. \A d \in Calls : LiveOf(Live', d) \subseteq LiveOf(Live, d)
    BY <1>3 DEF LiveOf
  <2>5. Turn(c, new, Live', down[old.by], expired)
    <3>1. P2 \subseteq 1 .. Len(old.asked) /\ Len(results) + Cardinality(P2) <= Len(old.asked)
      <4>1. P2 \subseteq 1 .. Len(old.asked)
        BY <1>4, <1>6
      <4> DEFINE n == Len(old.results)  a == Len(old.asked)  k == Cardinality(P)
                 k2 == Cardinality(P2)
      <4>2. /\ n \in Nat /\ a \in Nat /\ k \in Nat /\ k2 \in Nat
            /\ n + k <= a /\ k2 + 1 <= k /\ Len(results) = n + 1
        BY <1>4, <1>5, <1>8
      <4> HIDE DEF n, a, k, k2
      <4>3. Len(results) + k2 <= a
        BY <4>2
      <4> QED
        BY <4>1, <4>3 DEF a, k2
    <3>2. /\ Places(Live', c, new.round) \subseteq 1 .. Len(new.asked)
          /\ Len(new.results) + Cardinality(Places(Live', c, new.round)) <= Len(new.asked)
      BY <2>2, <3>1 DEF P2
    <3>3. \A x \in LiveOf(Live', c) :
            /\ x[2] \in 0 .. old.round
            /\ down[old.by] = "no" => x[2] = old.round \/ <<c, x[2]>> \in expired
      BY <1>2, <2>4 DEF Turn
    <3> QED
      BY <2>2, <3>2, <3>3 DEF Turn
  <2>6. \A w \in waiters' : w.q = "ping" => calls'[w.chan[1]].pc = "pong"
    <3>1. \A w \in waiters : w.q = "ping" => w.chan[1] # c /\ w.chan[1] \in Calls
      BY <1>1, <1>2 DEF Waiting, old
    <3> QED
      BY <1>1, <1>2, <2>1, <3>1 DEF Waiting
  <2>7. Waiting'
    BY <1>1, <1>2, <2>6, WaitingShrinks
  <2>8. down' \in [Nodes -> {"no", "left", "closed", "empty", "ping"}] /\ expired \subseteq expired'
        /\ \A n \in Nodes : Up(n)' => Up(n)
    BY <1>2, <2>1 DEF Up
  <2>9. Turn(c, new, Live', down'[new.by], expired')
    BY <2>1, <2>3, <2>5
  <2> QED
    BY <2>1, <2>3, <2>4, <2>7, <2>8, <2>9, CallKeeps
<1> QED
  BY <1>9, <1>10

-------------------------------------------------------------------------------
(* The theorems. *)

\* What needs no call: datagrams, the store, the time, nodes that go away.
LEMMA NodeSteps ==
  ASSUME LookInv,
         \/ \E n \in Nodes, m \in net : HandleQuery(n, m) \/ HandleResponse(n, m)
         \/ \E f \in fwd : SendOnClosed(f)
         \/ \E n \in Nodes, t \in Tids : Sweep(n, t)
         \/ \E n \in Nodes, p \in Pairs : Expire(n, p)
         \/ \E n \in Nodes : CheckForExpirationTime(n)
         \/ \E n \in Nodes : Leave(n)
         \/ UNCHANGED vars
  PROVE  LookInv'
<1>1. /\ UNCHANGED <<calls, waiters, fwd, expired>>
      /\ down' = down \/ \E n, why : why \in {"left", "closed"} /\ down' = [down EXCEPT ![n] = why]
  <2>1. ASSUME NEW n \in Nodes, NEW m \in net, HandleQuery(n, m) \/ HandleResponse(n, m)
        PROVE  UNCHANGED <<calls, waiters, fwd, expired, down>>
    BY <2>1 DEF HandleQuery, HandleResponse, routines, history
  <2>2. ASSUME NEW f \in fwd, SendOnClosed(f)
        PROVE  /\ UNCHANGED <<calls, waiters, fwd, expired>>
               /\ down' = [down EXCEPT ![Caller(f.chan)] = "closed"]
    BY <2>2 DEF SendOnClosed, routines, history
  <2>3. ASSUME NEW n \in Nodes, NEW t \in Tids, Sweep(n, t)
        PROVE  UNCHANGED <<calls, waiters, fwd, expired, down>>
    BY <2>3 DEF Sweep, routines, history
  <2>4. ASSUME NEW n \in Nodes, NEW p \in Pairs, Expire(n, p)
        PROVE  UNCHANGED <<calls, waiters, fwd, expired, down>>
    BY <2>4 DEF Expire, routines, history
  <2>5. ASSUME NEW n \in Nodes, CheckForExpirationTime(n)
        PROVE  UNCHANGED <<calls, waiters, fwd, expired, down>>
    BY <2>5 DEF CheckForExpirationTime, routines, history
  <2>6. ASSUME NEW n \in Nodes, Leave(n)
        PROVE  /\ UNCHANGED <<calls, waiters, fwd, expired>>
               /\ down' = [down EXCEPT ![n] = "left"]
    BY <2>6 DEF Leave, routines, history
  <2>7. CASE UNCHANGED vars
    BY <2>7 DEF vars
  <2> QED
    BY <2>1, <2>2, <2>3, <2>4, <2>5, <2>6, <2>7
<1>2. down \in [Nodes -> {"no", "left", "closed", "empty", "ping"}]
  BY DEF LookInv
<1>3. /\ down' \in [Nodes -> {"no", "left", "closed", "empty", "ping"}]
      /\ \A n \in Nodes : down'[n] = "no" => down[n] = "no"
  BY <1>1, <1>2
<1>4. \A n \in Nodes : Up(n)' => Up(n)
  BY <1>3 DEF Up
<1> QED
  BY <1>1, <1>3, <1>4, QuietKeeps

\* The invariant is inductive.
LEMMA LookSteps == LookInv /\ [Next]_vars => LookInv'
<1> SUFFICES ASSUME LookInv, [Next]_vars PROVE LookInv'
  OBVIOUS
<1>1. ASSUME NEW w \in waiters, (\E p \in pend : WaiterReceives(w, p)) \/ WaiterTimesOut(w)
      PROVE  LookInv'
  <2>1. w.q \in {"ping", "lookup", "announce"}
    BY DEF LookInv, Waiting
  <2> QED
    BY <1>1, <2>1, LookupWaiterStep, PingWaiterStep, AnnounceWaiterStep
<1>2. ASSUME NEW c \in Calls, NEW r \in Refreshed, RefreshBucket(c, r[1], r[2]) PROVE LookInv'
  <2>1. r[1] \in Nodes /\ r[2] \in Buckets
    BY KademliaAssumption
  <2> QED
    BY <1>2, <2>1, RefreshStep
<1>3. ASSUME NEW c \in Calls,
             \/ \E r \in Requests[c] : Call(c, r)
             \/ \E t \in Tids : WriteQuery(c, t)
             \/ Register(c) \/ CollectTimesOut(c)
             \/ \E f \in fwd : Collect(c, f)
             \/ \E t \in Tids : MakeAnnounce(c, t)
             \/ \E t \in Tids : WriteFails(c, t)
             \/ \E i \in calls[c].todo : WriteAnnounce(c, i) \/ AnnounceFails(c, i)
             \/ \E i \in calls[c].sent : RegisterAnnounce(c, i)
      PROVE  LookInv'
  <2>1. CASE \/ \E t \in Tids : MakeAnnounce(c, t)
             \/ \E i \in calls[c].todo : WriteAnnounce(c, i) \/ AnnounceFails(c, i)
    BY <2>1, AnnounceSteps
  <2>2. CASE \E i \in calls[c].sent : RegisterAnnounce(c, i)
    BY <2>2, RegisterAnnounceStep
  <2>3. CASE \E t \in Tids : WriteFails(c, t)
    BY <2>3, WriteFailsStep
  <2> QED
    BY <1>3, <2>1, <2>2, <2>3, CallStep, WriteQueryStep, RegisterStep, CollectTimesOutStep,
       CollectStep
<1> QED
  BY <1>1, <1>2, <1>3, NodeSteps DEF Next

\* It holds before the first call.
LEMMA LookBegins == Init => LookInv
<1> SUFFICES ASSUME Init PROVE LookInv
  OBVIOUS
<1>i. /\ down = [n \in Nodes |-> "no"] /\ calls = [c \in Calls |-> Idle]
      /\ waiters = {} /\ fwd = {}
  BY Zenon DEF Init
<1> DEFINE r == [use |-> "none", by |-> Bootstrap, target |-> {}]
<1>0. r.by \in Nodes /\ r.use = "none"
  BY KademliaAssumption
<1>1. Idle = [NewCall(r) EXCEPT !.pc = "idle"]
  BY DEF Idle
<1> HIDE DEF r
<1> DEFINE new == NewCall(r)
<1>2. DOMAIN new = CallFields /\ Shape(new) /\ new.results = <<>> /\ new.use = "none"
  BY <1>0, NewShape
<1> HIDE DEF new
<1>3. /\ DOMAIN Idle = CallFields /\ Idle.pc = "idle" /\ Idle.use = "none" /\ Idle.results = <<>>
      /\ Idle.by = new.by /\ Idle.round = new.round /\ Idle.asked = new.asked
  BY <1>1, <1>2 DEF CallFields, new
<1>4. Shape(Idle) /\ Near(Idle)
  BY <1>2, <1>3, EmptyShape DEF Shape, Near
<1>5. Live = {} /\ Waiting
  BY <1>i DEF Live, Waiting
<1>6. \A c \in Calls : LiveOf(Live, c) = {}
  BY <1>5 DEF LiveOf
<1>7. \A c \in Calls : Turn(c, Idle, Live, down[Idle.by], expired)
  BY <1>3, <1>6, TurnEmpty
<1> QED
  BY <1>i, <1>4, <1>5, <1>7 DEF LookInv

\* The invariant the theorems below rest on.
LEMMA LookInvariant == Spec => []LookInv
BY LookBegins, LookSteps, PTL DEF Spec

\* No goroutine is left that would send on the channel of a round that counted
\* its answers: however many calls run, whatever is late, lost or drawn twice.
THEOREM CountedRounds == Spec => []CountedRoundIsOver
<1>1. LookInv => CountedRoundIsOver
  <2> SUFFICES ASSUME LookInv, NEW x \in {w \in waiters : w.q = "lookup"} \cup fwd,
                      Up(Caller(x.chan))
               PROVE  Collecting(x.chan) \/ <<x.chan[1], x.chan[2]>> \in expired
    BY DEF CountedRoundIsOver
  <2> DEFINE c == x.chan[1]
  <2>1. x.chan \in Live /\ c \in Calls
    BY DEF Live, LookInv, Waiting
  <2>2. x.chan \in LiveOf(Live, c) /\ down[calls[c].by] = "no"
    BY <2>1 DEF LiveOf, Up, Caller
  <2>3. Turn(c, calls[c], Live, down[calls[c].by], expired)
    BY <2>1 DEF LookInv
  <2> HIDE DEF c
  <2>4. (calls[c].pc = "collect" /\ x.chan[2] = calls[c].round) \/ <<c, x.chan[2]>> \in expired
    BY <2>2, <2>3 DEF Turn
  <2> QED
    BY <2>4 DEF c, Collecting
<1> QED
  BY <1>1, LookInvariant, PTL

\* Ids of any number of bits, in bytes of any number of bits: the id a refresh
\* looks for lies no farther than its bucket, but for that of every W-th one.
THEOREM RefreshesStayNear == Spec => []RefreshStaysNear
<1>1. LookInv => RefreshStaysNear
  BY DEF LookInv, Near, RefreshStaysNear
<1> QED
  BY <1>1, LookInvariant, PTL

===============================================================================
