-------------------------- MODULE DownloadTaskProofs --------------------------
(***************************************************************************)
(* No task is lost or done twice: proofs about Download that count the     *)
(* pieces, for every set of peers and every file.                          *)
(***************************************************************************)
EXTENDS DownloadProofs, FiniteSetTheorems, SequenceTheorems

-------------------------------------------------------------------------------
(* Counting in sequences. *)

\* How often something occurs in a sequence is a number.
LEMMA CountNat ==
  ASSUME NEW S, NEW s \in Seq(S), NEW p
  PROVE  /\ IsFiniteSet({k \in 1 .. Len(s) : s[k] = p})
         /\ Count(s, p) \in Nat
         /\ Count(s, p) = 0 <=> \A k \in 1 .. Len(s) : s[k] # p
<1> DEFINE K == {k \in 1 .. Len(s) : s[k] = p}
<1>1. IsFiniteSet(1 .. Len(s))
  BY FS_Interval
<1>2. IsFiniteSet(K)
  BY <1>1, FS_Subset
<1>3. Cardinality(K) \in Nat /\ (Cardinality(K) = 0 <=> K = {})
  BY <1>2, FS_CardinalityType, FS_EmptySet
<1> QED
  BY <1>2, <1>3 DEF Count

\* Occurrences add up.
LEMMA CountConcat ==
  ASSUME NEW S, NEW s \in Seq(S), NEW t \in Seq(S), NEW p
  PROVE  Count(s \o t, p) = Count(s, p) + Count(t, p)
<1> DEFINE A == {k \in 1 .. Len(s) : s[k] = p}
           B == {k \in 1 .. Len(t) : t[k] = p}
           C == {k \in Len(s) + 1 .. Len(s) + Len(t) : t[k - Len(s)] = p}
           D == {k \in 1 .. Len(s \o t) : (s \o t)[k] = p}
           f == [k \in B |-> k + Len(s)]
<1>0. Len(s) \in Nat /\ Len(t) \in Nat
  OBVIOUS
<1>1. IsFiniteSet(A) /\ IsFiniteSet(B)
  BY CountNat
<1>2. f \in Bijection(B, C)
  <2>1. f \in [B -> C]
    BY <1>0
  <2>2. \A j, k \in B : f[j] = f[k] => j = k
    BY <1>0
  <2>3. \A c \in C : \E k \in B : f[k] = c
    <3> SUFFICES ASSUME NEW c \in C
                 PROVE  c - Len(s) \in B /\ f[c - Len(s)] = c
      OBVIOUS
    <3>1. c - Len(s) \in B
      BY <1>0
    <3> QED
      BY <1>0, <3>1
  <2> QED
    BY <2>1, <2>2, <2>3 DEF Bijection, Injection, Surjection, IsInjective
<1>3. IsFiniteSet(C) /\ Cardinality(C) = Cardinality(B)
  BY <1>1, <1>2, FS_Bijection DEF ExistsBijection
<1>4. D = A \cup C /\ A \cap C = {}
  <2>1. /\ Len(s \o t) = Len(s) + Len(t)
        /\ \A k \in 1 .. Len(s) + Len(t) :
             (s \o t)[k] = IF k <= Len(s) THEN s[k] ELSE t[k - Len(s)]
    BY ConcatProperties
  <2> QED
    BY <1>0, <2>1
<1>5. Cardinality(A \cup C) = Cardinality(A) + Cardinality(C)
  <2>1. Cardinality(A \cup C) = Cardinality(A) + Cardinality(C) - Cardinality(A \cap C)
    BY <1>1, <1>3, FS_Union
  <2>2. Cardinality(A \cap C) = 0 /\ Cardinality(A) \in Nat /\ Cardinality(C) \in Nat
    BY <1>1, <1>3, <1>4, FS_EmptySet, FS_CardinalityType
  <2> QED
    BY <2>1, <2>2
<1> QED
  BY <1>3, <1>4, <1>5 DEF Count

\* Sequences of no element and of one.
LEMMA CountSmall ==
  ASSUME NEW e, NEW p
  PROVE  /\ Count(<<>>, p) = 0
         /\ Count(<<e>>, p) = IF e = p THEN 1 ELSE 0
<1>1. {k \in 1 .. Len(<<>>) : <<>>[k] = p} = {}
  OBVIOUS
<1>2. {k \in 1 .. Len(<<e>>) : <<e>>[k] = p} = IF e = p THEN {1} ELSE {}
  OBVIOUS
<1> QED
  BY <1>1, <1>2, FS_EmptySet, FS_Singleton DEF Count

\* A sequence that grows at its end, and one that shrinks at its head.
LEMMA CountEnds ==
  ASSUME NEW S, NEW s \in Seq(S), NEW e \in S, NEW p
  PROVE  /\ Count(Append(s, e), p) = Count(s, p) + (IF e = p THEN 1 ELSE 0)
         /\ s # <<>> =>
              Count(s, p) = (IF Head(s) = p THEN 1 ELSE 0) + Count(Tail(s), p)
<1>1. Append(s, e) = s \o <<e>> /\ <<e>> \in Seq(S)
  BY AppendIsConcat
<1>2. Count(s \o <<e>>, p) = Count(s, p) + Count(<<e>>, p)
  BY <1>1, CountConcat
<1>3. ASSUME s # <<>>
      PROVE  Count(s, p) = (IF Head(s) = p THEN 1 ELSE 0) + Count(Tail(s), p)
  <2>1. s = <<Head(s)>> \o Tail(s) /\ <<Head(s)>> \in Seq(S) /\ Tail(s) \in Seq(S)
    BY <1>3
  <2>2. Count(<<Head(s)>> \o Tail(s), p) = Count(<<Head(s)>>, p) + Count(Tail(s), p)
    BY <2>1, CountConcat
  <2> QED
    BY <2>1, <2>2, CountSmall
<1> QED
  BY <1>1, <1>2, <1>3, CountSmall

-------------------------------------------------------------------------------
(* Tasks owed and results. *)

\* A goroutine owes at most every piece.
LEMMA RemainingType ==
  ASSUME Inv
  PROVE  \A w \in Workers : Remaining(w) \in 0 .. NumPieces
<1>1. \A w \in Workers : len[w] \in 0 .. NumPieces /\ (Holding(w) => len[w] + 1 <= NumPieces)
  BY DEF Inv, TypeOK, HeaderFits
<1> QED
  BY <1>1, NumPiecesPos DEF Remaining

\* There are finitely many results.
LEMMA DischargedFinite == IsFiniteSet(Workers \X (1 .. NumPieces)) /\ IsFiniteSet(Discharged)
<1>1. IsFiniteSet(Workers) /\ IsFiniteSet(1 .. NumPieces)
  BY NumPiecesPos, ConstantsAssumption, FS_Interval
<1>2. IsFiniteSet(Workers \X (1 .. NumPieces))
  BY <1>1, FS_Product
<1> QED
  BY <1>2, FS_Subset DEF Discharged

\* Steps that move tasks about and neither send nor count a result.
LEMMA ConservedKept ==
  ASSUME TasksConserved, \A v \in Workers : Remaining(v)' = Remaining(v),
         UNCHANGED <<donePieces, responses>>
  PROVE  TasksConserved'
BY DEF TasksConserved, Discharged

\* A result is sent: its goroutine owes one piece less.
LEMMA RespondConserved ==
  ASSUME Inv, TasksConserved, NEW w \in Workers, Respond(w), collector # "closed"
  PROVE  TasksConserved'
<1>1. /\ pc[w] = "respond" /\ pc' = [pc EXCEPT ![w] = "select"] /\ len' = len
      /\ responses' = Append(responses, task[w]) /\ donePieces' = donePieces
  BY DEF Respond, Goto
<1>2. /\ task[w] \in Pieces /\ responses \in Seq(Pieces) /\ pc'[w] = "select"
      /\ len[w] \in Nat /\ donePieces \in Nat
      /\ \A v \in Workers \ {w} : pc'[v] = pc[v]
  <2>1. /\ task[w] \in Pieces /\ responses \in Seq(Pieces) /\ pc'[w] = "select"
        /\ len[w] \in 0 .. NumPieces /\ donePieces \in 0 .. NumPieces
        /\ \A v \in Workers \ {w} : pc'[v] = pc[v]
    BY <1>1 DEF Inv, TypeOK
  <2> QED
    BY <2>1, NumPiecesPos
<1>3. /\ Remaining(w) = len[w] + 1 /\ Remaining(w)' = len[w]
      /\ \A v \in Workers \ {w} : Remaining(v)' = Remaining(v)
  BY <1>1, <1>2 DEF Remaining, Holding
<1>4. Remaining(w) \in 1 .. NumPieces
  BY <1>2, <1>3, RemainingType
<1>5. Discharged' = Discharged \cup {<<w, Remaining(w)>>}
  BY <1>2, <1>3, <1>4, NumPiecesPos DEF Discharged
<1>6. <<w, Remaining(w)>> \notin Discharged
  BY <1>2, <1>3 DEF Discharged
<1>7. Cardinality(Discharged') = Cardinality(Discharged) + 1
  BY <1>5, <1>6, DischargedFinite, FS_AddElement
<1>8. Len(responses') = Len(responses) + 1 /\ Len(responses) \in Nat
  BY <1>1, <1>2, AppendProperties
<1> QED
  BY <1>1, <1>2, <1>7, <1>8 DEF TasksConserved

\* A result is counted.
LEMMA CollectConserved ==
  ASSUME Inv, TasksConserved, Collect
  PROVE  TasksConserved'
<1>1. /\ responses \in Seq(Pieces) /\ responses # <<>> /\ donePieces \in 0 .. NumPieces
      /\ responses' = Tail(responses) /\ donePieces' = donePieces + 1
      /\ UNCHANGED <<pc, len>>
  BY DEF Inv, TypeOK, Collect, worker
<1>2. Discharged' = Discharged
  BY <1>1 DEF Discharged, Remaining, Holding
<1>3. Len(responses') = Len(responses) - 1 /\ Len(responses) \in Nat
  BY <1>1
<1> QED
  BY <1>1, <1>2, <1>3 DEF TasksConserved

\* Each step keeps the count.
LEMMA NextConserved ==
  ASSUME Inv, TasksConserved, [Next]_vars
  PROVE  TasksConserved'
<1> USE DEF Goto, shared
<1>0. /\ pc \in [Workers -> {"dial", "failed", "select", "remove", "check", "download",
                             "error", "append", "load", "store", "announce", "respond"}]
      /\ len \in [Workers -> 0 .. NumPieces] /\ NumPieces \in Nat
  BY NumPiecesPos DEF Inv, TypeOK
<1>1. ASSUME NEW why, Panic(why)
      PROVE  TasksConserved'
  BY <1>1, ConservedKept DEF Panic, worker, Remaining, Holding
<1>2. ASSUME NEW w \in Workers, Connect(w) \/ ConnectFails(w) \/ PeerUnreachable(w) \/ Have(w)
      PROVE  TasksConserved'
  <2>1. CASE Connect(w)
    BY <1>0, <2>1, ConservedKept DEF Connect, Remaining, Holding
  <2>2. CASE ConnectFails(w)
    BY <1>0, <1>1, <2>2, ConservedKept DEF ConnectFails, Remaining, Holding
  <2>3. CASE Have(w)
    BY <2>3, ConservedKept DEF Have, Remaining, Holding
  <2> QED
    BY <1>1, <1>2, <2>1, <2>2, <2>3 DEF PeerUnreachable
<1>3. ASSUME NEW w \in Workers, Select(w) \/ Load(w) \/ Store(w)
      PROVE  TasksConserved'
  <2>1. CASE Select(w)
    BY <1>0, <2>1, ConservedKept DEF Select, Remaining, Holding
  <2>2. CASE Load(w) \/ Store(w)
    BY <2>2, ConservedKept DEF Load, Store, Remaining, Holding
  <2> QED
    BY <1>3, <2>1, <2>2
<1>4. ASSUME NEW w \in Workers, Removed(w)
      PROVE  TasksConserved'
  <2>1. /\ pc[w] = "remove" /\ pc'[w] = "check" /\ len'[w] = len[w] - 1 /\ len[w] \in Nat
        /\ \A v \in Workers \ {w} : pc'[v] = pc[v] /\ len'[v] = len[v]
        /\ UNCHANGED <<donePieces, responses>>
    BY <1>0, <1>4 DEF Removed
  <2> QED
    BY <2>1, ConservedKept DEF Remaining, Holding
<1>5. ASSUME NEW w \in Workers, PutBack(w)
      PROVE  TasksConserved'
  <2>1. /\ pc[w] = "append" /\ pc'[w] = "select" /\ len'[w] = len[w] + 1 /\ len[w] \in Nat
        /\ \A v \in Workers \ {w} : pc'[v] = pc[v] /\ len'[v] = len[v]
        /\ UNCHANGED <<donePieces, responses>>
    BY <1>0, <1>5 DEF PutBack
  <2> QED
    BY <2>1, ConservedKept DEF Remaining, Holding
<1>6. ASSUME NEW w \in Workers, NEW l \in {"download", "append", "error", "load", "store",
                                            "announce", "respond"},
             Holding(w), pc' = [pc EXCEPT ![w] = l], UNCHANGED <<len, donePieces, responses>>
      PROVE  TasksConserved'
  <2>1. Holding(w)' /\ \A v \in Workers \ {w} : pc'[v] = pc[v]
    BY <1>0, <1>6 DEF Holding
  <2> QED
    BY <1>6, <2>1, ConservedKept DEF Remaining, Holding
<1>7. ASSUME NEW w \in Workers, HasPiece(w) \/ DownloadPiece(w) \/ SendError(w)
      PROVE  TasksConserved'
  <2>1. CASE HasPiece(w)
    BY <1>1, <1>6, <2>1 DEF HasPiece, Holding
  <2>2. CASE DownloadPiece(w)
    BY <1>6, <2>2 DEF DownloadPiece, Holding
  <2>3. CASE SendError(w)
    BY <1>1, <1>6, <2>3 DEF SendError, Holding
  <2> QED
    BY <1>7, <2>1, <2>2, <2>3
<1>8. ASSUME NEW w \in Workers, ReadDownloaded(w) \/ WriteDownloaded(w) \/ AnnounceProgress(w)
      PROVE  TasksConserved'
  <2>1. CASE ReadDownloaded(w)
    BY <1>6, <2>1 DEF ReadDownloaded, Holding
  <2>2. CASE WriteDownloaded(w)
    BY <1>6, <2>2 DEF WriteDownloaded, Holding
  <2>3. CASE AnnounceProgress(w)
    BY <1>1, <1>6, <2>3 DEF AnnounceProgress, Holding
  <2> QED
    BY <1>8, <2>1, <2>2, <2>3
<1>9. ASSUME NEW w \in Workers, Respond(w) \/ Finish(w) \/ ConcurrentMapWrites(w) \/ KeepAlive(w)
      PROVE  TasksConserved'
  <2>1. CASE collector = "closed" /\ Respond(w)
    BY <1>1, <2>1 DEF Respond
  <2> QED
    BY <1>1, <1>9, <2>1, RespondConserved DEF Finish, ConcurrentMapWrites, KeepAlive
<1>10. CASE CloseResponses \/ UNCHANGED vars
  BY <1>10, ConservedKept DEF CloseResponses, vars, worker, Remaining, Holding
<1> QED
  BY <1>2, <1>3, <1>4, <1>5, <1>7, <1>8, <1>9, <1>10, CollectConserved DEF Next, WorkerStep

\* No task is lost and none counted twice in the loops of the goroutines, for
\* any number of them and of pieces.  That remove never leaves a slice
\* (HeaderFits) is what makes the count of a goroutine a number.
THEOREM NoTaskLost == Spec => []TasksConserved
<1>1. Init => TasksConserved
  <2> SUFFICES ASSUME Init PROVE TasksConserved
    OBVIOUS
  <2>1. \A w \in Workers : Remaining(w) = NumPieces
    <3>1. \A w \in Workers : ~Holding(w) /\ len[w] = NumPieces
      BY DEF Init, Holding
    <3> QED
      BY <3>1, NumPiecesPos DEF Remaining
  <2>2. Discharged = {}
    BY <2>1, NumPiecesPos DEF Discharged
  <2>3. donePieces = 0 /\ Len(responses) = 0
    BY DEF Init
  <2> QED
    BY <2>2, <2>3, FS_EmptySet DEF TasksConserved
<1>2. Inv /\ TasksConserved /\ [Next]_vars => TasksConserved'
  BY NextConserved
<1> QED
  BY <1>1, <1>2, Invariance, PTL DEF Spec

-------------------------------------------------------------------------------
(* What ends the process. *)

\* A goroutine that is not in the loop yet owes every piece, and the connection
\* of a peer of Honest holds.
Start ==
  /\ \A w \in Workers : pc[w] \in {"dial", "failed"} => len[w] = NumPieces
  /\ \A w \in Honest : conn[w] \in {"none", "up"} /\ pc[w] # "failed"

\* The goroutine that panicked stands where it did.
Cause ==
  /\ crashed = "nil" =>
       \E w \in Workers : pc[w] = "dial" \/ (pc[w] = "select" /\ len[w] = 0)
  /\ crashed = "index" => \E w \in Workers : pc[w] = "check" /\ conn[w] = "short"
  /\ crashed = "map" =>
       \E w, v \in Workers : w # v /\ pc[w] = "download" /\ pc[v] = "download"
  /\ crashed = "keepalive" => \E w \in Workers \ Honest : pc[w] = "download"

\* A panic with its cause.
LEMMA PanicCause ==
  ASSUME Start, NEW why, Panic(why),
         why = "nil" => \E w \in Workers : pc[w] = "dial" \/ (pc[w] = "select" /\ len[w] = 0),
         why = "index" => \E w \in Workers : pc[w] = "check" /\ conn[w] = "short",
         why = "map" =>
           \E w, v \in Workers : w # v /\ pc[w] = "download" /\ pc[v] = "download",
         why = "keepalive" => \E w \in Workers \ Honest : pc[w] = "download"
  PROVE  Start' /\ Cause'
BY DEF Panic, worker, Start, Cause

\* Each step keeps both.
LEMMA NextCause ==
  ASSUME Inv, Start, Cause, [Next]_vars
  PROVE  Start' /\ Cause'
<1> USE DEF Goto, shared, Alive
<1>0. /\ pc \in [Workers -> {"dial", "failed", "select", "remove", "check", "download",
                             "error", "append", "load", "store", "announce", "respond"}]
      /\ len \in [Workers -> 0 .. NumPieces]
      /\ conn \in [Workers -> {"none", "up", "down", "short"}]
      /\ Honest \subseteq Workers
  BY ConstantsAssumption DEF Inv, TypeOK
<1>1. ASSUME Panic("closed")
      PROVE  Start' /\ Cause'
  BY <1>1, PanicCause
<1>2. ASSUME NEW w \in Workers, NEW l \in {"select", "remove", "check", "download", "append",
                                            "error", "load", "store", "announce", "respond"},
             pc[w] \notin {"dial", "failed"}, pc' = [pc EXCEPT ![w] = l] \/ pc' = pc,
             \A v \in Workers \ {w} : len'[v] = len[v], crashed' = "no",
             conn' = conn \/ (w \notin Honest /\ \A v \in Workers \ {w} : conn'[v] = conn[v])
      PROVE  Start' /\ Cause'
  <2>1. pc'[w] \notin {"dial", "failed"} /\ \A v \in Workers \ {w} : pc'[v] = pc[v]
    BY <1>0, <1>2
  <2>2. Cause'
    BY <1>2 DEF Cause
  <2> QED
    BY <1>0, <1>2, <2>1, <2>2 DEF Start
<1>3. ASSUME NEW w \in Workers, Connect(w) \/ ConnectFails(w) \/ PeerUnreachable(w)
      PROVE  Start' /\ Cause'
  <2>1. CASE Connect(w)
    <3>1. /\ \A v \in Workers \ {w} : pc'[v] = pc[v] /\ conn'[v] = conn[v]
          /\ pc'[w] = "select" /\ len' = len /\ crashed' = "no"
          /\ conn'[w] = "up" \/ w \notin Honest
      BY <1>0, <2>1 DEF Connect
    <3> QED
      BY <1>0, <3>1 DEF Start, Cause
  <2>2. CASE ConnectFails(w) /\ collector = "collect"
    <3>1. /\ \A v \in Workers \ {w} : pc'[v] = pc[v]
          /\ pc[w] = "dial" /\ w \notin Honest
          /\ UNCHANGED <<len, conn>> /\ crashed' = "no"
      BY <1>0, <2>2 DEF ConnectFails
    <3> QED
      BY <1>0, <3>1 DEF Start, Cause
  <2>3. CASE PeerUnreachable(w)
    BY <2>3, PanicCause DEF PeerUnreachable
  <2> QED
    BY <1>1, <1>3, <2>1, <2>2, <2>3 DEF ConnectFails
<1>4. ASSUME NEW w \in Workers, Have(w) \/ Load(w) \/ Store(w)
      PROVE  Start' /\ Cause'
  BY <1>4 DEF Have, Load, Store, Start, Cause
<1>5. ASSUME NEW w \in Workers, Select(w) \/ Removed(w) \/ PutBack(w)
      PROVE  Start' /\ Cause'
  <2>1. \A v \in Workers \ {w} : len'[v] = len[v]
    BY <1>0, <1>5 DEF Select, Removed, PutBack
  <2> QED
    BY <1>2, <1>5, <2>1 DEF Select, Removed, PutBack
<1>6. ASSUME NEW w \in Workers, HasPiece(w)
      PROVE  Start' /\ Cause'
  <2>1. CASE conn[w] = "short"
    BY <1>6, <2>1, PanicCause DEF HasPiece
  <2>2. CASE conn[w] # "short"
    BY <1>2, <1>6, <2>2 DEF HasPiece
  <2> QED
    BY <2>1, <2>2
<1>7. ASSUME NEW w \in Workers, DownloadPiece(w)
      PROVE  Start' /\ Cause'
  <2>1. conn' = conn \/ (w \notin Honest /\ \A v \in Workers \ {w} : conn'[v] = conn[v])
    BY <1>0, <1>7 DEF DownloadPiece
  <2> QED
    BY <1>2, <1>7, <2>1 DEF DownloadPiece
<1>8. ASSUME NEW w \in Workers, SendError(w) \/ AnnounceProgress(w) \/ Respond(w)
      PROVE  Start' /\ Cause'
  BY <1>1, <1>2, <1>8 DEF SendError, AnnounceProgress, Respond
<1>9. ASSUME NEW w \in Workers, ReadDownloaded(w) \/ WriteDownloaded(w)
      PROVE  Start' /\ Cause'
  BY <1>2, <1>9 DEF ReadDownloaded, WriteDownloaded
<1>10. ASSUME NEW w \in Workers, Finish(w) \/ ConcurrentMapWrites(w) \/ KeepAlive(w)
       PROVE  Start' /\ Cause'
  BY <1>10, PanicCause DEF Finish, ConcurrentMapWrites, KeepAlive
<1>11. CASE Collect \/ CloseResponses \/ UNCHANGED vars
  BY <1>11 DEF Collect, CloseResponses, vars, worker, Start, Cause
<1> QED
  BY <1>3, <1>4, <1>5, <1>6, <1>7, <1>8, <1>9, <1>10, <1>11 DEF Next, WorkerStep

\* A goroutine that is alone and behaves dies of nothing but the end of its loop
\* or a channel that was closed: by then every piece is a result.
LEMMA DeathCounted ==
  ASSUME Inv, Start, Cause, TasksConserved, NEW w \in Honest, Sole(w), ~Alive
  PROVE  donePieces + Len(responses) = NumPieces
<1>0. /\ w \in Workers /\ pc[w] \notin {"dial", "failed"} /\ conn[w] # "short"
      /\ \A v \in Workers \ {w} : pc[v] = "failed" /\ len[v] = NumPieces
  BY ConstantsAssumption DEF Sole, Alone, Start
<1>1. /\ crashed \in {"nil", "closed", "index", "map", "keepalive"} /\ donePieces \in 0 .. NumPieces
      /\ Len(responses) \in Nat
  <2>1. /\ crashed \in {"nil", "closed", "index", "map", "keepalive"} /\ donePieces \in 0 .. NumPieces
        /\ responses \in Seq(Pieces)
    BY DEF Inv, TypeOK, Alive
  <2> QED
    BY <2>1
<1>2. \A v \in Workers \ {w} : Remaining(v) = NumPieces
  BY <1>0, NumPiecesPos DEF Remaining, Holding
<1>3. crashed \notin {"index", "map", "keepalive"}
  BY <1>0 DEF Cause
<1> DEFINE mine == {w} \X (1 .. NumPieces)
<1>4. IsFiniteSet(mine) /\ Cardinality(mine) = NumPieces
  <2>1. IsFiniteSet(1 .. NumPieces) /\ Cardinality(1 .. NumPieces) = NumPieces
    BY NumPiecesPos, FS_Interval
  <2>2. IsFiniteSet({w}) /\ Cardinality({w}) = 1
    BY FS_Singleton
  <2>3. IsFiniteSet(mine) /\ Cardinality(mine) = 1 * NumPieces
    BY ZenonT(30), <2>1, <2>2, FS_Product
  <2> QED
    BY <2>3, NumPiecesPos
<1>5. CASE crashed = "nil"
  <2>1. pc[w] = "select" /\ len[w] = 0
    BY <1>0, <1>5 DEF Cause
  <2>2. Remaining(w) = 0
    BY <2>1 DEF Remaining, Holding
  <2>3. Discharged = mine
    BY <1>0, <1>2, <2>2, NumPiecesPos DEF Discharged
  <2> QED
    BY <1>4, <2>3 DEF TasksConserved
<1>6. CASE crashed = "closed"
  <2>1. donePieces = NumPieces
    BY <1>1, <1>6, NumPiecesPos DEF Inv, CollectorCounts
  <2>2. Discharged \in SUBSET mine
    BY <1>0, <1>2, NumPiecesPos DEF Discharged
  <2>3. Cardinality(Discharged) <= NumPieces
    BY <1>4, <2>2, FS_Subset
  <2> QED
    BY <1>1, <2>1, <2>3, NumPiecesPos DEF TasksConserved
<1> QED
  BY <1>1, <1>3, <1>5, <1>6

\* A sole peer that behaves brings the process down only when every piece was
\* sent to the collector.  TasksConserved turns the goroutine's empty slice
\* into a number of results; Cause says that it was its slice.
THEOREM DeathAtTheEnd == Spec => []DiesAfterLastPiece
<1>1. Init => Start /\ Cause
  <2> SUFFICES ASSUME Init PROVE Start /\ Cause
    OBVIOUS
  <2>1. /\ \A w \in Workers : pc[w] = "dial" /\ len[w] = NumPieces /\ conn[w] = "none"
        /\ Honest \subseteq Workers /\ crashed = "no"
    BY ConstantsAssumption DEF Init
  <2> QED
    BY <2>1 DEF Start, Cause
<1>2. Inv /\ Start /\ Cause /\ [Next]_vars => Start' /\ Cause'
  BY NextCause
<1>3. Inv /\ Start /\ Cause /\ TasksConserved => DiesAfterLastPiece
  BY DeathCounted DEF DiesAfterLastPiece
<1> QED
  BY <1>1, <1>2, <1>3, Invariance, NoTaskLost, PTL DEF Spec

-------------------------------------------------------------------------------
(* Where the pieces are while one goroutine is at work. *)

\* Until a goroutine comes into the loop nothing has happened.
Idle(w) == pc[w] \in {"dial", "failed"}

Untouched ==
  /\ \A w \in Workers : Idle(w) => len[w] = NumPieces /\ left[w] = Length
  /\ (\A w \in Workers : Idle(w)) =>
       /\ tasks = [c \in Cells |-> c - 1] /\ responses = <<>> /\ buf = {}
       /\ downloaded = 0

Amount(w, p) ==
  Count(View(w), p) + Count(responses, p) + (IF p \in buf THEN 1 ELSE 0)

OneEach(w) == \A p \in Pieces : Amount(w, p) = 1

\* Parts of the array are sequences of pieces.
LEMMA PartType ==
  ASSUME Inv
  PROVE  /\ tasks \in Seq(Pieces) /\ Len(tasks) = NumPieces
         /\ \A m \in 1 .. NumPieces + 1, n \in 0 .. NumPieces : SubSeq(tasks, m, n) \in Seq(Pieces)
<1>1. tasks \in [1 .. NumPieces -> Pieces] /\ NumPieces \in Nat
  BY NumPiecesPos DEF Inv, TypeOK, Cells
<1>2. tasks \in Seq(Pieces) /\ Len(tasks) = NumPieces
  BY <1>1
<1>3. ASSUME NEW m \in 1 .. NumPieces + 1, NEW n \in 0 .. NumPieces
      PROVE  SubSeq(tasks, m, n) \in Seq(Pieces)
  <2>1. m \in Int /\ n \in Int /\ \A i \in m .. n : tasks[i] \in Pieces
    BY <1>1
  <2> QED
    BY <2>1, SubSeqProperties
<1> QED
  BY <1>2, <1>3

\* The ranges of what a goroutine works with.
LEMMA WorkerTypes ==
  ASSUME Inv, NEW w \in Workers
  PROVE  /\ len[w] \in 0 .. NumPieces /\ dst[w] \in 0 .. NumPieces
         /\ task[w] \in Pieces /\ held[w] \in Seq(Pieces) /\ responses \in Seq(Pieces)
         /\ Holding(w) => len[w] + 1 <= NumPieces
         /\ pc[w] = "remove" => dst[w] >= 1 /\ dst[w] + Len(held[w]) <= len[w]
         /\ pc[w] # "remove" => held[w] = <<>>
         /\ buf \in SUBSET Pieces
BY DEF Inv, TypeOK, HeaderFits

\* What a goroutine has in the middle of remove ...
LEMMA ViewRemove ==
  ASSUME Inv, NEW w \in Workers, pc[w] = "remove", NEW p
  PROVE  Count(View(w), p) =
           Count(SubSeq(tasks, 1, dst[w] - 1), p) + Count(held[w], p)
             + Count(SubSeq(tasks, src(w), len[w]), p) + (IF task[w] = p THEN 1 ELSE 0)
<1> DEFINE a == SubSeq(tasks, 1, dst[w] - 1)
           b == held[w]
           c == SubSeq(tasks, src(w), len[w])
           e == <<task[w]>>
<1>1. /\ dst[w] \in 1 .. NumPieces /\ len[w] \in 0 .. NumPieces
      /\ dst[w] + Len(held[w]) <= len[w]
      /\ held[w] \in Seq(Pieces) /\ task[w] \in Pieces
  <2>1. /\ dst[w] \in 0 .. NumPieces /\ len[w] \in 0 .. NumPieces /\ dst[w] >= 1
        /\ dst[w] + Len(held[w]) <= len[w]
        /\ held[w] \in Seq(Pieces) /\ task[w] \in Pieces
    BY WorkerTypes
  <2> QED
    BY <2>1, NumPiecesPos
<1>2. src(w) \in 1 .. NumPieces + 1 /\ dst[w] - 1 \in 0 .. NumPieces /\ 1 \in 1 .. NumPieces + 1
  BY <1>1, NumPiecesPos DEF src
<1>3. a \in Seq(Pieces) /\ b \in Seq(Pieces) /\ c \in Seq(Pieces) /\ e \in Seq(Pieces)
  BY <1>1, <1>2, PartType
<1>4. View(w) = ((a \o b) \o c) \o e
  BY DEF View
<1> HIDE DEF a, b, c
<1>5. a \o b \in Seq(Pieces) /\ (a \o b) \o c \in Seq(Pieces)
  BY <1>3
<1>6. Count(a \o b, p) = Count(a, p) + Count(b, p)
  BY <1>3, CountConcat
<1>7. Count((a \o b) \o c, p) = Count(a \o b, p) + Count(c, p)
  BY <1>3, <1>5, CountConcat
<1>8. Count(((a \o b) \o c) \o e, p) = Count((a \o b) \o c, p) + Count(e, p)
  BY <1>3, <1>5, CountConcat
<1>9. Count(e, p) = IF task[w] = p THEN 1 ELSE 0
  BY CountSmall
<1> QED
  BY <1>4, <1>6, <1>7, <1>8, <1>9 DEF a, b, c

\* ... and otherwise.
LEMMA ViewElse ==
  ASSUME Inv, NEW w \in Workers, pc[w] # "remove", NEW p
  PROVE  Count(View(w), p) =
           Count(SubSeq(tasks, 1, len[w]), p) + (IF Holding(w) /\ task[w] = p THEN 1 ELSE 0)
<1> DEFINE a == SubSeq(tasks, 1, len[w])
           e == IF Holding(w) THEN <<task[w]>> ELSE <<>>
<1>1. len[w] \in 0 .. NumPieces /\ task[w] \in Pieces /\ 1 \in 1 .. NumPieces + 1
  BY NumPiecesPos, WorkerTypes
<1>2. a \in Seq(Pieces) /\ e \in Seq(Pieces)
  BY <1>1, PartType
<1>3. View(w) = a \o e
  BY DEF View
<1>4. Count(a \o e, p) = Count(a, p) + Count(e, p)
  BY <1>2, CountConcat
<1>5. Count(e, p) = IF Holding(w) /\ task[w] = p THEN 1 ELSE 0
  BY CountSmall
<1> QED
  BY <1>3, <1>4, <1>5

\* A stretch of the array and the cell before it.
LEMMA CountFirst ==
  ASSUME NEW S, NEW s \in Seq(S), NEW m \in 1 .. Len(s), NEW n \in m .. Len(s), NEW p
  PROVE  Count(SubSeq(s, m, n), p) =
           (IF s[m] = p THEN 1 ELSE 0) + Count(SubSeq(s, m + 1, n), p)
<1>1. SubSeq(s, m, n) = <<s[m]>> \o SubSeq(s, m + 1, n)
  BY SubSeqRecursiveFirst
<1>2. <<s[m]>> \in Seq(S) /\ SubSeq(s, m + 1, n) \in Seq(S)
  <2>1. \A i \in m + 1 .. n : s[i] \in S
    OBVIOUS
  <2>2. m + 1 \in Int /\ n \in Int /\ s[m] \in S
    OBVIOUS
  <2> QED
    BY <2>1, <2>2, SubSeqProperties
<1>3. Count(<<s[m]>> \o SubSeq(s, m + 1, n), p) = Count(<<s[m]>>, p) + Count(SubSeq(s, m + 1, n), p)
  BY <1>2, CountConcat
<1> QED
  BY <1>1, <1>3, CountSmall

\* A stretch of the array and the cell behind it.
LEMMA CountLast ==
  ASSUME NEW S, NEW s \in Seq(S), NEW m \in 1 .. Len(s), NEW n \in m .. Len(s), NEW p
  PROVE  Count(SubSeq(s, m, n), p) =
           Count(SubSeq(s, m, n - 1), p) + (IF s[n] = p THEN 1 ELSE 0)
<1>1. SubSeq(s, m, n) = SubSeq(s, m, n - 1) \o <<s[n]>>
  BY SubSeqRecursiveSecond
<1>2. <<s[n]>> \in Seq(S) /\ SubSeq(s, m, n - 1) \in Seq(S)
  <2>1. \A i \in m .. n - 1 : s[i] \in S
    OBVIOUS
  <2>2. m \in Int /\ n - 1 \in Int /\ s[n] \in S
    OBVIOUS
  <2> QED
    BY <2>1, <2>2, SubSeqProperties
<1>3. Count(SubSeq(s, m, n - 1) \o <<s[n]>>, p) = Count(SubSeq(s, m, n - 1), p) + Count(<<s[n]>>, p)
  BY <1>2, CountConcat
<1> QED
  BY <1>1, <1>3, CountSmall

\* A stretch of the array in two parts.
LEMMA CountSplit ==
  ASSUME NEW S, NEW s \in Seq(S), NEW i \in 1 .. Len(s), NEW n \in i .. Len(s), NEW p
  PROVE  Count(SubSeq(s, 1, n), p) = Count(SubSeq(s, 1, i - 1), p) + Count(SubSeq(s, i, n), p)
<1>1. /\ 1 \in 1 .. Len(s) + 1 /\ i - 1 \in 1 - 1 .. Len(s) /\ n \in i - 1 .. Len(s)
      /\ (i - 1) + 1 = i
  OBVIOUS
<1>2. SubSeq(s, 1, i - 1) \o SubSeq(s, i, n) = SubSeq(s, 1, n)
  BY <1>1, ConcatAdjacentSubSeq
<1>3. SubSeq(s, 1, i - 1) \in Seq(S) /\ SubSeq(s, i, n) \in Seq(S)
  <2>1. (\A k \in 1 .. i - 1 : s[k] \in S) /\ (\A k \in i .. n : s[k] \in S)
    OBVIOUS
  <2> QED
    BY <2>1, SubSeqProperties
<1>4. Count(SubSeq(s, 1, i - 1) \o SubSeq(s, i, n), p)
        = Count(SubSeq(s, 1, i - 1), p) + Count(SubSeq(s, i, n), p)
  BY <1>3, CountConcat
<1> QED
  BY <1>2, <1>4

\* Cells that are not written.
LEMMA PartSame ==
  ASSUME NEW S, NEW s \in Seq(S), NEW t \in Seq(S), Len(s) = Len(t),
         NEW m \in 1 .. Len(s) + 1, NEW n \in 0 .. Len(s), \A i \in m .. n : s[i] = t[i]
  PROVE  SubSeq(s, m, n) = SubSeq(t, m, n)
<1>1. (\A i \in m .. n : s[i] \in S) /\ (\A i \in m .. n : t[i] \in S) /\ m \in Int /\ n \in Int
  OBVIOUS
<1>2. /\ SubSeq(s, m, n) \in Seq(S) /\ SubSeq(t, m, n) \in Seq(S)
      /\ Len(SubSeq(s, m, n)) = IF m <= n THEN n - m + 1 ELSE 0
      /\ Len(SubSeq(t, m, n)) = IF m <= n THEN n - m + 1 ELSE 0
      /\ \A i \in 1 .. n - m + 1 : SubSeq(s, m, n)[i] = s[m + i - 1]
      /\ \A i \in 1 .. n - m + 1 : SubSeq(t, m, n)[i] = t[m + i - 1]
  BY <1>1, SubSeqProperties
<1>3. \A i \in 1 .. Len(SubSeq(s, m, n)) : SubSeq(s, m, n)[i] = SubSeq(t, m, n)[i]
  <2> SUFFICES ASSUME NEW i \in 1 .. Len(SubSeq(s, m, n))
               PROVE  SubSeq(s, m, n)[i] = SubSeq(t, m, n)[i]
    OBVIOUS
  <2>1. i \in 1 .. n - m + 1 /\ m + i - 1 \in m .. n
    BY <1>2
  <2> QED
    BY <1>2, <2>1
<1> QED
  BY <1>2, <1>3, SeqEqual

\* The counts of all goroutines, as one formula: it holds before and after a
\* step.
ViewCounts ==
  \A w \in Workers, p \in Pieces :
    /\ pc[w] = "remove" =>
         Count(View(w), p) =
           Count(SubSeq(tasks, 1, dst[w] - 1), p) + Count(held[w], p)
             + Count(SubSeq(tasks, src(w), len[w]), p) + (IF task[w] = p THEN 1 ELSE 0)
    /\ pc[w] # "remove" =>
         Count(View(w), p) =
           Count(SubSeq(tasks, 1, len[w]), p) + (IF Holding(w) /\ task[w] = p THEN 1 ELSE 0)

Numbers ==
  \A w \in Workers, p \in Pieces :
    /\ Count(responses, p) \in Nat /\ Count(held[w], p) \in Nat /\ Count(View(w), p) \in Nat
    /\ \A m \in 1 .. NumPieces + 1, n \in 0 .. NumPieces : Count(SubSeq(tasks, m, n), p) \in Nat

\* The invariant gives the counts and makes them numbers, ...
LEMMA InvCounts == Inv => ViewCounts /\ Numbers
<1>1. Inv => ViewCounts
  BY ViewRemove, ViewElse DEF ViewCounts
<1> SUFFICES ASSUME Inv, NEW w \in Workers, NEW p \in Pieces
             PROVE  /\ Count(responses, p) \in Nat /\ Count(held[w], p) \in Nat
                    /\ Count(View(w), p) \in Nat
                    /\ \A m \in 1 .. NumPieces + 1, n \in 0 .. NumPieces :
                         Count(SubSeq(tasks, m, n), p) \in Nat
  BY <1>1 DEF Numbers
<1>2. Count(responses, p) \in Nat /\ Count(held[w], p) \in Nat
  BY WorkerTypes, CountNat
<1>3. \A m \in 1 .. NumPieces + 1, n \in 0 .. NumPieces : Count(SubSeq(tasks, m, n), p) \in Nat
  BY PartType, CountNat
<1>4. /\ len[w] \in 0 .. NumPieces /\ dst[w] \in 0 .. NumPieces /\ held[w] \in Seq(Pieces)
      /\ pc[w] = "remove" => dst[w] >= 1 /\ dst[w] + Len(held[w]) <= len[w]
  BY WorkerTypes
<1>5. CASE pc[w] = "remove"
  <2>1. /\ dst[w] - 1 \in 0 .. NumPieces /\ src(w) \in 1 .. NumPieces + 1
        /\ len[w] \in 0 .. NumPieces /\ 1 \in 1 .. NumPieces + 1
    BY <1>4, <1>5, NumPiecesPos DEF src
  <2>2. /\ Count(SubSeq(tasks, 1, dst[w] - 1), p) \in Nat
        /\ Count(SubSeq(tasks, src(w), len[w]), p) \in Nat
    BY <1>3, <2>1
  <2> QED
    BY <1>1, <1>2, <1>3, <1>5, <2>2 DEF ViewCounts
<1>6. CASE pc[w] # "remove"
  <2>1. 1 \in 1 .. NumPieces + 1
    BY NumPiecesPos
  <2>2. Count(SubSeq(tasks, 1, len[w]), p) \in Nat
    BY <1>3, <1>4, <2>1
  <2> QED
    BY <1>1, <1>2, <1>3, <1>6, <2>2 DEF ViewCounts
<1> QED
  BY <1>5, <1>6

\* ... after a step as well.
LEMMA InvCountsNext == Inv' => ViewCounts' /\ Numbers'
BY InvCounts, PTL

\* Steps that leave the tasks of w, the results and the buffer where they are.
LEMMA OnceKept ==
  ASSUME NEW w \in Workers, OneEach(w), View(w)' = View(w), UNCHANGED <<responses, buf>>
  PROVE  OneEach(w)'
BY DEF OneEach, Amount

\* A task is taken: the cells before and behind it stay.
LEMMA SelectOnce ==
  ASSUME Inv, Inv', NEW w \in Workers, OneEach(w), Select(w)
  PROVE  OneEach(w)'
<1>1. PICK i \in SelectPiece(w) : /\ task' = [task EXCEPT ![w] = tasks[i]]
                                  /\ dst' = [dst EXCEPT ![w] = i]
  BY DEF Select
<1>2. /\ pc[w] = "select" /\ pc' = [pc EXCEPT ![w] = "remove"] /\ len[w] > 0
      /\ UNCHANGED <<tasks, len, held, responses, buf>>
  BY DEF Select, shared, Goto
<1>3. /\ len[w] \in 0 .. NumPieces /\ held[w] = <<>>
  BY <1>2, WorkerTypes
<1>4. i \in 1 .. len[w]
  <2>1. i \in 1 .. len[w] \/ i = 1
    BY <1>1 DEF SelectPiece
  <2> QED
    BY <1>2, <1>3, <2>1, NumPiecesPos
<1>5. pc'[w] = "remove" /\ task'[w] = tasks[i] /\ dst'[w] = i
  BY ZenonT(30), <1>1, <1>2 DEF Inv, TypeOK
<1>6. /\ tasks \in Seq(Pieces) /\ Len(tasks) = NumPieces
      /\ i \in 1 .. Len(tasks) /\ len[w] \in i .. Len(tasks)
  BY <1>3, <1>4, PartType, NumPiecesPos
<1> SUFFICES ASSUME NEW p \in Pieces
             PROVE  Count(View(w), p)' = Count(View(w), p)
  BY <1>2 DEF OneEach, Amount
<1>7. Count(View(w), p) = Count(SubSeq(tasks, 1, len[w]), p)
  <2>1. 1 \in 1 .. NumPieces + 1
    BY NumPiecesPos
  <2>2. Count(SubSeq(tasks, 1, len[w]), p) \in Nat
    BY <1>3, <2>1, InvCounts DEF Numbers
  <2>3. ~Holding(w)
    BY <1>2 DEF Holding
  <2> QED
    BY <1>2, <2>2, <2>3, InvCounts DEF ViewCounts
<1>8. src(w)' = i + 1
  BY <1>2, <1>3, <1>5, <1>6 DEF src
<1>9. Count(View(w), p)' =
        Count(SubSeq(tasks, 1, i - 1), p) + Count(<<>>, p)
          + Count(SubSeq(tasks, i + 1, len[w]), p) + (IF tasks[i] = p THEN 1 ELSE 0)
  BY <1>2, <1>3, <1>5, <1>8, InvCountsNext DEF ViewCounts
<1>10. Count(SubSeq(tasks, 1, len[w]), p)
         = Count(SubSeq(tasks, 1, i - 1), p) + Count(SubSeq(tasks, i, len[w]), p)
  BY <1>6, CountSplit
<1>11. Count(SubSeq(tasks, i, len[w]), p)
         = (IF tasks[i] = p THEN 1 ELSE 0) + Count(SubSeq(tasks, i + 1, len[w]), p)
  BY <1>6, CountFirst
<1>12. /\ Count(SubSeq(tasks, 1, i - 1), p) \in Nat
       /\ Count(SubSeq(tasks, i + 1, len[w]), p) \in Nat
  <2>1. /\ 1 \in 1 .. NumPieces + 1 /\ i - 1 \in 0 .. NumPieces
        /\ i + 1 \in 1 .. NumPieces + 1 /\ len[w] \in 0 .. NumPieces
    BY <1>3, <1>6, NumPiecesPos
  <2> QED
    BY <2>1, InvCounts DEF Numbers
<1>13. Count(<<>>, p) = 0
  BY CountSmall
<1> QED
  BY <1>7, <1>9, <1>10, <1>11, <1>12, <1>13

\* remove loads a cell: it is held now, and will be overwritten.
LEMMA LoadOnce ==
  ASSUME Inv, Inv', NEW w \in Workers, OneEach(w), Load(w)
  PROVE  OneEach(w)'
<1>1. /\ pc[w] = "remove" /\ src(w) <= len[w]
      /\ UNCHANGED <<pc, len, task, dst, tasks, responses, buf>>
      /\ held' = [held EXCEPT ![w] = Append(@, tasks[src(w)])]
  BY DEF Load, shared
<1>2. /\ dst[w] \in 0 .. NumPieces /\ len[w] \in 0 .. NumPieces /\ dst[w] >= 1
      /\ held[w] \in Seq(Pieces)
  BY <1>1, WorkerTypes
<1>3. /\ tasks \in Seq(Pieces) /\ Len(tasks) = NumPieces
      /\ src(w) \in 1 .. Len(tasks) /\ len[w] \in src(w) .. Len(tasks)
      /\ tasks[src(w)] \in Pieces
  <2>1. tasks \in Seq(Pieces) /\ Len(tasks) = NumPieces
    BY PartType
  <2>2. src(w) \in 1 .. Len(tasks) /\ len[w] \in src(w) .. Len(tasks)
    BY <1>1, <1>2, <2>1, NumPiecesPos DEF src
  <2> QED
    BY <2>1, <2>2
<1>4. held'[w] = Append(held[w], tasks[src(w)])
  BY <1>1 DEF Inv, TypeOK
<1>5. src(w)' = src(w) + 1
  <2>1. Len(held'[w]) = Len(held[w]) + 1 /\ Len(held[w]) \in Nat
    BY <1>2, <1>3, <1>4, AppendProperties, LenProperties
  <2>2. src(w)' = dst[w] + Len(held'[w]) + 1
    BY <1>1 DEF src
  <2>3. src(w) = dst[w] + Len(held[w]) + 1
    BY DEF src
  <2> QED
    BY SMTT(30), <1>2, <2>1, <2>2, <2>3, NumPiecesPos
<1> SUFFICES ASSUME NEW p \in Pieces
             PROVE  Count(View(w), p)' = Count(View(w), p)
  BY <1>1 DEF OneEach, Amount
<1> DEFINE one == IF tasks[src(w)] = p THEN 1 ELSE 0
<1>6. Count(SubSeq(tasks, src(w), len[w]), p) = one + Count(SubSeq(tasks, src(w) + 1, len[w]), p)
  BY <1>3, CountFirst
<1>7. Count(held'[w], p) = Count(held[w], p) + one
  BY <1>2, <1>3, <1>4, CountEnds
<1>8. Count(View(w), p) =
        Count(SubSeq(tasks, 1, dst[w] - 1), p) + Count(held[w], p)
          + Count(SubSeq(tasks, src(w), len[w]), p) + (IF task[w] = p THEN 1 ELSE 0)
  BY <1>1, InvCounts DEF ViewCounts
<1>9. Count(View(w), p)' =
        Count(SubSeq(tasks, 1, dst[w] - 1), p) + Count(held'[w], p)
          + Count(SubSeq(tasks, src(w) + 1, len[w]), p) + (IF task[w] = p THEN 1 ELSE 0)
  BY <1>1, <1>5, InvCountsNext DEF ViewCounts
<1>10. /\ Count(SubSeq(tasks, 1, dst[w] - 1), p) \in Nat /\ Count(held[w], p) \in Nat
       /\ Count(SubSeq(tasks, src(w) + 1, len[w]), p) \in Nat
  <2>1. /\ 1 \in 1 .. NumPieces + 1 /\ dst[w] - 1 \in 0 .. NumPieces
        /\ src(w) + 1 \in 1 .. NumPieces + 1
    BY <1>2, <1>3, NumPiecesPos
  <2> QED
    BY <1>2, <2>1, InvCounts DEF Numbers
<1> QED
  BY <1>6, <1>7, <1>8, <1>9, <1>10

\* remove stores what it held: the cell it overwrites was taken or loaded.
LEMMA StoreOnce ==
  ASSUME Inv, Inv', NEW w \in Workers, OneEach(w), Store(w)
  PROVE  OneEach(w)'
<1> DEFINE e == Head(held[w])  d == dst[w]
<1>1. /\ pc[w] = "remove" /\ held[w] # <<>> /\ tasks' = [tasks EXCEPT ![d] = e]
      /\ held' = [held EXCEPT ![w] = Tail(@)] /\ dst' = [dst EXCEPT ![w] = @ + 1]
      /\ UNCHANGED <<pc, len, task, responses, buf>>
  BY DEF Store
<1>2. /\ d \in 0 .. NumPieces /\ len[w] \in 0 .. NumPieces /\ d >= 1
      /\ d + Len(held[w]) <= len[w] /\ held[w] \in Seq(Pieces)
  BY <1>1, WorkerTypes
<1>3. /\ e \in Pieces /\ Tail(held[w]) \in Seq(Pieces)
      /\ Len(Tail(held[w])) = Len(held[w]) - 1 /\ Len(held[w]) \in Nat \ {0}
  BY <1>1, <1>2
<1>4. held'[w] = Tail(held[w]) /\ dst'[w] = d + 1
  BY <1>1 DEF Inv, TypeOK
<1>5. src(w) = d + Len(held[w]) + 1 /\ src(w)' = src(w)
  <2>1. src(w) = d + Len(held[w]) + 1
    BY DEF src
  <2>2. src(w)' = d + 1 + (Len(held[w]) - 1) + 1
    BY <1>3, <1>4 DEF src
  <2> QED
    BY <1>2, <1>3, <2>1, <2>2, NumPiecesPos
<1>6. /\ tasks \in Seq(Pieces) /\ Len(tasks) = NumPieces /\ tasks \in [Cells -> Pieces]
  BY PartType DEF Inv, TypeOK
<1>7. /\ tasks' \in Seq(Pieces) /\ Len(tasks') = NumPieces
      /\ tasks'[d] = e /\ \A i \in 1 .. NumPieces : i # d => tasks'[i] = tasks[i]
  <2>1. d \in Cells
    BY <1>2, NumPiecesPos DEF Cells
  <2>2. tasks' \in [1 .. NumPieces -> Pieces]
    BY <1>1, <1>3, <1>6, <2>1 DEF Cells
  <2> QED
    BY <1>1, <1>6, <2>1, <2>2, NumPiecesPos DEF Cells
<1> HIDE DEF e, d
<1>8. /\ d \in 1 .. NumPieces /\ d - 1 \in 0 .. NumPieces /\ 1 \in 1 .. NumPieces + 1
      /\ src(w) \in 1 .. NumPieces + 1 /\ len[w] \in 0 .. NumPieces
      /\ src(w) > d /\ (d + 1) - 1 = d
  BY <1>2, <1>3, <1>5, NumPiecesPos
<1>9. SubSeq(tasks', 1, d - 1) = SubSeq(tasks, 1, d - 1)
  <2>1. \A i \in 1 .. d - 1 : tasks'[i] = tasks[i]
    BY <1>7, <1>8, NumPiecesPos
  <2> QED
    BY <1>6, <1>7, <1>8, <2>1, PartSame
<1>10. SubSeq(tasks', src(w), len[w]) = SubSeq(tasks, src(w), len[w])
  <2>1. \A i \in src(w) .. len[w] : tasks'[i] = tasks[i]
    BY <1>7, <1>8, NumPiecesPos
  <2> QED
    BY SMTT(30), <1>6, <1>7, <1>8, <2>1, PartSame
<1> SUFFICES ASSUME NEW p \in Pieces
             PROVE  Count(View(w), p)' = Count(View(w), p)
  BY <1>1 DEF OneEach, Amount
<1> DEFINE one == IF e = p THEN 1 ELSE 0
<1>11. Count(held[w], p) = one + Count(Tail(held[w]), p)
  <2>1. Count(held[w], p) = (IF Head(held[w]) = p THEN 1 ELSE 0) + Count(Tail(held[w]), p)
    BY <1>1, <1>2, <1>3, CountEnds
  <2> QED
    BY <2>1 DEF e
<1>12. Count(SubSeq(tasks', 1, d), p) = Count(SubSeq(tasks, 1, d - 1), p) + one
  <2>1. 1 \in 1 .. Len(tasks') /\ d \in 1 .. Len(tasks')
    BY <1>7, <1>8, NumPiecesPos
  <2>2. Count(SubSeq(tasks', 1, d), p)
          = Count(SubSeq(tasks', 1, d - 1), p) + (IF tasks'[d] = p THEN 1 ELSE 0)
    BY <1>7, <2>1, CountLast
  <2> QED
    BY <1>7, <1>9, <2>2
<1>13. Count(View(w), p) =
         Count(SubSeq(tasks, 1, d - 1), p) + Count(held[w], p)
           + Count(SubSeq(tasks, src(w), len[w]), p) + (IF task[w] = p THEN 1 ELSE 0)
  BY <1>1, InvCounts DEF ViewCounts, d
<1>14. Count(View(w), p)' =
         Count(SubSeq(tasks', 1, d), p) + Count(Tail(held[w]), p)
           + Count(SubSeq(tasks, src(w), len[w]), p) + (IF task[w] = p THEN 1 ELSE 0)
  <2>1. Count(View(w), p)' =
          Count(SubSeq(tasks', 1, dst'[w] - 1), p) + Count(held'[w], p)
            + Count(SubSeq(tasks', src(w)', len'[w]), p) + (IF task'[w] = p THEN 1 ELSE 0)
    BY <1>1, InvCountsNext DEF ViewCounts
  <2>2. /\ dst'[w] - 1 = d /\ held'[w] = Tail(held[w]) /\ src(w)' = src(w)
        /\ len'[w] = len[w] /\ task'[w] = task[w]
    BY <1>1, <1>4, <1>5, <1>8
  <2> QED
    BY <1>10, <2>1, <2>2
<1>15. /\ Count(SubSeq(tasks, 1, d - 1), p) \in Nat /\ Count(Tail(held[w]), p) \in Nat
       /\ Count(SubSeq(tasks, src(w), len[w]), p) \in Nat
  BY <1>3, <1>8, InvCounts, CountNat DEF Numbers
<1> QED
  BY <1>11, <1>12, <1>13, <1>14, <1>15

\* remove returns: the last cell is behind the slice.
LEMMA RemovedOnce ==
  ASSUME Inv, Inv', NEW w \in Workers, OneEach(w), Removed(w)
  PROVE  OneEach(w)'
<1>1. /\ pc[w] = "remove" /\ src(w) > len[w] /\ held[w] = <<>>
      /\ pc' = [pc EXCEPT ![w] = "check"] /\ len' = [len EXCEPT ![w] = @ - 1]
      /\ UNCHANGED <<task, tasks, responses, buf>>
  BY DEF Removed, Goto, shared
<1>2. /\ dst[w] \in 0 .. NumPieces /\ len[w] \in 0 .. NumPieces /\ dst[w] >= 1
      /\ dst[w] + Len(held[w]) <= len[w]
  BY <1>1, WorkerTypes
<1>3. Len(held[w]) = 0
  BY <1>1
<1>4. dst[w] = len[w] /\ src(w) = len[w] + 1
  <2>1. src(w) = dst[w] + Len(held[w]) + 1
    BY DEF src
  <2> QED
    BY <1>1, <1>2, <1>3, <2>1, NumPiecesPos
<1>5. pc'[w] = "check" /\ len'[w] = len[w] - 1 /\ Holding(w)'
  BY <1>1 DEF Inv, TypeOK, Holding
<1> SUFFICES ASSUME NEW p \in Pieces
             PROVE  Count(View(w), p)' = Count(View(w), p)
  BY <1>1 DEF OneEach, Amount
<1>6. SubSeq(tasks, src(w), len[w]) = <<>>
  BY <1>2, <1>4, NumPiecesPos, SubSeqEmpty
<1>7. Count(<<>>, p) = 0
  BY CountSmall
<1>8. Count(View(w), p) =
        Count(SubSeq(tasks, 1, len[w] - 1), p) + 0 + 0 + (IF task[w] = p THEN 1 ELSE 0)
  <2>1. Count(View(w), p) = Count(SubSeq(tasks, 1, dst[w] - 1), p) + Count(held[w], p)
            + Count(SubSeq(tasks, src(w), len[w]), p) + (IF task[w] = p THEN 1 ELSE 0)
    BY <1>1, InvCounts DEF ViewCounts
  <2>2. dst[w] = len[w] /\ Count(held[w], p) = 0 /\ Count(SubSeq(tasks, src(w), len[w]), p) = 0
    BY <1>1, <1>4, <1>6, <1>7
  <2> QED
    BY <2>1, <2>2
<1>9. Count(View(w), p)' = Count(SubSeq(tasks, 1, len[w] - 1), p) + (IF task[w] = p THEN 1 ELSE 0)
  BY <1>1, <1>5, InvCountsNext DEF ViewCounts
<1>10. Count(SubSeq(tasks, 1, len[w] - 1), p) \in Nat
  <2>1. 1 \in 1 .. NumPieces + 1 /\ len[w] - 1 \in 0 .. NumPieces
    BY <1>2, <1>4, NumPiecesPos
  <2> QED
    BY <2>1, InvCounts DEF Numbers
<1> QED
  BY <1>8, <1>9, <1>10

\* append writes the cell behind the slice.
LEMMA PutBackOnce ==
  ASSUME Inv, Inv', NEW w \in Workers, OneEach(w), PutBack(w)
  PROVE  OneEach(w)'
<1> DEFINE n == len[w] + 1
<1>1. /\ pc[w] = "append" /\ tasks' = [tasks EXCEPT ![n] = task[w]]
      /\ len' = [len EXCEPT ![w] = n] /\ pc' = [pc EXCEPT ![w] = "select"]
      /\ UNCHANGED <<task, responses, buf>>
  BY DEF PutBack, Goto
<1>2. Holding(w) /\ len[w] \in 0 .. NumPieces /\ n <= NumPieces /\ task[w] \in Pieces
  <2>1. Holding(w)
    BY <1>1 DEF Holding
  <2> QED
    BY <2>1, WorkerTypes
<1>3. n \in 1 .. NumPieces /\ n - 1 = len[w] /\ 1 \in 1 .. NumPieces + 1
  BY <1>2, NumPiecesPos
<1>4. len'[w] = n /\ ~Holding(w)' /\ pc'[w] # "remove"
  BY <1>1 DEF Inv, TypeOK, Holding
<1> HIDE DEF n
<1>5. tasks \in Seq(Pieces) /\ Len(tasks) = NumPieces /\ tasks \in [Cells -> Pieces]
  BY PartType DEF Inv, TypeOK
<1>6. /\ tasks' \in Seq(Pieces) /\ Len(tasks') = NumPieces
      /\ tasks'[n] = task[w] /\ \A i \in 1 .. NumPieces : i # n => tasks'[i] = tasks[i]
  <2>1. tasks' \in [1 .. NumPieces -> Pieces]
    BY <1>1, <1>2, <1>3, <1>5 DEF Cells
  <2> QED
    BY <1>1, <1>3, <1>5, <2>1, NumPiecesPos DEF Cells
<1>7. SubSeq(tasks', 1, n - 1) = SubSeq(tasks, 1, n - 1)
  <2>1. \A i \in 1 .. n - 1 : tasks'[i] = tasks[i]
    BY <1>3, <1>6, NumPiecesPos
  <2>2. n - 1 \in 0 .. NumPieces
    BY <1>2, <1>3
  <2> QED
    BY <1>3, <1>5, <1>6, <2>1, <2>2, PartSame
<1> SUFFICES ASSUME NEW p \in Pieces
             PROVE  Count(View(w), p)' = Count(View(w), p)
  BY <1>1 DEF OneEach, Amount
<1>8. Count(View(w), p) = Count(SubSeq(tasks, 1, n - 1), p) + (IF task[w] = p THEN 1 ELSE 0)
  BY <1>1, <1>2, <1>3, InvCounts DEF ViewCounts
<1>9. Count(SubSeq(tasks', 1, n), p) \in Nat
  <2>1. n \in 0 .. NumPieces
    BY <1>2, <1>3
  <2> QED
    BY <1>3, <2>1, InvCountsNext DEF Numbers
<1>10. Count(View(w), p)' = Count(SubSeq(tasks', 1, n), p)
  BY <1>4, <1>9, InvCountsNext DEF ViewCounts
<1>11. Count(SubSeq(tasks', 1, n), p)
         = Count(SubSeq(tasks', 1, n - 1), p) + (IF tasks'[n] = p THEN 1 ELSE 0)
  <2>1. 1 \in 1 .. Len(tasks') /\ n \in 1 .. Len(tasks')
    BY <1>3, <1>6, NumPiecesPos
  <2> QED
    BY <1>6, <2>1, CountLast
<1> QED
  BY <1>6, <1>7, <1>8, <1>10, <1>11

\* A result is sent: the task in hand is on its way.
LEMMA RespondOnce ==
  ASSUME Inv, Inv', NEW w \in Workers, OneEach(w), Respond(w), collector # "closed"
  PROVE  OneEach(w)'
<1>1. /\ pc[w] = "respond" /\ pc' = [pc EXCEPT ![w] = "select"]
      /\ responses' = Append(responses, task[w])
      /\ UNCHANGED <<tasks, len, task, buf>>
  BY DEF Respond, Goto
<1>2. pc'[w] = "select" /\ ~Holding(w)' /\ Holding(w)
  BY <1>1 DEF Inv, TypeOK, Holding
<1>3. responses \in Seq(Pieces) /\ task[w] \in Pieces /\ len[w] \in 0 .. NumPieces
  BY WorkerTypes
<1> SUFFICES ASSUME NEW p \in Pieces
             PROVE  Amount(w, p)' = Amount(w, p)
  BY DEF OneEach
<1>4. Count(responses', p) = Count(responses, p) + (IF task[w] = p THEN 1 ELSE 0)
  BY <1>1, <1>3, CountEnds
<1>5. Count(SubSeq(tasks, 1, len[w]), p) \in Nat /\ Count(responses, p) \in Nat
  <2>1. 1 \in 1 .. NumPieces + 1
    BY NumPiecesPos
  <2> QED
    BY <1>3, <2>1, InvCounts DEF Numbers
<1>6. Count(View(w), p) = Count(SubSeq(tasks, 1, len[w]), p) + (IF task[w] = p THEN 1 ELSE 0)
  BY <1>1, <1>2, InvCounts DEF ViewCounts
<1>7. Count(View(w), p)' = Count(SubSeq(tasks, 1, len[w]), p)
  <2>1. Count(View(w), p)' = Count(SubSeq(tasks, 1, len[w]), p) + 0
    BY <1>1, <1>2, InvCountsNext DEF ViewCounts
  <2> QED
    BY <1>5, <2>1
<1> QED
  BY <1>1, <1>4, <1>5, <1>6, <1>7 DEF Amount

\* A result is copied: it was not in the buffer yet.
LEMMA CollectOnce ==
  ASSUME Inv, NEW w \in Workers, OneEach(w), Collect
  PROVE  OneEach(w)'
<1>1. /\ responses # <<>> /\ buf' = buf \cup {Head(responses)} /\ responses' = Tail(responses)
      /\ UNCHANGED <<tasks, pc, len, task, dst, held>>
  BY DEF Collect, worker
<1>2. responses \in Seq(Pieces) /\ Head(responses) \in Pieces
  BY <1>1, WorkerTypes
<1>3. View(w)' = View(w)
  BY <1>1 DEF View, Holding, src
<1> SUFFICES ASSUME NEW p \in Pieces
             PROVE  Amount(w, p)' = 1
  BY DEF OneEach
<1>4. Count(responses, p) = (IF Head(responses) = p THEN 1 ELSE 0) + Count(Tail(responses), p)
  BY <1>1, <1>2, CountEnds
<1>5. /\ Count(View(w), p) \in Nat /\ Count(responses, p) \in Nat
      /\ Count(Tail(responses), p) \in Nat
  <2>1. Tail(responses) \in Seq(Pieces)
    BY <1>1, <1>2
  <2> QED
    BY <2>1, InvCounts, CountNat DEF Numbers
<1>6. Count(View(w), p) + Count(responses, p) + (IF p \in buf THEN 1 ELSE 0) = 1
  BY DEF OneEach, Amount
<1>7. Head(responses) = p => p \notin buf
  BY <1>4, <1>5, <1>6
<1>8. p \in buf' <=> p \in buf \/ Head(responses) = p
  BY <1>1
<1> QED
  BY <1>1, <1>3, <1>4, <1>5, <1>6, <1>7, <1>8 DEF Amount

\* Steps that work on the task in hand, or come before the loop.
LEMMA HandOnce ==
  ASSUME NEW w \in Workers, OneEach(w),
         UNCHANGED <<tasks, len[w], task[w], dst[w], held[w], responses, buf>>,
         pc'[w] = pc[w] \/ (Holding(w) /\ Holding(w)')
  PROVE  OneEach(w)'
<1>1. Holding(w) => pc[w] # "remove"
  BY DEF Holding
<1>2. Holding(w)' => pc'[w] # "remove"
  BY DEF Holding
<1>3. View(w)' = View(w)
  BY <1>1, <1>2 DEF View, src, Holding
<1> QED
  BY <1>3, OnceKept

\* A goroutine before the loop touches nothing.
LEMMA Entry ==
  ASSUME Inv, NEW v \in Workers, Connect(v) \/ ConnectFails(v) \/ PeerUnreachable(v)
  PROVE  /\ pc[v] = "dial" /\ \A u \in Workers \ {v} : pc'[u] = pc[u]
         /\ Connect(v) => pc'[v] = "select"
         /\ ~Connect(v) => pc'[v] \in {"dial", "failed"}
         /\ UNCHANGED <<tasks, len, task, dst, held, left, old, downloaded, responses, buf>>
<1>1. /\ pc[v] = "dial"
      /\ UNCHANGED <<tasks, len, task, dst, held, left, old, downloaded, responses, buf>>
  BY DEF Connect, ConnectFails, PeerUnreachable, Panic, worker, shared
<1>2. \/ pc' = [pc EXCEPT ![v] = "select"] /\ Connect(v)
      \/ pc' = [pc EXCEPT ![v] = "failed"] /\ ~Connect(v)
      \/ pc' = pc /\ ~Connect(v)
  <2>1. Connect(v) => pc' = [pc EXCEPT ![v] = "select"]
    BY DEF Connect, Goto
  <2>2. ConnectFails(v) => pc' = [pc EXCEPT ![v] = "failed"] \/ pc' = pc
    BY DEF ConnectFails, Goto, Panic, worker
  <2>3. PeerUnreachable(v) => pc' = pc
    BY DEF PeerUnreachable, Panic, worker
  <2> QED
    BY <2>1, <2>2, <2>3
<1>3. pc \in [Workers -> {"dial", "failed", "select", "remove", "check", "download",
                          "error", "append", "load", "store", "announce", "respond"}]
  BY DEF Inv, TypeOK
<1> QED
  BY <1>1, <1>2, <1>3

\* A goroutine in the loop stays in it, and has no hold on the headers of others.
LEMMA InLoop ==
  ASSUME Inv, NEW v \in Workers, Have(v) \/ ConcurrentMapWrites(v) \/ KeepAlive(v) \/ WorkerStep(v)
  PROVE  /\ ~Idle(v) /\ ~Idle(v)'
         /\ \A u \in Workers \ {v} :
              pc'[u] = pc[u] /\ len'[u] = len[u] /\ left'[u] = left[u]
<1> DEFINE labels == {"select", "remove", "check", "download", "error", "append", "load",
                      "store", "announce", "respond"}
<1>0. pc \in [Workers -> {"dial", "failed"} \cup labels] /\ len \in [Workers -> 0 .. NumPieces]
      /\ left \in [Workers -> 0 .. Uint - 1]
  BY DEF Inv, TypeOK
<1>1. pc[v] \in labels
  BY DEF Have, ConcurrentMapWrites, KeepAlive, WorkerStep, Select, Load, Store, Removed, HasPiece,
         DownloadPiece, SendError, PutBack, ReadDownloaded, WriteDownloaded, AnnounceProgress,
         Respond, Finish
<1>2. (\E l \in labels : pc' = [pc EXCEPT ![v] = l]) \/ pc' = pc
  <2>1. Have(v) \/ ConcurrentMapWrites(v) \/ KeepAlive(v) \/ Load(v) \/ Store(v) \/ Finish(v) => pc' = pc
    BY DEF Have, ConcurrentMapWrites, KeepAlive, Load, Store, Finish, Panic, worker
  <2>2. Select(v) => pc' = [pc EXCEPT ![v] = "remove"]
    BY DEF Select, Goto
  <2>3. Removed(v) => pc' = [pc EXCEPT ![v] = "check"]
    BY DEF Removed, Goto
  <2>4. HasPiece(v) => \/ pc' = [pc EXCEPT ![v] = "download"]
                       \/ pc' = [pc EXCEPT ![v] = "append"] \/ pc' = pc
    BY DEF HasPiece, Goto, Panic, worker
  <2>5. DownloadPiece(v) => pc' = [pc EXCEPT ![v] = "load"] \/ pc' = [pc EXCEPT ![v] = "error"]
    BY DEF DownloadPiece, Goto
  <2>6. SendError(v) => pc' = [pc EXCEPT ![v] = "append"] \/ pc' = pc
    BY DEF SendError, Goto, Panic, worker
  <2>7. PutBack(v) => pc' = [pc EXCEPT ![v] = "select"]
    BY DEF PutBack, Goto
  <2>8. ReadDownloaded(v) => pc' = [pc EXCEPT ![v] = "store"]
    BY DEF ReadDownloaded, Goto
  <2>9. WriteDownloaded(v) => pc' = [pc EXCEPT ![v] = "announce"]
    BY DEF WriteDownloaded, Goto
  <2>10. AnnounceProgress(v) => pc' = [pc EXCEPT ![v] = "respond"] \/ pc' = pc
    BY DEF AnnounceProgress, Goto, Panic, worker
  <2>11. Respond(v) => pc' = [pc EXCEPT ![v] = "select"] \/ pc' = pc
    BY DEF Respond, Goto, Panic, worker
  <2> QED
    BY <2>1, <2>2, <2>3, <2>4, <2>5, <2>6, <2>7, <2>8, <2>9, <2>10, <2>11 DEF WorkerStep
<1>3. len' = len \/ (\E n : len' = [len EXCEPT ![v] = n])
  BY DEF Have, ConcurrentMapWrites, KeepAlive, WorkerStep, Select, Load, Store, Removed, HasPiece,
         DownloadPiece, SendError, PutBack, ReadDownloaded, WriteDownloaded, AnnounceProgress,
         Respond, Finish, Panic, worker
<1>4. left' = left \/ (\E n : left' = [left EXCEPT ![v] = n])
  BY DEF Have, ConcurrentMapWrites, KeepAlive, WorkerStep, Select, Load, Store, Removed, HasPiece,
         DownloadPiece, SendError, PutBack, ReadDownloaded, WriteDownloaded, AnnounceProgress,
         Respond, Finish, Panic, worker
<1>5. pc'[v] \in labels /\ \A u \in Workers \ {v} : pc'[u] = pc[u]
  BY <1>0, <1>1, <1>2
<1> QED
  BY <1>0, <1>1, <1>3, <1>4, <1>5 DEF Idle

\* A file's length is below the bound of left.
LEMMA LengthMod == Length % Uint = Length
<1>1. Length \in Nat /\ Uint \in Nat \ {0} /\ Length < Uint
  BY ConstantsAssumption
<1> QED
  BY <1>1

\* At first nothing was touched.
LEMMA InitUntouched == Init => Untouched
BY LengthMod DEF Init, Untouched, Idle

\* Nothing happens before the first goroutine comes into the loop.
LEMMA NextUntouched ==
  ASSUME Inv, Untouched, [Next]_vars
  PROVE  Untouched'
<1>1. ASSUME NEW v \in Workers, Connect(v) \/ ConnectFails(v) \/ PeerUnreachable(v)
      PROVE  Untouched'
  <2>1. /\ Idle(v) /\ \A u \in Workers \ {v} : Idle(u)' <=> Idle(u)
        /\ UNCHANGED <<tasks, len, left, responses, buf, downloaded>>
    BY <1>1, Entry DEF Idle
  <2> QED
    BY <2>1 DEF Untouched
<1>2. ASSUME NEW v \in Workers, Have(v) \/ ConcurrentMapWrites(v) \/ KeepAlive(v) \/ WorkerStep(v)
      PROVE  Untouched'
  <2>1. /\ ~Idle(v) /\ ~Idle(v)'
        /\ \A u \in Workers \ {v} :
             pc'[u] = pc[u] /\ len'[u] = len[u] /\ left'[u] = left[u]
    BY <1>2, InLoop
  <2>2. \A u \in Workers \ {v} : Idle(u)' <=> Idle(u)
    BY <2>1 DEF Idle
  <2> QED
    BY <2>1, <2>2 DEF Untouched
<1>3. CASE Collect
  <2>1. responses # <<>> /\ UNCHANGED <<pc, len, left>>
    BY <1>3 DEF Collect, worker
  <2> QED
    BY <2>1 DEF Untouched, Idle
<1>4. CASE CloseResponses \/ UNCHANGED vars
  <2>1. UNCHANGED <<pc, len, left, tasks, responses, buf, downloaded>>
    BY <1>4 DEF CloseResponses, vars, worker
  <2> QED
    BY <2>1 DEF Untouched, Idle
<1> QED
  BY <1>1, <1>2, <1>3, <1>4 DEF Next

\* The goroutine that comes into the loop first finds each piece in the array.
LEMMA FirstOnce ==
  ASSUME Inv, Inv', Untouched, NEW w \in Workers, Connect(w), \A v \in Workers : Idle(v)
  PROVE  OneEach(w)'
<1>1. /\ pc'[w] = "select" /\ UNCHANGED <<tasks, len, task, responses, buf>>
  BY Entry
<1>2. /\ len[w] = NumPieces /\ tasks = [c \in Cells |-> c - 1] /\ responses = <<>> /\ buf = {}
  BY DEF Untouched
<1>3. ~Holding(w)'
  BY <1>1 DEF Holding
<1>4. SubSeq(tasks, 1, NumPieces) = tasks
  BY PartType, SubSeqFull
<1> SUFFICES ASSUME NEW p \in Pieces
             PROVE  Amount(w, p)' = 1
  BY DEF OneEach
<1>5. Count(tasks, p) = 1
  <2>1. {k \in 1 .. Len(tasks) : tasks[k] = p} = {p + 1}
    <3>1. p \in Nat /\ p + 1 \in 1 .. NumPieces /\ Len(tasks) = NumPieces
      BY NumPiecesPos, PartType DEF Pieces
    <3>2. \A k \in 1 .. NumPieces : tasks[k] = k - 1
      BY <1>2 DEF Cells
    <3> QED
      BY <3>1, <3>2, NumPiecesPos
  <2> QED
    BY <2>1, FS_Singleton DEF Count
<1>6. Count(View(w), p)' = Count(tasks, p) + 0
  <2>1. Count(View(w), p)' = Count(SubSeq(tasks', 1, len'[w]), p) + 0
    BY <1>1, <1>3, InvCountsNext DEF ViewCounts
  <2>2. SubSeq(tasks', 1, len'[w]) = tasks
    BY <1>1, <1>2, <1>4
  <2> QED
    BY <2>1, <2>2
<1>7. Count(responses', p) = 0 /\ p \notin buf'
  BY <1>1, <1>2, CountSmall
<1> QED
  BY <1>5, <1>6, <1>7 DEF Amount

\* Each step of the goroutine that is alone keeps every piece in one place.
LEMMA WorkOnce ==
  ASSUME Inv, Inv', NEW w \in Workers, OneEach(w),
         Have(w) \/ ConcurrentMapWrites(w) \/ KeepAlive(w) \/ WorkerStep(w)
  PROVE  OneEach(w)'
<1> USE DEF Goto, shared
<1>0. pc \in [Workers -> {"dial", "failed", "select", "remove", "check", "download",
                          "error", "append", "load", "store", "announce", "respond"}]
  BY DEF Inv, TypeOK
<1>1. ASSUME NEW why, Panic(why)
      PROVE  OneEach(w)'
  BY <1>1, HandOnce DEF Panic, worker
<1>2. ASSUME NEW l \in {"download", "append", "error", "load", "store", "announce", "respond"},
             Holding(w), pc' = [pc EXCEPT ![w] = l],
             UNCHANGED <<tasks, len, task, dst, held, responses, buf>>
      PROVE  OneEach(w)'
  <2>1. Holding(w)'
    BY <1>0, <1>2 DEF Holding
  <2> QED
    BY <1>2, <2>1, HandOnce
<1>3. CASE Have(w)
  BY <1>3, HandOnce DEF Have
<1>4. CASE HasPiece(w)
  BY <1>1, <1>2, <1>4 DEF HasPiece, Holding
<1>5. CASE DownloadPiece(w)
  BY <1>2, <1>5 DEF DownloadPiece, Holding
<1>6. CASE SendError(w)
  BY <1>1, <1>2, <1>6 DEF SendError, Holding
<1>7. CASE ReadDownloaded(w)
  BY <1>2, <1>7 DEF ReadDownloaded, Holding
<1>8. CASE WriteDownloaded(w)
  BY <1>2, <1>8 DEF WriteDownloaded, Holding
<1>9. CASE AnnounceProgress(w)
  BY <1>1, <1>2, <1>9 DEF AnnounceProgress, Holding
<1>10. CASE Respond(w)
  <2>1. CASE collector = "closed"
    BY <1>1, <1>10, <2>1 DEF Respond
  <2> QED
    BY <1>10, <2>1, RespondOnce
<1>11. CASE Finish(w) \/ ConcurrentMapWrites(w) \/ KeepAlive(w)
  BY <1>1, <1>11 DEF Finish, ConcurrentMapWrites, KeepAlive
<1> QED
  BY <1>3, <1>4, <1>5, <1>6, <1>7, <1>8, <1>9, <1>10, <1>11,
     SelectOnce, LoadOnce, StoreOnce, RemovedOnce, PutBackOnce DEF WorkerStep

\* Who is alone after a step was alone before it, or came into the loop first.
LEMMA AloneBefore ==
  ASSUME Inv, [Next]_vars, NEW w \in Workers, Alone(w)'
  PROVE  Alone(w) \/ (Connect(w) /\ \A v \in Workers : Idle(v))
<1>1. ASSUME NEW v \in Workers, Connect(v) \/ ConnectFails(v) \/ PeerUnreachable(v)
      PROVE  Alone(w) \/ (Connect(w) /\ \A u \in Workers : Idle(u))
  BY <1>1, Entry DEF Alone, Idle
<1>2. ASSUME NEW v \in Workers, Have(v) \/ ConcurrentMapWrites(v) \/ KeepAlive(v) \/ WorkerStep(v)
      PROVE  Alone(w)
  BY <1>2, InLoop DEF Alone, Idle
<1>3. CASE Collect \/ CloseResponses \/ UNCHANGED vars
  BY <1>3 DEF Collect, CloseResponses, vars, worker, Alone
<1> QED
  BY <1>1, <1>2, <1>3 DEF Next

\* Every step of whichever goroutine keeps each piece of one that is alone in one
\* place.
LEMMA NextOnce ==
  ASSUME Inv, Inv', Untouched, [Next]_vars, AlonePieceOnce
  PROVE  AlonePieceOnce'
<1> SUFFICES ASSUME NEW w \in Workers, Alone(w)'
             PROVE  OneEach(w)'
  BY DEF AlonePieceOnce, OneEach, Amount
<1>1. CASE Connect(w) /\ \A v \in Workers : Idle(v)
  BY <1>1, FirstOnce
<1>2. CASE Alone(w)
  <2>1. OneEach(w)
    BY <1>2 DEF AlonePieceOnce, OneEach, Amount
  <2>2. ASSUME NEW v \in Workers, Connect(v) \/ ConnectFails(v) \/ PeerUnreachable(v)
        PROVE  OneEach(w)'
    <3>1. v # w
      BY <1>2, <2>2, Entry DEF Alone
    <3> QED
      BY <2>1, <2>2, <3>1, Entry, HandOnce
  <2>3. ASSUME NEW v \in Workers, Have(v) \/ ConcurrentMapWrites(v) \/ KeepAlive(v) \/ WorkerStep(v)
        PROVE  OneEach(w)'
    <3>1. v = w
      BY <1>2, <2>3, InLoop DEF Alone, Idle
    <3> QED
      BY <2>1, <2>3, <3>1, WorkOnce
  <2>4. CASE CloseResponses \/ UNCHANGED vars
    BY <2>1, <2>4, HandOnce DEF CloseResponses, vars, worker
  <2> QED
    BY <2>1, <2>2, <2>3, <2>4, CollectOnce DEF Next
<1> QED
  BY <1>1, <1>2, AloneBefore

\* With one goroutine at work every piece is in exactly one place, whatever
\* remove and append have moved and whoever fails to connect.  Not inductive
\* alone: the goroutine must find the array as it was made (Untouched), and stay
\* within its slice (HeaderFits).
THEOREM OnePlace == Spec => []AlonePieceOnce
<1>1. Init => AlonePieceOnce
  BY DEF Init, AlonePieceOnce, Alone
<1>2. Inv /\ Untouched /\ [Next]_vars => Untouched'
  BY NextUntouched
<1>3. Inv /\ Inv' /\ Untouched /\ AlonePieceOnce /\ [Next]_vars => AlonePieceOnce'
  BY NextOnce
<1> QED
  BY <1>1, <1>2, <1>3, InitUntouched, Invariance, PTL DEF Spec

-------------------------------------------------------------------------------
(* What the tracker is told. *)

\* The bytes of pieces lie one after the other in the file.
LEMMA BytesBound ==
  ASSUME NEW S \in SUBSET Pieces
  PROVE  IsFiniteSet(Bytes(S)) /\ Cardinality(Bytes(S)) <= Length
<1> DEFINE f == [x \in Bytes(S) |-> x[1] * PieceLength + x[2]]
<1>0. Length \in Nat /\ PieceLength \in Nat /\ PieceLength > 0 /\ Pieces \subseteq Nat
  BY NumPiecesPos, ConstantsAssumption DEF Pieces
<1>1. ASSUME NEW x \in Bytes(S)
      PROVE  /\ x[1] \in Nat /\ x[2] \in Nat /\ 1 <= x[2] /\ x[2] <= PieceLength
             /\ x = <<x[1], x[2]>> /\ f[x] \in 1 .. Length
  <2>1. /\ x[1] \in Nat /\ x[2] \in 1 .. PieceLength /\ x = <<x[1], x[2]>>
        /\ x[2] <= pieceLength(x[1])
    <3>1. x \in S \X (1 .. PieceLength) /\ x[2] <= pieceLength(x[1])
      BY <1>1 DEF Bytes
    <3>2. x[1] \in S /\ x[2] \in 1 .. PieceLength /\ x = <<x[1], x[2]>>
      BY <3>1
    <3> QED
      BY <1>0, <3>1, <3>2
  <2> DEFINE i == x[1]  b == x[2]  start == i * PieceLength
  <2>2. start \in Nat /\ (i + 1) * PieceLength = start + PieceLength
    BY <1>0, <2>1
  <2> HIDE DEF start
  <2>3. start + b \in 1 .. Length
    <3>1. b <= IF start + PieceLength > Length THEN Length - start ELSE PieceLength
      BY <2>1, <2>2 DEF pieceLength, start
    <3> QED
      BY <1>0, <2>1, <2>2, <3>1
  <2> QED
    BY <1>0, <2>1, <2>3 DEF start
<1>2. ASSUME NEW x \in Bytes(S), NEW y \in Bytes(S), x[1] < y[1]
      PROVE  f[x] # f[y]
  <2> DEFINE i == x[1]  j == y[1]
  <2>1. i \in Nat /\ j \in Nat /\ i < j
    BY <1>1, <1>2
  <2>2. (i + 1) * PieceLength <= j * PieceLength /\ (i + 1) * PieceLength = i * PieceLength + PieceLength
    BY <1>0, <2>1
  <2>3. i * PieceLength \in Nat /\ j * PieceLength \in Nat
    BY <1>0, <2>1
  <2> QED
    BY <1>0, <1>1, <1>2, <2>2, <2>3
<1>3. \A x, y \in Bytes(S) : f[x] = f[y] => x = y
  <2> SUFFICES ASSUME NEW x \in Bytes(S), NEW y \in Bytes(S), f[x] = f[y]
               PROVE  x = y
    OBVIOUS
  <2>1. x[1] = y[1]
    BY <1>1, <1>2
  <2>2. x[1] * PieceLength \in Nat
    BY <1>0, <1>1
  <2>3. x[2] = y[2]
    BY <1>1, <2>1, <2>2
  <2> QED
    BY <1>1, <2>1, <2>3
<1>4. f \in Injection(Bytes(S), 1 .. Length)
  BY <1>1, <1>3 DEF Injection, IsInjective
<1>5. IsFiniteSet(1 .. Length) /\ Cardinality(1 .. Length) = Length
  BY <1>0, FS_Interval
<1> QED
  BY <1>4, <1>5, FS_Injection

\* A piece more is its length more.
LEMMA BytesAdd ==
  ASSUME NEW S \in SUBSET Pieces, NEW p \in Pieces \ S
  PROVE  Cardinality(Bytes(S \cup {p})) = Cardinality(Bytes(S)) + pieceLength(p)
<1>0. pieceLength(p) \in Nat /\ p \in Nat /\ Length \in Nat /\ PieceLength \in Nat \ {0}
  BY PieceLengthNat, NumPiecesPos, ConstantsAssumption DEF Pieces
<1>1. pieceLength(p) <= PieceLength
  <2>1. (p + 1) * PieceLength = p * PieceLength + PieceLength /\ p * PieceLength \in Nat
    BY <1>0
  <2> QED
    BY <1>0, <2>1 DEF pieceLength
<1> DEFINE f == [b \in 1 .. pieceLength(p) |-> <<p, b>>]
<1>2. f \in Bijection(1 .. pieceLength(p), Bytes({p}))
  <2>1. \A b \in 1 .. pieceLength(p) : f[b] \in Bytes({p})
    BY <1>0, <1>1 DEF Bytes
  <2>2. \A x \in Bytes({p}) : x[2] \in 1 .. pieceLength(p) /\ f[x[2]] = x
    <3> SUFFICES ASSUME NEW x \in Bytes({p})
                 PROVE  x[2] \in 1 .. pieceLength(p) /\ f[x[2]] = x
      OBVIOUS
    <3>1. x \in {p} \X (1 .. PieceLength) /\ x[2] <= pieceLength(x[1])
      BY DEF Bytes
    <3>2. x[1] = p /\ x[2] \in 1 .. PieceLength /\ x = <<p, x[2]>>
      BY <3>1
    <3> QED
      BY <1>0, <3>1, <3>2
  <2>3. \A a, b \in 1 .. pieceLength(p) : f[a] = f[b] => a = b
    OBVIOUS
  <2>4. f \in [1 .. pieceLength(p) -> Bytes({p})]
    BY <2>1
  <2> HIDE DEF f
  <2> QED
    BY ZenonT(30), <2>2, <2>3, <2>4 DEF Bijection, Injection, Surjection, IsInjective
<1>3. IsFiniteSet(1 .. pieceLength(p)) /\ Cardinality(1 .. pieceLength(p)) = pieceLength(p)
  BY <1>0, FS_Interval
<1>4. IsFiniteSet(Bytes({p})) /\ Cardinality(Bytes({p})) = pieceLength(p)
  <2>1. ExistsBijection(1 .. pieceLength(p), Bytes({p}))
    BY <1>2 DEF ExistsBijection
  <2> QED
    BY <1>3, <2>1, FS_Bijection
<1>5. Bytes(S \cup {p}) = Bytes(S) \cup Bytes({p}) /\ Bytes(S) \cap Bytes({p}) = {}
  BY DEF Bytes
<1>6. Cardinality(Bytes(S) \cup Bytes({p}))
        = Cardinality(Bytes(S)) + Cardinality(Bytes({p})) - Cardinality(Bytes(S) \cap Bytes({p}))
  BY <1>4, BytesBound, FS_Union
<1>7. Cardinality(Bytes(S)) \in Nat /\ Cardinality(Bytes(S) \cap Bytes({p})) = 0
  BY <1>5, BytesBound, FS_CardinalityType, FS_EmptySet
<1>8. Cardinality(Bytes(S \cup {p})) = Cardinality(Bytes(S) \cup Bytes({p}))
  BY <1>5
<1> HIDE DEF f
<1> QED
  BY <1>0, <1>4, <1>6, <1>7, <1>8

\* A number that fits is what it is modulo the bound.
LEMMA SmallMod ==
  ASSUME NEW n \in Nat, n < Uint
  PROVE  n % Uint = n
BY ConstantsAssumption

\* A goroutine that is about to store read what is there.
Accounts(w) ==
  /\ downloaded = Cardinality(Bytes(Accounted(w))) /\ left[w] = Length - downloaded
  /\ pc[w] = "store" => old[w] = downloaded

AccountInv == \A w \in Workers : Alone(w) => Accounts(w)

Told(w) == pc[w] \in {"announce", "respond"}

\* Steps that check no piece.
LEMMA AccountsKept ==
  ASSUME NEW w \in Workers, Accounts(w), UNCHANGED <<downloaded, responses, buf, left[w]>>,
         Told(w)' <=> Told(w), Told(w) => task'[w] = task[w],
         pc'[w] = "store" => (pc[w] = "store" /\ old'[w] = old[w]) \/ old'[w] = downloaded
  PROVE  Accounts(w)'
<1>1. Accounted(w)' = Accounted(w)
  BY DEF Accounted, Told
<1> QED
  BY <1>1 DEF Accounts

\* What is accounted are pieces.
LEMMA AccountedType ==
  ASSUME Inv, NEW w \in Workers
  PROVE  Accounted(w) \in SUBSET Pieces
BY WorkerTypes DEF Accounted

\* A piece is accounted once: it was in hand and nowhere else.
LEMMA WriteAccounts ==
  ASSUME Inv, NEW w \in Workers, OneEach(w), Accounts(w), WriteDownloaded(w)
  PROVE  Accounts(w)'
<1> DEFINE p == task[w]  pl == pieceLength(p)
<1>1. /\ pc[w] = "store" /\ pc'[w] = "announce" /\ downloaded' = old[w] + pl
      /\ left'[w] = (left[w] - pl) % Uint /\ UNCHANGED <<task, responses, buf>>
  BY DEF WriteDownloaded, Goto, Inv, TypeOK
<1>2. p \in Pieces /\ pl \in Nat /\ Length \in Nat /\ downloaded \in Nat
  BY WorkerTypes, PieceLengthNat, ConstantsAssumption DEF Inv, TypeOK
<1>3. p \notin Accounted(w)
  <2>1. Count(SubSeq(tasks, 1, len[w]), p) \in Nat /\ Count(responses, p) \in Nat
    <3>1. 1 \in 1 .. NumPieces + 1 /\ len[w] \in 0 .. NumPieces
      BY NumPiecesPos, WorkerTypes
    <3> QED
      BY <1>2, <3>1, InvCounts DEF Numbers
  <2>2. Count(View(w), p) = Count(SubSeq(tasks, 1, len[w]), p) + 1
    BY <1>1, <1>2, InvCounts DEF ViewCounts, Holding
  <2>3. Count(View(w), p) + Count(responses, p) + (IF p \in buf THEN 1 ELSE 0) = 1
    BY <1>2 DEF OneEach, Amount
  <2>4. Count(responses, p) = 0 /\ p \notin buf
    BY <2>1, <2>2, <2>3
  <2> QED
    BY <1>1, <2>4 DEF Accounted
<1>4. Accounted(w)' = Accounted(w) \cup {p}
  BY <1>1, <1>2 DEF Accounted
<1>5. Cardinality(Bytes(Accounted(w)')) = Cardinality(Bytes(Accounted(w))) + pl
  BY <1>2, <1>3, <1>4, AccountedType, BytesAdd
<1>6. Cardinality(Bytes(Accounted(w)')) <= Length
  BY <1>2, <1>4, AccountedType, BytesBound
<1>7. old[w] = downloaded /\ downloaded = Cardinality(Bytes(Accounted(w)))
      /\ left[w] = Length - downloaded
  BY <1>1 DEF Accounts
<1> HIDE DEF pl
<1>8. downloaded' = Cardinality(Bytes(Accounted(w)')) /\ left[w] - pl = Length - downloaded'
  BY <1>1, <1>2, <1>5, <1>7
<1>9. left'[w] = Length - downloaded'
  <2>1. Length - downloaded' \in Nat /\ Length - downloaded' < Uint
    BY <1>1, <1>2, <1>5, <1>6, <1>7, <1>8, ConstantsAssumption
  <2> QED
    BY <1>1, <1>8, <2>1, SmallMod
<1> QED
  BY <1>1, <1>8, <1>9 DEF Accounts

\* A checked piece goes on to the channel and to the buffer.
LEMMA MoveAccounts ==
  ASSUME Inv, NEW w \in Workers, Accounts(w), (Respond(w) /\ collector # "closed") \/ Collect
  PROVE  Accounts(w)'
<1>1. responses \in Seq(Pieces) /\ task[w] \in Pieces /\ buf \subseteq Pieces
  BY WorkerTypes
<1>2. CASE Respond(w) /\ collector # "closed"
  <2>1. /\ pc[w] = "respond" /\ pc'[w] = "select" /\ responses' = Append(responses, task[w])
        /\ UNCHANGED <<task, buf, downloaded, left>>
    BY <1>2 DEF Respond, Goto, Inv, TypeOK
  <2>2. ASSUME NEW p \in Pieces
        PROVE  /\ Count(responses, p) \in Nat
               /\ Count(responses', p) = Count(responses, p) + (IF task[w] = p THEN 1 ELSE 0)
    <3>1. Count(responses, p) \in Nat
      BY <1>1, CountNat
    <3>2. Count(Append(responses, task[w]), p)
            = Count(responses, p) + (IF task[w] = p THEN 1 ELSE 0)
      BY <1>1, CountEnds
    <3> QED
      BY <2>1, <3>1, <3>2
  <2>3. \A p \in Pieces : Count(responses', p) > 0 <=> Count(responses, p) > 0 \/ p = task[w]
    BY <2>2
  <2>4. Accounted(w)' = Accounted(w)
    BY <1>1, <2>1, <2>3 DEF Accounted
  <2> QED
    BY <2>1, <2>4 DEF Accounts
<1>3. CASE Collect
  <2>1. /\ responses # <<>> /\ responses' = Tail(responses) /\ buf' = buf \cup {Head(responses)}
        /\ UNCHANGED <<pc, task, old, downloaded, left>>
    BY <1>3 DEF Collect, worker
  <2>2. Head(responses) \in Pieces /\ Tail(responses) \in Seq(Pieces)
    BY <1>1, <2>1
  <2>3. ASSUME NEW p \in Pieces
        PROVE  /\ Count(responses', p) \in Nat
               /\ Count(responses, p) = (IF Head(responses) = p THEN 1 ELSE 0) + Count(responses', p)
    <3>1. Count(Tail(responses), p) \in Nat
      BY <2>2, CountNat
    <3>2. Count(responses, p) = (IF Head(responses) = p THEN 1 ELSE 0) + Count(Tail(responses), p)
      BY <1>1, <2>1, <2>2, CountEnds
    <3> QED
      BY <2>1, <3>1, <3>2
  <2>4. \A p \in Pieces : Count(responses, p) > 0 <=> Count(responses', p) > 0 \/ p = Head(responses)
    BY <2>3
  <2>5. Accounted(w)' = Accounted(w)
    BY <1>1, <2>1, <2>2, <2>4 DEF Accounted
  <2> QED
    BY <2>1, <2>5 DEF Accounts
<1> QED
  BY <1>2, <1>3

\* Each step of the goroutine that is alone keeps the account.
LEMMA WorkAccounts ==
  ASSUME Inv, NEW w \in Workers, OneEach(w), Accounts(w),
         Have(w) \/ ConcurrentMapWrites(w) \/ KeepAlive(w) \/ WorkerStep(w)
  PROVE  Accounts(w)'
<1> USE DEF Goto, shared, Told
<1>0. /\ pc \in [Workers -> {"dial", "failed", "select", "remove", "check", "download",
                             "error", "append", "load", "store", "announce", "respond"}]
      /\ task \in [Workers -> Pieces] /\ old \in [Workers -> Nat]
  BY DEF Inv, TypeOK
<1>1. ASSUME NEW why, Panic(why)
      PROVE  Accounts(w)'
  BY <1>1, AccountsKept DEF Panic, worker
<1>2. CASE Select(w) \/ Load(w) \/ Store(w) \/ Removed(w) \/ PutBack(w) \/ Have(w)
  <2>1. pc'[w] \notin {"announce", "respond", "store"} /\ ~Told(w)
    BY <1>0, <1>2 DEF Select, Load, Store, Removed, PutBack, Have
  <2>2. UNCHANGED <<downloaded, responses, buf, left>>
    BY <1>2 DEF Select, Load, Store, Removed, PutBack, Have
  <2> QED
    BY <2>1, <2>2, AccountsKept
<1>3. CASE HasPiece(w) \/ DownloadPiece(w) \/ SendError(w)
  <2>1. CASE \E why : Panic(why)
    BY <1>1, <2>1
  <2>2. CASE ~\E why : Panic(why)
    <3>1. pc'[w] \notin {"announce", "respond", "store"} /\ ~Told(w)
      BY <1>0, <1>3, <2>2 DEF HasPiece, DownloadPiece, SendError
    <3>2. UNCHANGED <<downloaded, responses, buf, left>>
      BY <1>3, <2>2 DEF HasPiece, DownloadPiece, SendError
    <3> QED
      BY <3>1, <3>2, AccountsKept
  <2> QED
    BY <2>1, <2>2
<1>4. CASE ReadDownloaded(w)
  <2>1. pc[w] = "load" /\ pc'[w] = "store" /\ old'[w] = downloaded
    BY <1>0, <1>4 DEF ReadDownloaded
  <2> QED
    BY <1>4, <2>1, AccountsKept DEF ReadDownloaded
<1>5. CASE AnnounceProgress(w)
  <2>1. CASE collector # "collect" /\ Panic("closed")
    BY <1>1, <2>1
  <2>2. CASE ~(collector # "collect" /\ Panic("closed"))
    <3>1. /\ pc[w] = "announce" /\ pc'[w] = "respond"
          /\ UNCHANGED <<downloaded, responses, buf, left, task>>
      BY <1>0, <1>5, <2>2 DEF AnnounceProgress
    <3> QED
      BY <3>1, AccountsKept
  <2> QED
    BY <2>1, <2>2
<1>6. CASE Respond(w)
  <2>1. CASE collector = "closed"
    BY <1>1, <1>6, <2>1 DEF Respond
  <2> QED
    BY <1>6, <2>1, MoveAccounts
<1>7. CASE Finish(w) \/ ConcurrentMapWrites(w) \/ KeepAlive(w)
  BY <1>1, <1>7 DEF Finish, ConcurrentMapWrites, KeepAlive
<1> QED
  BY <1>2, <1>3, <1>4, <1>5, <1>6, <1>7, WriteAccounts DEF WorkerStep

\* The goroutine that comes into the loop first has nothing to tell.
LEMMA FirstAccounts ==
  ASSUME Inv, Untouched, NEW w \in Workers, Connect(w), \A v \in Workers : Idle(v)
  PROVE  Accounts(w)'
<1>1. pc'[w] = "select" /\ UNCHANGED <<left, downloaded, responses, buf>>
  BY Entry
<1>2. downloaded = 0 /\ responses = <<>> /\ buf = {} /\ left[w] = Length
  BY DEF Untouched
<1>3. Accounted(w)' = {}
  <2>1. \A p \in Pieces : Count(responses', p) = 0
    BY <1>1, <1>2, CountSmall
  <2> QED
    BY <1>1, <1>2, <2>1 DEF Accounted
<1>4. Bytes({}) = {}
  BY DEF Bytes
<1> QED
  BY <1>1, <1>2, <1>3, <1>4, FS_EmptySet, ConstantsAssumption DEF Accounts

\* Every step keeps the numbers told to the tracker right while one goroutine is alone.
LEMMA NextAccounts ==
  ASSUME Inv, Untouched, [Next]_vars, AlonePieceOnce, AccountInv
  PROVE  AccountInv'
<1> SUFFICES ASSUME NEW w \in Workers, Alone(w)'
             PROVE  Accounts(w)'
  BY DEF AccountInv
<1>1. CASE Connect(w) /\ \A v \in Workers : Idle(v)
  BY <1>1, FirstAccounts
<1>2. CASE Alone(w)
  <2>1. OneEach(w) /\ Accounts(w)
    BY <1>2 DEF AlonePieceOnce, OneEach, Amount, AccountInv
  <2>2. ASSUME NEW v \in Workers, Connect(v) \/ ConnectFails(v) \/ PeerUnreachable(v)
        PROVE  Accounts(w)'
    <3>1. v # w
      BY <1>2, <2>2, Entry DEF Alone
    <3> QED
      BY <2>1, <2>2, <3>1, Entry, AccountsKept DEF Told
  <2>3. ASSUME NEW v \in Workers, Have(v) \/ ConcurrentMapWrites(v) \/ KeepAlive(v) \/ WorkerStep(v)
        PROVE  Accounts(w)'
    <3>1. v = w
      BY <1>2, <2>3, InLoop DEF Alone, Idle
    <3> QED
      BY <2>1, <2>3, <3>1, WorkAccounts
  <2>4. CASE CloseResponses \/ UNCHANGED vars
    BY <2>1, <2>4, AccountsKept DEF CloseResponses, vars, worker, Told
  <2> QED
    BY <2>1, <2>2, <2>3, <2>4, MoveAccounts DEF Next
<1> QED
  BY <1>1, <1>2, AloneBefore

\* With one goroutine at work the tracker is told the bytes that were checked,
\* and left counts down from the length without wrapping around.  That a piece
\* is in one place (OnePlace) makes it count once; that all bytes together are
\* the file (BytesBound) keeps left from falling below zero.
THEOREM ToldWhatIsChecked == Spec => []AloneAccounts
<1>1. Init => AccountInv
  BY DEF Init, AccountInv, Alone
<1>2. Inv /\ Untouched /\ [Next]_vars => Untouched'
  BY NextUntouched
<1>3. Inv /\ Untouched /\ AlonePieceOnce /\ AccountInv /\ [Next]_vars => AccountInv'
  BY NextAccounts
<1>4. AccountInv => AloneAccounts
  BY DEF AccountInv, Accounts, AloneAccounts
<1> QED
  BY <1>1, <1>2, <1>3, <1>4, InitUntouched, Invariance, OnePlace, PTL DEF Spec
===============================================================================
