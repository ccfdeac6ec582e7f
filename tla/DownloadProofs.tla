---------------------------- MODULE DownloadProofs ----------------------------
(***************************************************************************)
(* What holds of a download for every set of peers and every file.         *)
(***************************************************************************)
EXTENDS Download, TLAPS

-------------------------------------------------------------------------------
(* Lemmas about the file. *)

\* A file has at least one piece.
LEMMA NumPiecesPos == NumPieces \in Nat \ {0}
<1>1. Length \div PieceLength \in Nat
  BY ConstantsAssumption
<1> QED
  BY <1>1 DEF NumPieces

\* A piece has a length: it does not begin behind the end of the file.
LEMMA PieceLengthNat == \A i \in Pieces : pieceLength(i) \in Nat
<1> SUFFICES ASSUME NEW i \in Pieces
             PROVE  pieceLength(i) \in Nat
  OBVIOUS
<1>1. /\ Length \in Nat /\ PieceLength \in Nat \ {0} /\ i \in Nat
  BY NumPiecesPos, ConstantsAssumption DEF Pieces
<1> DEFINE q == Length \div PieceLength
<1>2. q \in Nat /\ q * PieceLength <= Length
  BY <1>1
<1>3. CASE q = 0
  <2>1. i = 0
    BY <1>3 DEF Pieces, NumPieces
  <2> QED
    BY <2>1, <1>1 DEF pieceLength
<1>4. CASE q # 0
  <2>1. i + 1 <= q
    BY <1>1, <1>2, <1>4 DEF Pieces, NumPieces
  <2> HIDE DEF q
  <2>2. (i + 1) * PieceLength <= q * PieceLength
    BY <2>1, <1>1, <1>2
  <2>3. (i + 1) * PieceLength <= Length
    BY <2>2, <1>1, <1>2
  <2> QED
    BY <2>3, <1>1 DEF pieceLength
<1> QED
  BY <1>3, <1>4

-------------------------------------------------------------------------------
(* The inductive invariant. *)

\* A task in hand leaves room to put it back, and remove stays in the slice: no
\* goroutine writes beyond the array, so append never moves it to a copy.
HeaderFits ==
  \A w \in Workers :
    /\ Holding(w) => len[w] + 1 <= NumPieces
    /\ pc[w] = "remove" => dst[w] >= 1 /\ dst[w] + Len(held[w]) <= len[w]
    /\ pc[w] # "remove" => held[w] = <<>>

\* The collector goes on exactly until every result is counted.
CollectorCounts ==
  /\ collector = "collect" <=> donePieces < NumPieces
  /\ crashed = "closed" => collector # "collect"

Inv == TypeOK /\ HeaderFits /\ CollectorCounts

\* A download begins within the invariant.
LEMMA InitInv == Init => Inv
<1> SUFFICES ASSUME Init
             PROVE  Inv
  OBVIOUS
<1>1. TypeOK
  <2>1. \A c \in Cells : c - 1 \in Pieces
    BY NumPiecesPos DEF Cells, Pieces
  <2>2. tasks \in [Cells -> Pieces]
    BY <2>1 DEF Init
  <2>3. /\ 0 \in Pieces /\ NumPieces \in 0 .. NumPieces /\ 0 \in 0 .. NumPieces
    BY NumPiecesPos DEF Pieces
  <2>4. Length % Uint \in 0 .. Uint - 1
    BY ConstantsAssumption
  <2>5. /\ len \in [Workers -> 0 .. NumPieces]
        /\ task \in [Workers -> Pieces]
        /\ dst \in [Workers -> 0 .. NumPieces]
        /\ left \in [Workers -> 0 .. Uint - 1]
        /\ donePieces \in 0 .. NumPieces
    BY <2>3, <2>4 DEF Init
  <2>6. /\ pc \in [Workers -> {"dial", "failed", "select", "remove", "check", "download",
                         "error", "append", "load", "store", "announce", "respond"}]
        /\ held \in [Workers -> Seq(Pieces)]
        /\ mode \in [Workers -> {"random first", "rarest first"}]
        /\ conn \in [Workers -> {"none", "up", "down", "short"}]
        /\ bits \in [Workers -> SUBSET Pieces]
        /\ old \in [Workers -> Nat]
    <3>1. <<>> \in Seq(Pieces) /\ {} \in SUBSET Pieces
      OBVIOUS
    <3> QED
      BY <3>1 DEF Init
  <2>7. /\ downloaded \in Nat
        /\ responses \in Seq(Pieces)
        /\ buf \subseteq Pieces
        /\ collector \in {"collect", "errClosed", "closed"}
        /\ crashed \in {"no", "nil", "closed", "index", "map", "keepalive"}
    <3>1. <<>> \in Seq(Pieces)
      OBVIOUS
    <3> QED
      BY <3>1 DEF Init
  <2> QED
    BY <2>2, <2>5, <2>6, <2>7 DEF TypeOK
<1>2. HeaderFits
  BY DEF Init, HeaderFits, Holding
<1>3. CollectorCounts
  <2>1. donePieces = 0 /\ collector = "collect" /\ crashed = "no"
    BY DEF Init
  <2>2. donePieces < NumPieces
    BY <2>1, NumPiecesPos
  <2> QED
    BY <2>1, <2>2 DEF CollectorCounts
<1> QED
  BY <1>1, <1>2, <1>3 DEF Inv

-------------------------------------------------------------------------------
(* Steps. *)

\* A panic changes nothing but the word for it.
LEMMA PanicInv ==
  ASSUME Inv, NEW why \in {"nil", "closed", "index", "map", "keepalive"}, Panic(why),
         why = "closed" => collector # "collect"
  PROVE  Inv'
<1> USE DEF Inv, Panic, worker
<1>1. TypeOK'
  BY DEF TypeOK
<1>2. HeaderFits'
  BY DEF HeaderFits, Holding
<1>3. CollectorCounts'
  BY DEF CollectorCounts
<1> QED
  BY <1>1, <1>2, <1>3

\* Every action of a goroutine, of the collector, and stuttering.
LEMMA NextInv ==
  ASSUME Inv, [Next]_vars
  PROVE  Inv'
<1> USE NumPiecesPos DEF Inv, Goto, Alive
<1> HIDE DEF NumPieces
<1>1. ASSUME NEW w \in Workers, Connect(w)
      PROVE  Inv'
  <2>1. bits' \in [Workers -> SUBSET Pieces]
    BY <1>1 DEF Connect, TypeOK
  <2>2. conn' \in [Workers -> {"none", "up", "down", "short"}]
    BY <1>1 DEF Connect, TypeOK
  <2>3. TypeOK'
    BY <1>1, <2>1, <2>2 DEF Connect, shared, TypeOK
  <2>4. HeaderFits'
    BY <1>1 DEF Connect, shared, TypeOK, HeaderFits, Holding
  <2>5. CollectorCounts'
    BY <1>1 DEF Connect, shared, CollectorCounts
  <2> QED
    BY <2>3, <2>4, <2>5
<1>2. ASSUME NEW w \in Workers, ConnectFails(w)
      PROVE  Inv'
  <2>1. CASE collector # "collect"
    BY <1>2, <2>1, PanicInv DEF ConnectFails
  <2>2. CASE ~(collector # "collect")
    <3>1. TypeOK'
      BY <1>2, <2>2 DEF ConnectFails, shared, TypeOK
    <3>2. HeaderFits'
      BY <1>2, <2>2 DEF ConnectFails, shared, TypeOK, HeaderFits, Holding
    <3>3. CollectorCounts'
      BY <1>2, <2>2 DEF ConnectFails, shared, CollectorCounts
    <3> QED
      BY <3>1, <3>2, <3>3
  <2> QED
    BY <2>1, <2>2
<1>3. ASSUME NEW w \in Workers, PeerUnreachable(w)
      PROVE  Inv'
  BY <1>3, PanicInv DEF PeerUnreachable
<1>4. ASSUME NEW w \in Workers, Have(w)
      PROVE  Inv'
  <2>1. bits' \in [Workers -> SUBSET Pieces]
    <3>1. PICK p \in Pieces \ bits[w] : bits' = [bits EXCEPT ![w] = @ \cup {p}]
      BY <1>4 DEF Have
    <3>2. bits[w] \cup {p} \in SUBSET Pieces
      BY <3>1 DEF TypeOK
    <3> QED
      BY <3>1, <3>2 DEF TypeOK
  <2>2. TypeOK'
    BY <1>4, <2>1 DEF Have, shared, TypeOK
  <2>3. HeaderFits'
    BY <1>4 DEF Have, shared, HeaderFits, Holding
  <2>4. CollectorCounts'
    BY <1>4 DEF Have, shared, CollectorCounts
  <2> QED
    BY <2>2, <2>3, <2>4
<1>5. ASSUME NEW w \in Workers, ConcurrentMapWrites(w) \/ KeepAlive(w)
      PROVE  Inv'
  BY <1>5, PanicInv DEF ConcurrentMapWrites, KeepAlive
<1>6. ASSUME NEW w \in Workers, Select(w)
      PROVE  Inv'
  <2>1. PICK i \in SelectPiece(w) : /\ task' = [task EXCEPT ![w] = tasks[i]]
                                    /\ dst' = [dst EXCEPT ![w] = i]
    BY <1>6 DEF Select
  <2>2. len[w] \in 0 .. NumPieces /\ len[w] > 0 /\ pc[w] = "select"
    BY <1>6 DEF Select, TypeOK
  <2>3. i \in 1 .. len[w]
    <3>1. CASE mode[w] = "random first"
      BY <2>1, <3>1 DEF SelectPiece
    <3>2. CASE mode[w] # "random first"
      <4>1. i = 1
        BY <2>1, <3>2 DEF SelectPiece
      <4> QED
        BY <4>1, <2>2
    <3> QED
      BY <3>1, <3>2
  <2>4. i \in Cells /\ i \in 0 .. NumPieces
    BY <2>2, <2>3 DEF Cells
  <2>5. task' \in [Workers -> Pieces] /\ dst' \in [Workers -> 0 .. NumPieces]
    BY <2>1, <2>4 DEF TypeOK
  <2>6. TypeOK'
    BY <1>6, <2>5 DEF Select, shared, TypeOK
  <2>7. HeaderFits'
    <3> SUFFICES ASSUME NEW v \in Workers
                 PROVE  /\ Holding(v)' => len'[v] + 1 <= NumPieces
                        /\ pc'[v] = "remove" => dst'[v] >= 1 /\ dst'[v] + Len(held'[v]) <= len'[v]
                        /\ pc'[v] # "remove" => held'[v] = <<>>
      BY DEF HeaderFits
    <3>1. CASE v = w
      <4>1. pc'[w] = "remove" /\ dst'[w] = i /\ len'[w] = len[w] /\ held'[w] = <<>>
        BY <1>6, <2>1 DEF Select, TypeOK, HeaderFits
      <4>2. Len(held'[w]) = 0
        BY <4>1
      <4> QED
        BY <3>1, <4>1, <4>2, <2>2, <2>3 DEF Holding
    <3>2. CASE v # w
      BY <1>6, <2>1, <3>2 DEF Select, TypeOK, HeaderFits, Holding
    <3> QED
      BY <3>1, <3>2
  <2>8. CollectorCounts'
    BY <1>6 DEF Select, shared, CollectorCounts
  <2> QED
    BY <2>6, <2>7, <2>8
<1>7. ASSUME NEW w \in Workers, Load(w)
      PROVE  Inv'
  <2>1. /\ pc[w] = "remove" /\ src(w) <= len[w]
        /\ held[w] \in Seq(Pieces) /\ dst[w] \in 0 .. NumPieces /\ len[w] \in 0 .. NumPieces
        /\ dst[w] >= 1
    BY <1>7 DEF Load, TypeOK, HeaderFits
  <2>2. src(w) \in Cells
    BY <2>1 DEF src, Cells
  <2>3. /\ Append(held[w], tasks[src(w)]) \in Seq(Pieces)
        /\ Len(Append(held[w], tasks[src(w)])) = Len(held[w]) + 1
    <3>1. tasks[src(w)] \in Pieces
      BY <2>2 DEF TypeOK
    <3> DEFINE q == held[w]  e == tasks[src(w)]
    <3>2. q \in Seq(Pieces) /\ e \in Pieces
      BY <2>1, <3>1
    <3> HIDE DEF q, e
    <3>3. Append(q, e) \in Seq(Pieces) /\ Len(Append(q, e)) = Len(q) + 1
      BY ONLY <3>2
    <3> QED
      BY <3>3 DEF q, e
  <2>4. held' = [held EXCEPT ![w] = Append(held[w], tasks[src(w)])]
    BY <1>7 DEF Load
  <2>5. TypeOK'
    <3>1. held' \in [Workers -> Seq(Pieces)]
      BY <2>3, <2>4 DEF TypeOK
    <3> QED
      BY <1>7, <3>1 DEF Load, shared, TypeOK
  <2>6. HeaderFits'
    <3> SUFFICES ASSUME NEW v \in Workers
                 PROVE  /\ Holding(v)' => len'[v] + 1 <= NumPieces
                        /\ pc'[v] = "remove" => dst'[v] >= 1 /\ dst'[v] + Len(held'[v]) <= len'[v]
                        /\ pc'[v] # "remove" => held'[v] = <<>>
      BY DEF HeaderFits
    <3>1. CASE v = w
      <4>1. Len(held'[w]) = Len(held[w]) + 1
        BY <2>3, <2>4 DEF TypeOK
      <4> QED
        BY SMTT(30), <1>7, <3>1, <4>1, <2>1 DEF Load, Holding, src
    <3>2. CASE v # w
      BY <1>7, <2>4, <3>2 DEF Load, TypeOK, HeaderFits, Holding
    <3> QED
      BY <3>1, <3>2
  <2>7. CollectorCounts'
    BY <1>7 DEF Load, shared, CollectorCounts
  <2> QED
    BY <2>5, <2>6, <2>7
<1>8. ASSUME NEW w \in Workers, Store(w)
      PROVE  Inv'
  <2>1. /\ pc[w] = "remove" /\ held[w] # <<>>
        /\ held[w] \in Seq(Pieces) /\ dst[w] \in 0 .. NumPieces /\ len[w] \in 0 .. NumPieces
        /\ dst[w] >= 1 /\ dst[w] + Len(held[w]) <= len[w]
    BY <1>8 DEF Store, TypeOK, HeaderFits
  <2>2. /\ Head(held[w]) \in Pieces /\ Tail(held[w]) \in Seq(Pieces)
        /\ Len(Tail(held[w])) = Len(held[w]) - 1 /\ Len(held[w]) \in Nat \ {0}
    BY <2>1
  <2>3. dst[w] + 1 \in 0 .. NumPieces
    BY <2>1, <2>2
  <2>4. /\ tasks' \in [Cells -> Pieces]
        /\ held' = [held EXCEPT ![w] = Tail(held[w])]
        /\ dst' = [dst EXCEPT ![w] = dst[w] + 1]
    BY <1>8, <2>2 DEF Store, TypeOK
  <2>5. TypeOK'
    <3>1. held' \in [Workers -> Seq(Pieces)] /\ dst' \in [Workers -> 0 .. NumPieces]
      BY <2>2, <2>3, <2>4 DEF TypeOK
    <3> QED
      BY <1>8, <3>1, <2>4 DEF Store, TypeOK
  <2>6. HeaderFits'
    <3> SUFFICES ASSUME NEW v \in Workers
                 PROVE  /\ Holding(v)' => len'[v] + 1 <= NumPieces
                        /\ pc'[v] = "remove" => dst'[v] >= 1 /\ dst'[v] + Len(held'[v]) <= len'[v]
                        /\ pc'[v] # "remove" => held'[v] = <<>>
      BY DEF HeaderFits
    <3>1. CASE v = w
      <4>1. Len(held'[w]) = Len(held[w]) - 1 /\ dst'[w] = dst[w] + 1
        BY <2>2, <2>4 DEF TypeOK
      <4> QED
        BY SMTT(30), <1>8, <3>1, <4>1, <2>1, <2>2 DEF Store, Holding
    <3>2. CASE v # w
      BY <1>8, <2>4, <3>2 DEF Store, TypeOK, HeaderFits, Holding
    <3> QED
      BY <3>1, <3>2
  <2>7. CollectorCounts'
    BY <1>8 DEF Store, CollectorCounts
  <2> QED
    BY <2>5, <2>6, <2>7
<1>9. ASSUME NEW w \in Workers, Removed(w)
      PROVE  Inv'
  <2>1. /\ pc[w] = "remove" /\ held[w] = <<>>
        /\ dst[w] \in 0 .. NumPieces /\ len[w] \in 0 .. NumPieces
        /\ dst[w] >= 1 /\ dst[w] + Len(held[w]) <= len[w]
    BY <1>9 DEF Removed, TypeOK, HeaderFits
  <2>2. len[w] - 1 \in 0 .. NumPieces /\ len[w] - 1 + 1 <= NumPieces
    BY <2>1
  <2>3. len' = [len EXCEPT ![w] = len[w] - 1]
    BY <1>9 DEF Removed
  <2>4. TypeOK'
    <3>1. len' \in [Workers -> 0 .. NumPieces]
      BY <2>2, <2>3 DEF TypeOK
    <3> QED
      BY <1>9, <3>1 DEF Removed, shared, TypeOK
  <2>5. HeaderFits'
    <3> SUFFICES ASSUME NEW v \in Workers
                 PROVE  /\ Holding(v)' => len'[v] + 1 <= NumPieces
                        /\ pc'[v] = "remove" => dst'[v] >= 1 /\ dst'[v] + Len(held'[v]) <= len'[v]
                        /\ pc'[v] # "remove" => held'[v] = <<>>
      BY DEF HeaderFits
    <3>1. CASE v = w
      BY <1>9, <3>1, <2>1, <2>2, <2>3 DEF Removed, TypeOK
    <3>2. CASE v # w
      BY <1>9, <2>3, <3>2 DEF Removed, TypeOK, HeaderFits, Holding
    <3> QED
      BY <3>1, <3>2
  <2>6. CollectorCounts'
    BY <1>9 DEF Removed, shared, CollectorCounts
  <2> QED
    BY <2>4, <2>5, <2>6
<1>10. ASSUME NEW w \in Workers, HasPiece(w)
      PROVE  Inv'
  <2>1. CASE conn[w] = "short"
    BY <1>10, <2>1, PanicInv DEF HasPiece
  <2>2. CASE conn[w] # "short"
    <3>1. TypeOK'
      BY <1>10, <2>2 DEF HasPiece, shared, TypeOK
    <3>2. HeaderFits'
      BY <1>10, <2>2 DEF HasPiece, shared, TypeOK, HeaderFits, Holding
    <3>3. CollectorCounts'
      BY <1>10, <2>2 DEF HasPiece, shared, CollectorCounts
    <3> QED
      BY <3>1, <3>2, <3>3
  <2> QED
    BY <2>1, <2>2
<1>11. ASSUME NEW w \in Workers, DownloadPiece(w)
      PROVE  Inv'
  <2>1. TypeOK'
    BY <1>11 DEF DownloadPiece, shared, TypeOK
  <2>2. HeaderFits'
    BY <1>11 DEF DownloadPiece, shared, TypeOK, HeaderFits, Holding
  <2>3. CollectorCounts'
    BY <1>11 DEF DownloadPiece, shared, CollectorCounts
  <2> QED
    BY <2>1, <2>2, <2>3
<1>12. ASSUME NEW w \in Workers, SendError(w)
      PROVE  Inv'
  <2>1. CASE collector # "collect"
    BY <1>12, <2>1, PanicInv DEF SendError
  <2>2. CASE ~(collector # "collect")
    <3>1. TypeOK'
      BY <1>12, <2>2 DEF SendError, shared, TypeOK
    <3>2. HeaderFits'
      BY <1>12, <2>2 DEF SendError, shared, TypeOK, HeaderFits, Holding
    <3>3. CollectorCounts'
      BY <1>12, <2>2 DEF SendError, shared, CollectorCounts
    <3> QED
      BY <3>1, <3>2, <3>3
  <2> QED
    BY <2>1, <2>2
<1>13. ASSUME NEW w \in Workers, PutBack(w)
      PROVE  Inv'
  <2>1. len[w] \in 0 .. NumPieces /\ len[w] + 1 <= NumPieces /\ task[w] \in Pieces
    BY <1>13 DEF PutBack, TypeOK, HeaderFits, Holding
  <2>2. len[w] + 1 \in 0 .. NumPieces
    BY <2>1
  <2>3. /\ tasks' \in [Cells -> Pieces]
        /\ len' = [len EXCEPT ![w] = len[w] + 1]
    BY <1>13, <2>1 DEF PutBack, TypeOK
  <2>4. TypeOK'
    <3>1. len' \in [Workers -> 0 .. NumPieces]
      BY <2>2, <2>3 DEF TypeOK
    <3> QED
      BY <1>13, <3>1, <2>3 DEF PutBack, TypeOK
  <2>5. HeaderFits'
    <3> SUFFICES ASSUME NEW v \in Workers
                 PROVE  /\ Holding(v)' => len'[v] + 1 <= NumPieces
                        /\ pc'[v] = "remove" => dst'[v] >= 1 /\ dst'[v] + Len(held'[v]) <= len'[v]
                        /\ pc'[v] # "remove" => held'[v] = <<>>
      BY DEF HeaderFits
    <3>1. CASE v = w
      BY <1>13, <3>1 DEF PutBack, TypeOK, HeaderFits, Holding
    <3>2. CASE v # w
      BY <1>13, <2>3, <3>2 DEF PutBack, TypeOK, HeaderFits, Holding
    <3> QED
      BY <3>1, <3>2
  <2>6. CollectorCounts'
    BY <1>13 DEF PutBack, CollectorCounts
  <2> QED
    BY <2>4, <2>5, <2>6
<1>14. ASSUME NEW w \in Workers, ReadDownloaded(w)
      PROVE  Inv'
  <2>1. TypeOK'
    BY <1>14 DEF ReadDownloaded, shared, TypeOK
  <2>2. HeaderFits'
    BY <1>14 DEF ReadDownloaded, shared, TypeOK, HeaderFits, Holding
  <2>3. CollectorCounts'
    BY <1>14 DEF ReadDownloaded, shared, CollectorCounts
  <2> QED
    BY <2>1, <2>2, <2>3
<1>15. ASSUME NEW w \in Workers, WriteDownloaded(w)
      PROVE  Inv'
  <2>1. pieceLength(task[w]) \in Nat /\ old[w] \in Nat /\ left[w] \in Int
    <3>1. task[w] \in Pieces /\ old[w] \in Nat /\ left[w] \in 0 .. Uint - 1
      BY DEF TypeOK
    <3> QED
      BY <3>1, PieceLengthNat, ConstantsAssumption
  <2>2. (left[w] - pieceLength(task[w])) % Uint \in 0 .. Uint - 1
    BY <2>1, ConstantsAssumption
  <2>3. downloaded' \in Nat
    BY <1>15, <2>1 DEF WriteDownloaded
  <2>4. left' \in [Workers -> 0 .. Uint - 1]
    BY <1>15, <2>2 DEF WriteDownloaded, TypeOK
  <2>5. TypeOK'
    BY <1>15, <2>3, <2>4 DEF WriteDownloaded, TypeOK
  <2>6. HeaderFits'
    BY <1>15 DEF WriteDownloaded, TypeOK, HeaderFits, Holding
  <2>7. CollectorCounts'
    BY <1>15 DEF WriteDownloaded, CollectorCounts
  <2> QED
    BY <2>5, <2>6, <2>7
<1>16. ASSUME NEW w \in Workers, AnnounceProgress(w)
      PROVE  Inv'
  <2>1. CASE collector # "collect" /\ Panic("closed")
    BY <2>1, PanicInv
  <2>2. CASE ~(collector # "collect" /\ Panic("closed"))
    <3>1. TypeOK'
      BY <1>16, <2>2 DEF AnnounceProgress, shared, TypeOK
    <3>2. HeaderFits'
      BY <1>16, <2>2 DEF AnnounceProgress, shared, TypeOK, HeaderFits, Holding
    <3>3. CollectorCounts'
      BY <1>16, <2>2 DEF AnnounceProgress, shared, CollectorCounts
    <3> QED
      BY <3>1, <3>2, <3>3
  <2> QED
    BY <2>1, <2>2
<1>17. ASSUME NEW w \in Workers, Respond(w)
      PROVE  Inv'
  <2>1. CASE collector = "closed"
    BY <1>17, <2>1, PanicInv DEF Respond
  <2>2. CASE collector # "closed"
    <3>1. responses' \in Seq(Pieces)
      <4>1. responses \in Seq(Pieces) /\ task[w] \in Pieces
        BY DEF TypeOK
      <4> QED
        BY <1>17, <2>2, <4>1 DEF Respond
    <3>2. TypeOK'
      BY <1>17, <2>2, <3>1 DEF Respond, TypeOK
    <3>3. HeaderFits'
      BY <1>17, <2>2 DEF Respond, TypeOK, HeaderFits, Holding
    <3>4. CollectorCounts'
      BY <1>17, <2>2 DEF Respond, CollectorCounts
    <3> QED
      BY <3>2, <3>3, <3>4
  <2> QED
    BY <2>1, <2>2
<1>18. ASSUME NEW w \in Workers, Finish(w)
      PROVE  Inv'
  BY <1>18, PanicInv DEF Finish
<1>19. ASSUME Collect
      PROVE  Inv'
  <2>1. /\ responses \in Seq(Pieces) /\ responses # <<>> /\ collector = "collect"
        /\ donePieces \in 0 .. NumPieces /\ donePieces < NumPieces
    BY <1>19 DEF Collect, TypeOK, CollectorCounts
  <2>2. Head(responses) \in Pieces /\ Tail(responses) \in Seq(Pieces)
    BY <2>1
  <2>3. TypeOK'
    <3>1. responses' \in Seq(Pieces) /\ buf' \subseteq Pieces
      BY <1>19, <2>2 DEF Collect, TypeOK
    <3>2. donePieces' \in 0 .. NumPieces
      BY <1>19, <2>1 DEF Collect
    <3>3. collector' \in {"collect", "errClosed", "closed"}
      BY <1>19 DEF Collect
    <3> QED
      BY <1>19, <3>1, <3>2, <3>3 DEF Collect, worker, TypeOK
  <2>4. HeaderFits'
    BY <1>19 DEF Collect, worker, HeaderFits, Holding
  <2>5. CollectorCounts'
    <3>1. CASE donePieces + 1 = NumPieces
      BY <1>19, <2>1, <3>1 DEF Collect, CollectorCounts
    <3>2. CASE donePieces + 1 # NumPieces
      <4>1. donePieces' < NumPieces /\ collector' = "collect" /\ crashed' = crashed
        BY <1>19, <2>1, <3>2 DEF Collect
      <4> QED
        BY <4>1, <2>1 DEF CollectorCounts
    <3> QED
      BY <3>1, <3>2
  <2> QED
    BY <2>3, <2>4, <2>5
<1>20. ASSUME CloseResponses
      PROVE  Inv'
  <2>1. TypeOK'
    BY <1>20 DEF CloseResponses, worker, TypeOK
  <2>2. HeaderFits'
    BY <1>20 DEF CloseResponses, worker, HeaderFits, Holding
  <2>3. CollectorCounts'
    BY <1>20 DEF CloseResponses, worker, CollectorCounts
  <2> QED
    BY <2>1, <2>2, <2>3
<1>21. ASSUME UNCHANGED vars
      PROVE  Inv'
  BY <1>21 DEF vars, TypeOK, HeaderFits, Holding, CollectorCounts
<1> QED
  BY <1>1, <1>2, <1>3, <1>4, <1>5, <1>6, <1>7, <1>8, <1>9, <1>10, <1>11,
     <1>12, <1>13, <1>14, <1>15, <1>16, <1>17, <1>18, <1>19, <1>20, <1>21 DEF Next, WorkerStep

-------------------------------------------------------------------------------
(* Theorems. *)

\* The inductive invariant holds for every set of peers and every file length.
\* (StartPeerDownload's remove and append, and the collector.)
THEOREM Invariance == Spec => []Inv
<1>1. Init => Inv
  BY InitInv
<1>2. Inv /\ [Next]_vars => Inv'
  BY NextInv
<1> QED
  BY <1>1, <1>2, PTL DEF Spec

\* Every reachable state of a download is well typed, whatever the goroutines do
\* to the array they share.  (StartPeerDownload.)
THEOREM TypeCorrect == Spec => []TypeOK
<1>1. Inv => TypeOK
  BY DEF Inv
<1> QED
  BY <1>1, Invariance, PTL

\* The channels are closed only when every result is counted, for any number of
\* peers and pieces.  (The collector of DownloadFile.)
THEOREM Counted == Spec => []ClosedWhenCounted
<1>1. Inv => ClosedWhenCounted
  <2> SUFFICES ASSUME Inv, collector # "collect" \/ crashed = "closed"
               PROVE  donePieces = NumPieces
    BY DEF ClosedWhenCounted
  <2>1. collector # "collect" /\ ~(donePieces < NumPieces)
    BY DEF Inv, CollectorCounts
  <2>2. donePieces \in 0 .. NumPieces
    BY DEF Inv, TypeOK
  <2> QED
    BY <2>1, <2>2, NumPiecesPos
<1> QED
  BY <1>1, Invariance, PTL
===============================================================================
