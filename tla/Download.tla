------------------------------- MODULE Download -------------------------------
(***************************************************************************)
(* One download: DownloadFile of Client/torrent_peer/torrent.go, with a    *)
(* goroutine StartPeerDownload (torrent_peer.go) per peer of the torrent,  *)
(* the goroutine that collects the pieces and the channels between them.   *)
(*                                                                         *)
(* Each goroutine gets its own slice header of tasks, over ONE array that  *)
(* nothing protects: remove and append write the cells the others read.    *)
(* The copy inside remove is split here into its loads and stores.         *)
(***************************************************************************)
EXTENDS Integers, Sequences, FiniteSets

CONSTANTS
  Workers,      \* the peers of the torrent, each with its goroutine
  Honest,       \* those that can be reached, keep the connection and send
                \* what the torrent file says
  Length,       \* bytes of the file
  PieceLength,  \* bytes of a piece
  RespCap,      \* capacity of the channel responses
  Uint          \* bound: values of an unsigned integer (2^64 in the code)

ASSUME ConstantsAssumption ==
  /\ IsFiniteSet(Workers)
  /\ Honest \subseteq Workers
  /\ Length \in Nat
  /\ PieceLength \in Nat \ {0}
  /\ RespCap \in Nat \ {0}
  /\ Uint \in Nat \ {0}
  /\ Length < Uint

\* BuildTorrentFile hashes the whole pieces of a file; a file shorter than a
\* piece gets one hash.
NumPieces == IF Length \div PieceLength = 0 THEN 1 ELSE Length \div PieceLength

Pieces == 0 .. NumPieces - 1

pieceLength(i) ==
  IF (i + 1) * PieceLength > Length THEN Length - i * PieceLength ELSE PieceLength

\* Cells of the array behind tasks.  A header never grows past them, so append
\* writes in place.
Cells == 1 .. NumPieces

VARIABLES
  tasks,      \* the shared array
  pc,         \* where each goroutine is
  len,        \* the length of its slice header
  task,       \* the task it took
  dst,        \* remove: the next cell to store to, ...
  held,       \* ... and what was loaded and is not yet stored
  mode,       \* piece selection
  conn,       \* its connection
  bits,       \* client.Bitfield
  left,       \* bytes it still has to announce
  old,        \* dp.downloaded as it read it
  downloaded, \* dp.downloaded
  responses,  \* pieces on their way to the collector
  buf,        \* the pieces copied into the buffer
  donePieces, \* results collected
  collector,  \* "collect", then errChan is closed, then responses too
  crashed     \* what ended the process, or "no"

worker == <<pc, len, task, dst, held, mode, conn, bits, left, old>>
shared == <<tasks, downloaded, responses, buf, donePieces, collector, crashed>>
vars   == <<tasks, pc, len, task, dst, held, mode, conn, bits, left, old,
            downloaded, responses, buf, donePieces, collector, crashed>>

-------------------------------------------------------------------------------
Alive == crashed = "no"

\* A panic in any goroutine ends the process.
Panic(why) == crashed' = why /\ UNCHANGED <<tasks, downloaded, responses, buf,
                                            donePieces, collector, worker>>

Goto(w, label) == pc' = [pc EXCEPT ![w] = label]

Init ==
  /\ tasks = [c \in Cells |-> c - 1]
  /\ pc = [w \in Workers |-> "dial"]
  /\ len = [w \in Workers |-> NumPieces]
  /\ task = [w \in Workers |-> 0]
  /\ dst = [w \in Workers |-> 0]
  /\ held = [w \in Workers |-> <<>>]
  /\ mode = [w \in Workers |-> "random first"]
  /\ conn = [w \in Workers |-> "none"]
  /\ bits = [w \in Workers |-> {}]
  /\ left = [w \in Workers |-> Length % Uint]
  /\ old = [w \in Workers |-> 0]
  /\ downloaded = 0
  /\ responses = <<>>
  /\ buf = {}
  /\ donePieces = 0
  /\ collector = "collect"
  /\ crashed = "no"

-------------------------------------------------------------------------------
(* StartPeerDownload, until the loop. *)

\* Handshake, bitfield, UNCHOKE, INTERESTED and the announce "started" succeed.
\* A peer that does not have the torrent sends a bitfield without bytes.
Connect(w) ==
  /\ Alive /\ pc[w] = "dial"
  /\ Goto(w, "select")
  /\ \/ /\ conn' = [conn EXCEPT ![w] = "up"]
        /\ \E b \in SUBSET Pieces : bits' = [bits EXCEPT ![w] = b]
     \/ /\ w \notin Honest
        /\ conn' = [conn EXCEPT ![w] = "short"]
        /\ UNCHANGED bits
  /\ UNCHANGED <<len, task, dst, held, mode, left, old, shared>>

\* One of them fails and the goroutine returns, its error sent to errChan.
ConnectFails(w) ==
  /\ Alive /\ pc[w] = "dial" /\ w \notin Honest
  /\ IF collector = "collect"
     THEN /\ Goto(w, "failed")
          /\ UNCHANGED <<len, task, dst, held, mode, conn, bits, left, old, shared>>
     ELSE Panic("closed")

\* Nobody listens there, or the answer to the handshake does not come: the
\* nil connection is used all the same.
PeerUnreachable(w) ==
  /\ Alive /\ pc[w] = "dial" /\ w \notin Honest
  /\ Panic("nil")

-------------------------------------------------------------------------------
(* The loop. *)

\* Mutant: always the last task.
SelectPiece_last(w) == {len[w]}

\* The indices SelectPiece may return: any, or the first, since peers is empty
\* in every goroutine and RarestFirst finds all pieces as rare.
SelectPiece(w) == IF mode[w] = "random first" THEN 1 .. len[w] ELSE {1}

\* task := tasks[i], and remove begins to move the cells above i down.
Select(w) ==
  /\ Alive /\ pc[w] = "select" /\ len[w] > 0
  /\ \E i \in SelectPiece(w) :
       /\ task' = [task EXCEPT ![w] = tasks[i]]
       /\ dst' = [dst EXCEPT ![w] = i]
  /\ Goto(w, "remove")
  /\ UNCHANGED <<len, held, mode, conn, bits, left, old, shared>>

\* The cell remove loads next.
src(w) == dst[w] + Len(held[w]) + 1

Load(w) ==
  /\ Alive /\ pc[w] = "remove" /\ src(w) <= len[w]
  /\ held' = [held EXCEPT ![w] = Append(@, tasks[src(w)])]
  /\ UNCHANGED <<pc, len, task, dst, mode, conn, bits, left, old, shared>>

Store(w) ==
  /\ Alive /\ pc[w] = "remove" /\ held[w] # <<>>
  /\ tasks' = [tasks EXCEPT ![dst[w]] = Head(held[w])]
  /\ held' = [held EXCEPT ![w] = Tail(@)]
  /\ dst' = [dst EXCEPT ![w] = @ + 1]
  /\ UNCHANGED <<pc, len, task, mode, conn, bits, left, old, downloaded, responses,
                 buf, donePieces, collector, crashed>>

\* Mutant: the slice remove returns is dropped.
Removed_dropped(w) ==
  /\ Alive /\ pc[w] = "remove" /\ src(w) > len[w] /\ held[w] = <<>>
  /\ Goto(w, "check")
  /\ UNCHANGED <<len, task, dst, held, mode, conn, bits, left, old, shared>>

Removed(w) ==
  /\ Alive /\ pc[w] = "remove" /\ src(w) > len[w] /\ held[w] = <<>>
  /\ len' = [len EXCEPT ![w] = @ - 1]
  /\ Goto(w, "check")
  /\ UNCHANGED <<task, dst, held, mode, conn, bits, left, old, shared>>

\* HasPiece indexes a bitfield that may be too short.
HasPiece(w) ==
  /\ Alive /\ pc[w] = "check"
  /\ IF conn[w] = "short"
     THEN Panic("index")
     ELSE /\ Goto(w, IF task[w] \in bits[w] THEN "download" ELSE "append")
          /\ UNCHANGED <<len, task, dst, held, mode, conn, bits, left, old, shared>>

\* DownloadPiece (module PeerWire has its inside) and check: the piece is
\* the one of the torrent file, or it is not, or the connection is lost.
DownloadPiece(w) ==
  /\ Alive /\ pc[w] = "download"
  /\ \/ conn[w] = "up" /\ Goto(w, "load") /\ UNCHANGED conn
     \/ w \notin Honest /\ Goto(w, "error") /\ UNCHANGED conn
     \/ w \notin Honest /\ Goto(w, "error") /\ conn' = [conn EXCEPT ![w] = "down"]
  /\ UNCHANGED <<len, task, dst, held, mode, bits, left, old, shared>>

\* A HAVE message that comes in between.
Have(w) ==
  /\ Alive /\ pc[w] = "download" /\ conn[w] = "up"
  /\ \E p \in Pieces \ bits[w] : bits' = [bits EXCEPT ![w] = @ \cup {p}]
  /\ UNCHANGED <<pc, len, task, dst, held, mode, conn, left, old, shared>>

\* Two goroutines write to the maps of cs at once: the runtime ends the process.
ConcurrentMapWrites(w) ==
  /\ Alive /\ pc[w] = "download" /\ \E v \in Workers \ {w} : pc[v] = "download"
  /\ Panic("map")

\* A keep-alive comes in: Deserialize gives a nil message, whose ID is read.
KeepAlive(w) ==
  /\ Alive /\ pc[w] = "download" /\ conn[w] = "up" /\ w \notin Honest
  /\ Panic("keepalive")

\* Mutant: a piece that failed counts as downloaded.
SendError_counts(w) ==
  /\ Alive /\ pc[w] = "error" /\ collector = "collect"
  /\ downloaded' = downloaded + pieceLength(task[w])
  /\ Goto(w, "append")
  /\ UNCHANGED <<tasks, len, task, dst, held, mode, conn, bits, left, old, responses,
                 buf, donePieces, collector, crashed>>

\* errChan <- err
SendError(w) ==
  /\ Alive /\ pc[w] = "error"
  /\ IF collector = "collect"
     THEN /\ Goto(w, "append")
          /\ UNCHANGED <<len, task, dst, held, mode, conn, bits, left, old, shared>>
     ELSE Panic("closed")

\* Mutant: the task is put back without growing the header.
PutBack_lost(w) ==
  /\ Alive /\ pc[w] = "append"
  /\ Goto(w, "select")
  /\ UNCHANGED <<len, task, dst, held, mode, conn, bits, left, old, shared>>

\* Mutant: the task overwrites the last one.
PutBack_over(w) ==
  /\ Alive /\ pc[w] = "append"
  /\ tasks' = [tasks EXCEPT ![IF len[w] = 0 THEN 1 ELSE len[w]] = task[w]]
  /\ len' = [len EXCEPT ![w] = @ + 1]
  /\ Goto(w, "select")
  /\ UNCHANGED <<task, dst, held, mode, conn, bits, left, old, downloaded, responses,
                 buf, donePieces, collector, crashed>>

\* tasks = append(tasks, task)
PutBack(w) ==
  /\ Alive /\ pc[w] = "append"
  /\ tasks' = [tasks EXCEPT ![len[w] + 1] = task[w]]
  /\ len' = [len EXCEPT ![w] = @ + 1]
  /\ Goto(w, "select")
  /\ UNCHANGED <<task, dst, held, mode, conn, bits, left, old, downloaded, responses,
                 buf, donePieces, collector, crashed>>

\* dp.downloaded += task.length is a load ...
ReadDownloaded(w) ==
  /\ Alive /\ pc[w] = "load"
  /\ mode' = [mode EXCEPT ![w] = "rarest first"]
  /\ old' = [old EXCEPT ![w] = downloaded]
  /\ Goto(w, "store")
  /\ UNCHANGED <<len, task, dst, held, conn, bits, left, shared>>

\* ... and a store; left is the goroutine's own.
WriteDownloaded(w) ==
  /\ Alive /\ pc[w] = "store"
  /\ downloaded' = old[w] + pieceLength(task[w])
  /\ left' = [left EXCEPT ![w] = (@ - pieceLength(task[w])) % Uint]
  /\ old' = [old EXCEPT ![w] = 0]
  /\ Goto(w, "announce")
  /\ UNCHANGED <<tasks, len, task, dst, held, mode, conn, bits, responses, buf,
                 donePieces, collector, crashed>>

\* The tracker may answer the announce with an error.
AnnounceProgress(w) ==
  /\ Alive /\ pc[w] = "announce"
  /\ \/ /\ Goto(w, "respond")
        /\ UNCHANGED <<len, task, dst, held, mode, conn, bits, left, old, shared>>
     \/ collector # "collect" /\ Panic("closed")

\* responses <- piece
Respond(w) ==
  /\ Alive /\ pc[w] = "respond"
  /\ IF collector = "closed"
     THEN Panic("closed")
     ELSE /\ Len(responses) < RespCap
          /\ responses' = Append(responses, task[w])
          /\ Goto(w, "select")
          /\ UNCHANGED <<tasks, len, task, dst, held, mode, conn, bits, left, old,
                         downloaded, buf, donePieces, collector, crashed>>

\* All its tasks are done: doneKeepAliveToDHT was never made, and closing a nil
\* channel panics.
Finish(w) ==
  /\ Alive /\ pc[w] = "select" /\ len[w] = 0
  /\ Panic("nil")

-------------------------------------------------------------------------------
(* The collector. *)

\* Mutant: the collector counts one piece too few.
Collect_early ==
  /\ Alive /\ collector = "collect" /\ donePieces < NumPieces /\ responses # <<>>
  /\ buf' = buf \cup {Head(responses)}
  /\ donePieces' = donePieces + 1
  /\ responses' = Tail(responses)
  /\ collector' = IF donePieces + 2 >= NumPieces THEN "errClosed" ELSE "collect"
  /\ UNCHANGED <<tasks, downloaded, crashed, worker>>

\* A result is copied into the buffer and counted; with the last one errChan
\* is closed.
Collect ==
  /\ Alive /\ collector = "collect" /\ responses # <<>>
  /\ buf' = buf \cup {Head(responses)}
  /\ donePieces' = donePieces + 1
  /\ responses' = Tail(responses)
  /\ collector' = IF donePieces + 1 = NumPieces THEN "errClosed" ELSE "collect"
  /\ UNCHANGED <<tasks, downloaded, crashed, worker>>

CloseResponses ==
  /\ Alive /\ collector = "errClosed"
  /\ collector' = "closed"
  /\ UNCHANGED <<tasks, downloaded, responses, buf, donePieces, crashed, worker>>

\* wg.Wait returns: every goroutine of a peer has returned, and the collector.
Returned ==
  Alive /\ collector = "closed" /\ \A w \in Workers : pc[w] = "failed"

-------------------------------------------------------------------------------
WorkerStep(w) ==
  \/ Select(w) \/ Load(w) \/ Store(w) \/ Removed(w)
  \/ HasPiece(w) \/ DownloadPiece(w) \/ SendError(w) \/ PutBack(w)
  \/ ReadDownloaded(w) \/ WriteDownloaded(w) \/ AnnounceProgress(w)
  \/ Respond(w) \/ Finish(w)

Next ==
  \/ \E w \in Workers :
       \/ Connect(w) \/ ConnectFails(w) \/ PeerUnreachable(w)
       \/ Have(w) \/ ConcurrentMapWrites(w) \/ KeepAlive(w) \/ WorkerStep(w)
  \/ Collect
  \/ CloseResponses

Spec == Init /\ [][Next]_vars

\* Goroutines run; a peer of Honest answers.  A random choice that is offered
\* again and again takes a piece the peer has at some time.
SelectOwned(w) == Select(w) /\ task'[w] \in bits[w]

Fairness ==
  /\ \A w \in Honest : /\ WF_vars(Connect(w))
                       /\ WF_vars(WorkerStep(w))
                       /\ SF_vars(SelectOwned(w))
  /\ WF_vars(Collect) /\ WF_vars(CloseResponses)

FairSpec == Spec /\ Fairness

-------------------------------------------------------------------------------
(* Properties. *)

\* Every variable has its type.
TypeOK ==
  /\ tasks \in [Cells -> Pieces]
  /\ pc \in [Workers -> {"dial", "failed", "select", "remove", "check", "download",
                         "error", "append", "load", "store", "announce", "respond"}]
  /\ len \in [Workers -> 0 .. NumPieces]
  /\ task \in [Workers -> Pieces]
  /\ dst \in [Workers -> 0 .. NumPieces]
  /\ held \in [Workers -> Seq(Pieces)]
  /\ mode \in [Workers -> {"random first", "rarest first"}]
  /\ conn \in [Workers -> {"none", "up", "down", "short"}]
  /\ bits \in [Workers -> SUBSET Pieces]
  /\ left \in [Workers -> 0 .. Uint - 1]
  /\ old \in [Workers -> Nat]
  /\ downloaded \in Nat
  /\ responses \in Seq(Pieces)
  /\ buf \subseteq Pieces
  /\ donePieces \in 0 .. NumPieces
  /\ collector \in {"collect", "errClosed", "closed"}
  /\ crashed \in {"no", "nil", "closed", "index", "map", "keepalive"}

\* A task that is out of the slice and neither sent nor put back.
Holding(w) == pc[w] \in {"check", "download", "error", "append",
                         "load", "store", "announce", "respond"}

Remaining(w) == len[w] + (IF Holding(w) THEN 1 ELSE 0)

\* What the goroutines do not owe any more, a piece of one for each.
Discharged == {x \in Workers \X (1 .. NumPieces) : x[2] > Remaining(x[1])}

\* However the goroutines interleave in the shared array, each owes as many
\* pieces as there are: what it does not hold any more is a result, collected
\* or on its way.  (remove, append and the two ways back into the loop.)
TasksConserved == Cardinality(Discharged) = donePieces + Len(responses)

\* The goroutines of the other peers have not touched the array (yet), ...
Alone(w) ==
  /\ pc[w] \notin {"dial", "failed"}
  /\ \A v \in Workers \ {w} : pc[v] \in {"dial", "failed"}

\* ... and never will: they failed to connect.
Sole(w) == Alone(w) /\ \A v \in Workers \ {w} : pc[v] = "failed"

\* The tasks goroutine w still has, wherever remove has got to.
View(w) ==
  IF pc[w] = "remove"
  THEN SubSeq(tasks, 1, dst[w] - 1) \o held[w] \o SubSeq(tasks, src(w), len[w])
         \o <<task[w]>>
  ELSE SubSeq(tasks, 1, len[w]) \o (IF Holding(w) THEN <<task[w]>> ELSE <<>>)

Count(s, p) == Cardinality({k \in 1 .. Len(s) : s[k] = p})

\* With one peer at work, every piece is at any time in exactly one place: to do, in
\* hand, on its way, or in the buffer.  (The moves of remove and append, and
\* the end of the collector: the file has no holes when all are counted.)
AlonePieceOnce ==
  \A w \in Workers : Alone(w) =>
    \A p \in Pieces :
      Count(View(w), p) + Count(responses, p) + (IF p \in buf THEN 1 ELSE 0) = 1

\* The pieces w has checked.
Accounted(w) ==
  {p \in Pieces : Count(responses, p) > 0} \cup buf
    \cup (IF pc[w] \in {"announce", "respond"} THEN {task[w]} ELSE {})

\* The bytes of the pieces of S.
Bytes(S) == {x \in S \X (1 .. PieceLength) : x[2] <= pieceLength(x[1])}

\* With one peer at work, what the tracker is told is what was checked, and left does
\* not wrap around.
AloneAccounts ==
  \A w \in Workers : Alone(w) =>
    /\ downloaded = Cardinality(Bytes(Accounted(w)))
    /\ left[w] = Length - downloaded

\* A sole peer that behaves brings the process down only when every piece was
\* sent to the collector.  (Finish closes a nil channel; nothing before may.)
DiesAfterLastPiece ==
  \A w \in Honest :
    Sole(w) /\ ~Alive => donePieces + Len(responses) = NumPieces

\* errChan and responses are closed only when all results are counted: no
\* goroutine panics for sending on one of them before.
ClosedWhenCounted ==
  (collector # "collect" \/ crashed = "closed") => donePieces = NumPieces

\* A piece the sole peer has is written to the buffer, or the process ends:
\* neither the choice of pieces nor those the peer lacks may starve it.
OwnedPiecesArrive ==
  \A w \in Honest, p \in Pieces :
    (Sole(w) /\ p \in bits[w]) ~> (p \in buf \/ ~Alive)

\* What the comment of DownloadFile says: it downloads the file.  When a peer
\* has all of it, the function returns.
DownloadReturns ==
  (\E w \in Honest : Sole(w) /\ bits[w] = Pieces) ~> Returned
===============================================================================
