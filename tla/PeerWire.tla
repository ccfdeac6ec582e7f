------------------------------- MODULE PeerWire -------------------------------
(***************************************************************************)
(* Peers on the wire.  The uploader of a client (ServerTCP and what it     *)
(* calls in uploader_client.go) and the peers that download from it        *)
(* (StartClientTCP, RecvBitfield and DownloadPiece).                       *)
(*                                                                         *)
(* A connection is TLS over TCP: each Write is a record and is read as     *)
(* one message, in order, once.  There is no clock: the read deadline of 3 *)
(* seconds that HandleTCPConnection sets may pass whenever it is set.      *)
(* The uploader has the file of the torrent that is asked for.             *)
(***************************************************************************)
EXTENDS Integers, Sequences, FiniteSets

CONSTANTS
  Ours,       \* peers that run this client and download from the uploader
  Others,     \* peers that run another BitTorrent client
  Pieces,     \* indices of the torrent's pieces
  NumBlocks,  \* blocks of MaxBlockSize bytes in a piece
  MaxBlocks,  \* requests a downloader keeps unanswered
  MaxQueue    \* bound: messages another client writes ahead

ASSUME ConstantsAssumption ==
  /\ Ours \cap Others = {}
  /\ Pieces # {}
  /\ NumBlocks \in Nat \ {0}
  /\ MaxBlocks \in Nat \ {0}
  /\ MaxQueue \in Nat

Clients == Ours \cup Others

Blocks == 0 .. NumBlocks - 1

VARIABLES
  handler,    \* HandleTCPConnection of each peer
  deadline,   \* is the read deadline set?
  uChoked,    \* PeerConnection.Choked
  crashed,    \* what ended the uploader's process, or "no"
  toU, toD,   \* what is written and not yet read, to the uploader and back
  open,       \* the connection: both ends up, or one of them closed it
  dl,         \* where the downloading peer is
  choked,     \* Client.Choked
  todo,       \* pieces it still wants
  cur,        \* DownloadPiece: the piece, ...
  requested,  \* ... the blocks requested, ...
  downloaded, \* ... the blocks counted, ...
  pending,    \* ... the blocks awaited, ...
  got         \* ... and the blocks written to its buffer

uploader == <<handler, deadline, uChoked, crashed>>
progress == <<cur, requested, downloaded, pending, got>>
vars == <<handler, deadline, uChoked, crashed, toU, toD, open, dl, choked, todo,
          cur, requested, downloaded, pending, got>>

-------------------------------------------------------------------------------
(* Messages. *)

Plain(id) == [id |-> id]
Request(p, b) == [id |-> "REQUEST", index |-> p, begin |-> b]
Piece(p, b)   == [id |-> "PIECE", index |-> p, begin |-> b]

\* NIL has length 0, BADREQUEST and BADHAVE a payload that does not parse, and
\* FARREQUEST asks for bytes behind the end of the file.
Message ==
  [id : {"HANDSHAKE", "BITFIELD", "UNCHOKE", "CHOKE", "INTERESTED", "NOTINTERESTED",
         "HAVE", "CANCEL", "NIL", "BADREQUEST", "FARREQUEST", "BADHAVE"}]
  \cup [id : {"REQUEST", "PIECE"}, index : Pieces, begin : Blocks]

Is(q, id) == q # <<>> /\ Head(q).id = id

\* What is written to a connection that is gone is lost.
Write(q, c, msgs) == IF open[c] THEN [q EXCEPT ![c] = @ \o msgs] ELSE q
Read(q, c) == [q EXCEPT ![c] = Tail(@)]

\* What the uploader writes; another client reads it at once.
Answer(c, msgs) == IF c \in Ours THEN Write(toD, c, msgs) ELSE toD

Up == crashed = "no"

Init ==
  /\ handler = [c \in Clients |-> "none"]
  /\ deadline = [c \in Clients |-> FALSE]
  /\ uChoked = [c \in Clients |-> TRUE]
  /\ crashed = "no"
  /\ toU = [c \in Clients |-> <<>>]
  /\ toD = [c \in Clients |-> <<>>]
  /\ open = [c \in Clients |-> TRUE]
  /\ dl = [c \in Clients |-> "off"]
  /\ choked = [c \in Clients |-> TRUE]
  /\ todo = [c \in Clients |-> Pieces]
  /\ cur = [c \in Clients |-> CHOOSE p \in Pieces : TRUE]
  /\ requested = [c \in Clients |-> 0]
  /\ downloaded = [c \in Clients |-> 0]
  /\ pending = [c \in Clients |-> 0]
  /\ got = [c \in Clients |-> {}]

-------------------------------------------------------------------------------
(* The uploader. *)

\* Accept, connectionsGroup.Add(1), go HandleTCPConnection; the next Accept is
\* behind connectionsGroup.Wait().
Accept(c) ==
  /\ Up /\ dl[c] = "dialing" /\ open[c]
  /\ \A d \in Clients : handler[d] = "none"
  /\ handler' = [handler EXCEPT ![c] = "handshake"]
  /\ deadline' = [deadline EXCEPT ![c] = TRUE]
  /\ UNCHANGED <<uChoked, crashed, toU, toD, open, dl, choked, todo, progress>>

\* errChan <- err: nobody receives from the channel main made, so the handler
\* waits here and does not get to connectionsGroup.Done().
Fail(c) == handler' = [handler EXCEPT ![c] = "stuck"]

\* The deadline passes, or the connection is gone: its end is read, or the
\* bitfield cannot be written.
HandlerFails(c) ==
  /\ Up /\ handler[c] \in {"handshake", "serving"}
  /\ deadline[c] \/ (~open[c] /\ (toU[c] = <<>> \/ handler[c] = "handshake"))
  /\ Fail(c)
  /\ UNCHANGED <<deadline, uChoked, crashed, toU, toD, open, dl, choked, todo, progress>>

\* The process of the uploader ends, and with it every connection.
Exit(why) ==
  /\ crashed' = why
  /\ open' = [c \in Clients |-> FALSE]
  /\ UNCHANGED <<handler, deadline, uChoked, toU, toD, dl, choked, todo, progress>>

\* A write to a peer that is gone may fail, and SendHandshake and HandleRequest
\* call log.Fatalf then.
WriteFatal(c) ==
  /\ Up /\ ~open[c]
  /\ \/ handler[c] = "handshake" /\ Is(toU[c], "HANDSHAKE")
     \/ handler[c] = "serving" /\ Is(toU[c], "REQUEST") /\ ~uChoked[c]
  /\ Exit("write")

\* Handshake, SendBitfield, and the UNCHOKE every peer gets.
Handshake(c) ==
  /\ Up /\ handler[c] = "handshake" /\ Is(toU[c], "HANDSHAKE")
  /\ toU' = Read(toU, c)
  /\ toD' = Answer(c, <<Plain("HANDSHAKE"), Plain("BITFIELD"), Plain("UNCHOKE")>>)
  /\ handler' = [handler EXCEPT ![c] = "serving"]
  /\ UNCHANGED <<deadline, uChoked, crashed, open, dl, choked, todo, progress>>

\* Messages that end the process: the ID of the nil *Message that NIL gives is
\* read, ParseHave's error goes to log.Fatalf, and HandleRequest slices the file.
Fatal(m, ch) == m.id \in {"NIL", "BADHAVE"} \/ (m.id = "FARREQUEST" /\ ~ch)

FatalMessage(c) ==
  /\ Up /\ handler[c] = "serving" /\ toU[c] # <<>>
  /\ Fatal(Head(toU[c]), uChoked[c])
  /\ Exit("message")

\* The error of ParseRequest goes to errChan, inside HandleMessage.
MalformedRequest(c) ==
  /\ Up /\ handler[c] = "serving" /\ Is(toU[c], "BADREQUEST") /\ ~uChoked[c]
  /\ Fail(c)
  /\ toU' = Read(toU, c)
  /\ deadline' = [deadline EXCEPT ![c] = TRUE]
  /\ UNCHANGED <<uChoked, crashed, toD, open, dl, choked, todo, progress>>

\* Mutant: INTERESTED is taken for UNCHOKE.
afterMessage_interested(m, ch) ==
  IF m.id = "CHOKE" THEN TRUE ELSE IF m.id = "INTERESTED" THEN FALSE ELSE ch

\* pc.Choked after a message.
afterMessage(m, ch) ==
  IF m.id = "CHOKE" THEN TRUE ELSE IF m.id = "UNCHOKE" THEN FALSE ELSE ch

\* HandleMessage; the deadline it sets for itself is cleared when it returns.
\* After CANCEL its end is closed, and what was not read is lost.
HandleMessage(c) ==
  /\ Up /\ handler[c] = "serving" /\ toU[c] # <<>>
  /\ LET m == Head(toU[c]) IN
       /\ ~Fatal(m, uChoked[c]) /\ ~(m.id = "BADREQUEST" /\ ~uChoked[c])
       /\ uChoked' = [uChoked EXCEPT ![c] = afterMessage(m, @)]
       /\ toD' = IF m.id = "REQUEST" /\ ~uChoked[c]
                 THEN Answer(c, <<Piece(m.index, m.begin)>>) ELSE toD
       /\ open' = IF m.id = "CANCEL" THEN [open EXCEPT ![c] = FALSE] ELSE open
  /\ toU' = IF Head(toU[c]).id = "CANCEL" THEN [toU EXCEPT ![c] = <<>>] ELSE Read(toU, c)
  /\ deadline' = [deadline EXCEPT ![c] = FALSE]
  /\ UNCHANGED <<handler, crashed, dl, choked, todo, progress>>

-------------------------------------------------------------------------------
(* A peer that downloads. *)

\* StartConnection: tls.Dial returns when the uploader answers.
Dial(c) ==
  /\ Up /\ dl[c] = "off"
  /\ dl' = [dl EXCEPT ![c] = "dialing"]
  /\ UNCHANGED <<uploader, toU, toD, open, choked, todo, progress>>

\* ... and after a sleep, SendHandshake.
SendHandshake(c) ==
  /\ dl[c] = "dialing" /\ handler[c] # "none" /\ open[c]
  /\ dl' = [dl EXCEPT ![c] = IF c \in Ours THEN "handshake" ELSE "other"]
  /\ toU' = Write(toU, c, <<Plain("HANDSHAKE")>>)
  /\ UNCHANGED <<uploader, toD, open, choked, todo, progress>>

\* DeserializeHandshake; the id in it is the one the tracker gave.
RecvHandshake(c) ==
  /\ dl[c] = "handshake" /\ Is(toD[c], "HANDSHAKE")
  /\ dl' = [dl EXCEPT ![c] = "bitfield"]
  /\ toD' = Read(toD, c)
  /\ UNCHANGED <<uploader, toU, open, choked, todo, progress>>

\* Mutant: the peer says it is interested and does not unchoke the uploader.
RecvBitfield_interested(c) ==
  /\ dl[c] = "bitfield" /\ Is(toD[c], "BITFIELD")
  /\ dl' = [dl EXCEPT ![c] = "select"]
  /\ toD' = Read(toD, c)
  /\ toU' = Write(toU, c, <<Plain("INTERESTED")>>)
  /\ UNCHANGED <<uploader, open, choked, todo, progress>>

\* RecvBitfield, SendUnchoke and SendInterested.
RecvBitfield(c) ==
  /\ dl[c] = "bitfield" /\ Is(toD[c], "BITFIELD")
  /\ dl' = [dl EXCEPT ![c] = "select"]
  /\ toD' = Read(toD, c)
  /\ toU' = Write(toU, c, <<Plain("UNCHOKE"), Plain("INTERESTED")>>)
  /\ UNCHANGED <<uploader, open, choked, todo, progress>>

\* A task is taken and DownloadPiece begins with an empty pieceProgress.
StartPiece(c) ==
  /\ dl[c] = "select"
  /\ \E p \in todo[c] : cur' = [cur EXCEPT ![c] = p]
  /\ dl' = [dl EXCEPT ![c] = "piece"]
  /\ requested' = [requested EXCEPT ![c] = 0]
  /\ downloaded' = [downloaded EXCEPT ![c] = 0]
  /\ pending' = [pending EXCEPT ![c] = 0]
  /\ got' = [got EXCEPT ![c] = {}]
  /\ UNCHANGED <<uploader, toU, toD, open, choked, todo>>

InPiece(c) == dl[c] = "piece" /\ downloaded[c] < NumBlocks

\* Mutant: only MaxBlocks bounds the loop.
MayRequest_unbounded(c) == ~choked[c] /\ pending[c] < MaxBlocks

\* The loop over MaxBlocks and task.length asks for another block.
MayRequest(c) == ~choked[c] /\ pending[c] < MaxBlocks /\ requested[c] < NumBlocks

\* Mutant: the block asked for is numbered after those awaited.
SendRequest_pending(c) ==
  /\ InPiece(c) /\ MayRequest(c)
  /\ toU' = Write(toU, c, <<Request(cur[c], pending[c])>>)
  /\ pending' = [pending EXCEPT ![c] = @ + 1]
  /\ requested' = [requested EXCEPT ![c] = @ + 1]
  /\ UNCHANGED <<uploader, toD, open, dl, choked, todo, cur, downloaded, got>>

SendRequest(c) ==
  /\ InPiece(c) /\ MayRequest(c)
  /\ toU' = Write(toU, c, <<Request(cur[c], requested[c])>>)
  /\ pending' = [pending EXCEPT ![c] = @ + 1]
  /\ requested' = [requested EXCEPT ![c] = @ + 1]
  /\ UNCHANGED <<uploader, toD, open, dl, choked, todo, cur, downloaded, got>>

\* A message that is not a block.
RecvOther(c) ==
  /\ InPiece(c) /\ ~MayRequest(c) /\ toD[c] # <<>> /\ Head(toD[c]).id # "PIECE"
  /\ choked' = [choked EXCEPT ![c] = afterMessage(Head(toD[c]), @)]
  /\ toD' = Read(toD, c)
  /\ UNCHANGED <<uploader, toU, open, dl, todo, progress>>

\* ParsePiece: a block of another piece is an error, and the task is put back.
RecvPiece(c) ==
  /\ InPiece(c) /\ ~MayRequest(c) /\ Is(toD[c], "PIECE")
  /\ LET m == Head(toD[c]) IN
       IF m.index = cur[c]
       THEN /\ got' = [got EXCEPT ![c] = @ \cup {m.begin}]
            /\ downloaded' = [downloaded EXCEPT ![c] = @ + 1]
            /\ pending' = [pending EXCEPT ![c] = @ - 1]
            /\ UNCHANGED dl
       ELSE /\ dl' = [dl EXCEPT ![c] = "select"]
            /\ UNCHANGED <<got, downloaded, pending>>
  /\ toD' = Read(toD, c)
  /\ UNCHANGED <<uploader, toU, open, choked, todo, cur, requested>>

\* check: the piece is whole, or the task is put back.
PieceDone(c) ==
  /\ dl[c] = "piece" /\ downloaded[c] >= NumBlocks
  /\ dl' = [dl EXCEPT ![c] = "select"]
  /\ IF got[c] = Blocks
     THEN /\ todo' = [todo EXCEPT ![c] = @ \ {cur[c]}]
          /\ toU' = Write(toU, c, <<Plain("HAVE")>>)
     ELSE UNCHANGED <<todo, toU>>
  /\ UNCHANGED <<uploader, toD, open, choked, progress>>

\* The last task is done: NOTINTERESTED, and the connection is closed.
Depart(c) ==
  /\ dl[c] = "select" /\ todo[c] = {}
  /\ dl' = [dl EXCEPT ![c] = "gone"]
  /\ toU' = Write(toU, c, <<Plain("NOTINTERESTED")>>)
  /\ open' = [open EXCEPT ![c] = FALSE]
  /\ UNCHANGED <<uploader, toD, choked, todo, progress>>

\* The connection is lost, or the peer's process ends.
Lose(c) ==
  /\ dl[c] # "off" /\ open[c]
  /\ open' = [open EXCEPT ![c] = FALSE]
  /\ UNCHANGED <<uploader, toU, toD, dl, choked, todo, progress>>

\* A read or a write fails: DownloadPiece returns the error, and the loop of
\* StartPeerDownload tries again; before that loop, the goroutine ends.  The
\* error of a TLS connection stays: what was not read is not read any more.
ConnError(c) ==
  /\ c \in Ours /\ ~open[c]
  /\ \/ InPiece(c) /\ dl' = [dl EXCEPT ![c] = "select"]
     \/ dl[c] \in {"dialing", "handshake", "bitfield"} /\ dl' = [dl EXCEPT ![c] = "gone"]
  /\ toD' = [toD EXCEPT ![c] = <<>>]
  /\ UNCHANGED <<uploader, toU, open, choked, todo, progress>>

-------------------------------------------------------------------------------
(* A peer with another client. *)

OtherMessages ==
  {Plain(id) : id \in {"CHOKE", "UNCHOKE", "INTERESTED", "CANCEL", "NIL",
                       "BADREQUEST", "FARREQUEST", "BADHAVE"}}
  \cup {Request(p, b) : p \in Pieces, b \in Blocks}

OtherWrites(c) ==
  /\ dl[c] = "other" /\ open[c] /\ Len(toU[c]) < MaxQueue
  /\ \E m \in OtherMessages : toU' = Write(toU, c, <<m>>)
  /\ UNCHANGED <<uploader, toD, open, dl, choked, todo, progress>>

-------------------------------------------------------------------------------
UploaderStep(c) ==
  Accept(c) \/ Handshake(c) \/ HandleMessage(c)

UploaderFails(c) ==
  HandlerFails(c) \/ MalformedRequest(c) \/ WriteFatal(c) \/ FatalMessage(c)

DownloaderStep(c) ==
  \/ RecvHandshake(c) \/ RecvBitfield(c) \/ StartPiece(c) \/ SendRequest(c)
  \/ RecvOther(c) \/ RecvPiece(c) \/ PieceDone(c) \/ Depart(c)

Next ==
  \E c \in Clients :
    \/ UploaderStep(c) \/ UploaderFails(c)
    \/ Dial(c) \/ SendHandshake(c) \/ Lose(c)
    \/ DownloaderStep(c) \/ ConnError(c)
    \/ OtherWrites(c)

Spec == Init /\ [][Next]_vars

\* Both ends run; nothing obliges a deadline to pass or a connection to break.
Fairness ==
  \A c \in Clients :
    /\ WF_vars(UploaderStep(c))
    /\ WF_vars(HandlerFails(c) /\ ~open[c])
    /\ WF_vars(SendHandshake(c))
    /\ WF_vars(DownloaderStep(c))

FairSpec == Spec /\ Fairness

-------------------------------------------------------------------------------
(* Properties. *)

\* Every variable has its type.
TypeOK ==
  /\ handler \in [Clients -> {"none", "handshake", "serving", "stuck"}]
  /\ deadline \in [Clients -> BOOLEAN]
  /\ uChoked \in [Clients -> BOOLEAN]
  /\ crashed \in {"no", "write", "message"}
  /\ toU \in [Clients -> Seq(Message)]
  /\ toD \in [Clients -> Seq(Message)]
  /\ open \in [Clients -> BOOLEAN]
  /\ dl \in [Clients -> {"off", "dialing", "handshake", "bitfield", "select", "piece",
                         "other", "gone"}]
  /\ choked \in [Clients -> BOOLEAN]
  /\ todo \in [Clients -> SUBSET Pieces]
  /\ cur \in [Clients -> Pieces]
  /\ requested \in [Clients -> 0 .. NumBlocks]
  /\ downloaded \in [Clients -> 0 .. NumBlocks]
  /\ pending \in [Clients -> Int]
  /\ got \in [Clients -> SUBSET Blocks]

Downloading(c) == c \in Ours /\ dl[c] = "piece" /\ open[c]

\* How many messages of a kind stand before position k of a queue, and in it.
Before(q, id, k) == Cardinality({j \in 1 .. k - 1 : q[j].id = id})
Number(q, id) == Before(q, id, Len(q) + 1)

\* Every block that is awaited is on its way, as a request or as an answer: the
\* uploader drops none, so a downloader does not wait for ever on a connection
\* that holds.  (UNCHOKE before REQUEST, pendingBlocks on both paths.)
Awaited(c) ==
  pending[c] = Number(toU[c], "REQUEST") + Number(toD[c], "PIECE")

AwaitedOnTheWay == \A c \in Clients : Downloading(c) => Awaited(c)

\* The blocks got, then those on their way back, then those asked for are
\* exactly the ones requested, each once and in order, all of the piece in
\* hand: what is counted is what is in the buffer.
InOrder(c) ==
  LET back == Number(toD[c], "PIECE") IN
  /\ got[c] = 0 .. downloaded[c] - 1
  /\ requested[c] = downloaded[c] + back + Number(toU[c], "REQUEST")
  /\ \A k \in 1 .. Len(toD[c]) : toD[c][k].id = "PIECE" =>
       toD[c][k] = Piece(cur[c], downloaded[c] + Before(toD[c], "PIECE", k))
  /\ \A k \in 1 .. Len(toU[c]) : toU[c][k].id = "REQUEST" =>
       toU[c][k] = Request(cur[c], downloaded[c] + back + Before(toU[c], "REQUEST", k))

BlocksInOrder == \A c \in Clients : Downloading(c) => InOrder(c)

\* A peer whose first message the uploader has read gets all its pieces, unless
\* its connection breaks.
ServedPeerFinishes ==
  \A c \in Ours :
    (handler[c] = "serving" /\ ~deadline[c]) ~> (todo[c] = {} \/ ~open[c])

\* ServerTCP "handles connections" in a loop: a peer that waits is accepted.
NextPeerAccepted ==
  \A c \in Clients : dl[c] = "dialing" ~> (handler[c] # "none" \/ ~open[c])
===============================================================================
