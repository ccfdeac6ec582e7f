------------------------------- MODULE Session -------------------------------
(***************************************************************************)
(* Machines with the client program, and the tracker they all use.         *)
(*                                                                         *)
(* A machine runs one process at a time (the uploader's port is fixed):    *)
(* main.go, which downloads the torrent its source names, or fyneUI.go,    *)
(* with which its user publishes.  Both start from info.json, and main.go  *)
(* saves to it.  The tracker is the one of TrackerNet; the transfer itself *)
(* is in Download and PeerWire, and here only what it does to the process. *)
(***************************************************************************)
EXTENDS TrackerNet, PeersPool, TorrentFile

CONSTANTS
  Machines,
  Shells,     \* bound: Shells[m], the programs that are run on m
  tk,         \* the tracker every .torrent names
  Stored,     \* Stored[m]: PeerId in the info.json m begins with, or NoId
  Fresh,      \* Fresh[m]: the identifiers randstr.Hex may draw on m
  OldHashes,  \* infohashes of torrents from before, in that info.json
  JsonKey,    \* what an infohash is read back as when it was a key in info.json
  InitFiles,  \* InitFiles[m]: TorrentFiles in that info.json
  PieceLength,
  Lengths,    \* Lengths[m]: the lengths of the files on m
  Hollow,     \* torrents with a foreign .torrent that has no piece
  ZeroHash, Missing, NoId

Info == INSTANCE ClientInfo WITH InfoHashes <- Torrents \cup OldHashes

ASSUME SessionAssumption ==
  /\ tk \in Trackers
  /\ NoId \notin Peers /\ Passive = {}
  /\ ZeroHash \notin Torrents \cup OldHashes /\ Missing \notin Info!Hashes
  /\ Shells \in [Machines -> SUBSET {"main", "ui"}]
  /\ Stored \in [Machines -> Peers \cup {NoId}]
  /\ Fresh \in [Machines -> SUBSET Peers]
  /\ InitFiles \in [Machines -> Info!TorrentFiles]
  /\ PieceLength \in Nat \ {0}
  /\ Lengths \in [Machines -> SUBSET Nat]
  /\ Hollow \subseteq Torrents

\* Text is read back as it was.  An infohash has 20 bytes, the keys of the file
\* that is shipped have one, and each byte JSON replaces becomes three.
ASSUME KeysAssumption ==
  /\ DOMAIN JsonKey = Info!Hashes
  /\ \A h \in Info!Hashes : JsonKey[h] \in Info!Hashes => JsonKey[h] = h
  /\ \A t \in Torrents : JsonKey[t] = t <=> t \in TextHashes
  /\ JsonKey[ZeroHash] = ZeroHash
  /\ {"0", "1", "2"} \cap ({JsonKey[h] : h \in Info!Hashes} \cup Info!Hashes) = {}

\* The identifiers of a machine.
IdsOf(m) == Fresh[m] \cup ({Stored[m]} \ {NoId})

\* No two machines ever have the same identifier.
ASSUME IdsAssumption == \A m, n \in Machines : m # n => IdsOf(m) \cap IdsOf(n) = {}

Owner(p) == CHOOSE m \in Machines : p \in IdsOf(m)

VARIABLES
  client,   \* the process on each machine
  info,     \* its info.json: does it parse, and what it holds or last held
  library,  \* infohashes of the .torrent files made so far
  drawn     \* identifiers in use, so that a random one is a new one

session == <<client, info, library, drawn>>

Off == [pc |-> "off", shell |-> "main", id |-> NoId, ip |-> FALSE,
        torrent |-> ZeroHash, bto |-> {}, offered |-> {}, result |-> ZeroHash]

SessionInit ==
  /\ Init
  /\ client = [m \in Machines |-> Off]
  /\ info = [m \in Machines |->
       [whole |-> TRUE, val |-> [PeerId |-> Stored[m], TorrentFiles |-> InitFiles[m]]]]
  /\ library = {}
  /\ drawn = {}

-------------------------------------------------------------------------------
(* Processes. *)

At(m, label) == client[m].pc = label

Goto(m, label) == client' = [client EXCEPT ![m].pc = label]

Ends(m) == client' = [client EXCEPT ![m] = Off]

\* Mutant: a file without an identifier leaves peerId blank.
peerIds_blank(m) == {info[m].val.PeerId}

\* peerId: the one of info.json, or a random one, which is not saved.
peerIds(m) ==
  IF info[m].val.PeerId # NoId THEN {info[m].val.PeerId} ELSE Fresh[m] \ drawn

\* main of main.go and of fyneUI.go.  LoadInfo ends it when info.json does not
\* parse.  main.go has its IP in the source, fyneUI.go begins without.
StartClient(m, shell) ==
  /\ At(m, "off")
  /\ info[m].whole
  /\ \E p \in peerIds(m) :
       /\ client' = [client EXCEPT ![m] = [Off EXCEPT !.pc = "ready", !.shell = shell,
                                                      !.id = p, !.ip = shell = "main"]]
       /\ drawn' = drawn \cup {p}
  /\ UNCHANGED <<info, library, vars>>

\* The process ends: its user ends it, or the download does (see Download), or
\* there is no .torrent where the source of main.go says.
Kill(m) ==
  /\ ~At(m, "off")
  /\ Ends(m)
  /\ UNCHANGED <<info, library, drawn, vars>>

-------------------------------------------------------------------------------
(* fyneUI.go. *)

InUI(m) == At(m, "ready") /\ client[m].shell = "ui"

\* The button "Set IP", with an address net.ParseIP accepts.
SetIP(m) ==
  /\ InUI(m)
  /\ client' = [client EXCEPT ![m].ip = TRUE]
  /\ UNCHANGED <<info, library, drawn, vars>>

\* The button "Start" of the download tab (the port, which it wants too, is
\* looked at nowhere else and left out).  The path the file dialog found is
\* in a variable of its own; the outer one is "", so that OpenTorrentFile fails
\* and DownloadTo is called on nil.
StartButton(m) ==
  /\ InUI(m) /\ client[m].ip
  /\ Ends(m)
  /\ UNCHANGED <<info, library, drawn, vars>>

\* A file is chosen in the publish tab, and BuildTorrentFile makes a .torrent.
PickFile(m) ==
  /\ InUI(m)
  /\ \E length \in Lengths[m] :
       client' = [client EXCEPT ![m].pc = "build",
                                ![m].bto = {BuildTorrentFile(length, PieceLength)}]
  /\ UNCHANGED <<info, library, drawn, vars>>

\* The infohash is random; writing may fail (and does when no infohash is left:
\* a bound).
WriteTorrent ==
  \/ UNCHANGED library
  \/ \E t \in Torrents \ (Hollow \cup library) : library' = library \cup {t}

\* It is written, and Publish is called with the file itself, which it can read
\* if that is a .torrent too.
BuildTorrent(m) ==
  /\ At(m, "build")
  /\ WriteTorrent
  /\ \/ client' = [client EXCEPT ![m].pc = "ready", ![m].bto = {}]
     \/ \E t \in library \cup Hollow :
          client' = [client EXCEPT ![m].pc = "publish", ![m].torrent = t, ![m].bto = {}]
  /\ UNCHANGED <<info, drawn, vars>>

\* PublishTorrent, granted ...
PublishTorrent(m) ==
  /\ At(m, "publish") /\ client[m].ip
  /\ Publish(tk, client[m].torrent, client[m].id)
  /\ client' = [client EXCEPT ![m].pc = "ready", ![m].torrent = ZeroHash]
  /\ UNCHANGED <<info, library, drawn>>

\* ... and refused, for the IP or because nobody answers: log.Fatalf.
PublishFails(m) ==
  /\ At(m, "publish") /\ (~client[m].ip \/ ~up[tk])
  /\ Ends(m)
  /\ UNCHANGED <<info, library, drawn, vars>>

-------------------------------------------------------------------------------
(* main.go: Download and DownloadTo. *)

\* "d" is read, and the .torrent opened.
OpenTorrent(m) ==
  /\ At(m, "ready") /\ client[m].shell = "main"
  /\ \E t \in library \cup Hollow :
       client' = [client EXCEPT ![m].pc = "request", ![m].torrent = t]
  /\ UNCHANGED <<info, library, drawn, vars>>

\* The tracker grants an announce for the torrent of m.
Granted(m) == RLockFree(tk) /\ Known(tk, client[m].torrent)

AnnounceOf(m, event) == Announce(tk, client[m].torrent, client[m].id, event)

\* The client sends no NumWant; announceQueryCheck makes 40 of that.
Answers(m) == getRandomPeers(torrents[tk][client[m].torrent].peers, client[m].id, 40)

RequestPeers(m) ==
  /\ At(m, "request")
  /\ AnnounceOf(m, "request")
  /\ \E peers \in Answers(m) :
       client' = [client EXCEPT ![m].pc = "file", ![m].offered = peers]
  /\ UNCHANGED <<info, library, drawn>>

\* An announce that is refused or not answered: log.Fatalf, before DownloadTo
\* can ask the DHT instead.
RequestFails(m) ==
  /\ At(m, "request") /\ ~Granted(m)
  /\ Ends(m)
  /\ UNCHANGED <<info, library, drawn, vars>>

Running(p) == ~At(Owner(p), "off")

\* The goroutine of a peer returns with an error: the peer has another id by
\* now, or the tracker refuses "started".
PeerFails(m, p) == Running(p) /\ (client[Owner(p)].id # p \/ ~Granted(m))

\* A peer nobody runs any more ends the process; with a torrent of no pieces
\* errChan is closed at once, and sending an error on it does.
DownloadPanics(m) ==
  /\ At(m, "file")
  /\ \E p \in client[m].offered :
       ~Running(p) \/ (client[m].torrent \in Hollow /\ PeerFails(m, p))
  /\ Ends(m)
  /\ UNCHANGED <<info, library, drawn, vars>>

\* A peer that answers: "started" is announced, and Download takes over.  It
\* does not return (Download's DiesAfterLastPiece).
DownloadStarts(m) ==
  /\ At(m, "file")
  /\ \E p \in client[m].offered : Running(p) /\ client[Owner(p)].id = p
  /\ AnnounceOf(m, "started")
  /\ client' = [client EXCEPT ![m].pc = "loading", ![m].offered = {}]
  /\ UNCHANGED <<info, library, drawn>>

\* No piece to wait for, and no peer that answered: DownloadFile returns.  With
\* pieces it waits for ever.
FileReturned(m) ==
  /\ At(m, "file") /\ client[m].torrent \in Hollow
  /\ \A p \in client[m].offered : PeerFails(m, p)
  /\ client' = [client EXCEPT ![m].pc = "completed", ![m].offered = {}]
  /\ UNCHANGED <<info, library, drawn, vars>>

\* The announce "completed", then os.Create and Write.  When one of them fails,
\* the infohash returned is zero.
Completed(m) ==
  /\ At(m, "completed")
  /\ \E h \in {client[m].torrent, ZeroHash} :
       /\ client' = [client EXCEPT ![m].pc = "stopped", ![m].result = h]
       /\ \/ AnnounceOf(m, "completed")
          \/ ~Granted(m) /\ h = ZeroHash /\ UNCHANGED vars
  /\ UNCHANGED <<info, library, drawn>>

\* The deferred announce "stopped", whose error nobody looks at.
Stopped(m) ==
  /\ At(m, "stopped")
  /\ \/ AnnounceOf(m, "stopped")
     \/ AnnouncePanic(tk, client[m].torrent, client[m].id, "stopped")
     \/ ~Granted(m) /\ UNCHANGED vars
  /\ Goto(m, "save")
  /\ UNCHANGED <<info, library, drawn>>

\* Download returns no error, whatever DownloadTo returned: SaveToInfo loads
\* info.json, and WriteFile truncates it ...
InfoTruncate(m) ==
  /\ At(m, "save")
  /\ info' = [info EXCEPT ![m].whole = FALSE]
  /\ Goto(m, "write")
  /\ UNCHANGED <<library, drawn, vars>>

\* ... and writes it.
InfoWrite(m) ==
  /\ At(m, "write")
  /\ \E val \in Info!SaveToInfo(info[m].val, client[m].result) :
       info' = [info EXCEPT ![m] = [whole |-> TRUE, val |-> val]]
  /\ client' = [client EXCEPT ![m].pc = "done", ![m].torrent = ZeroHash, ![m].result = ZeroHash]
  /\ UNCHANGED <<library, drawn, vars>>

-------------------------------------------------------------------------------
UIStep(m) ==
  \/ SetIP(m) \/ StartButton(m)
  \/ PickFile(m) \/ BuildTorrent(m) \/ PublishTorrent(m) \/ PublishFails(m)

MainStep(m) ==
  \/ OpenTorrent(m) \/ RequestPeers(m) \/ RequestFails(m)
  \/ DownloadPanics(m) \/ DownloadStarts(m) \/ FileReturned(m)
  \/ Completed(m) \/ Stopped(m)
  \/ InfoTruncate(m) \/ InfoWrite(m)

SessionNext ==
  \/ (Start(tk, FALSE) \/ Crash(tk)) /\ UNCHANGED session
  \/ \E m \in Machines :
       \/ \E shell \in Shells[m] : StartClient(m, shell)
       \/ Kill(m) \/ UIStep(m) \/ MainStep(m)

SessionSpec == SessionInit /\ [][SessionNext]_<<vars, session>>

-------------------------------------------------------------------------------
(* Properties. *)

BencodeTorrents == {BuildTorrentFile(length, PieceLength) : length \in UNION {Lengths[m] : m \in Machines}}

Process ==
  [pc : {"off", "ready", "build", "publish", "request", "file", "loading",
         "completed", "stopped", "save", "write", "done"},
   shell : {"main", "ui"}, id : Peers \cup {NoId}, ip : BOOLEAN,
   torrent : Info!Hashes, bto : SUBSET BencodeTorrents, offered : SUBSET Peers, result : Info!Hashes]

\* Every variable has its type, and a process that runs has an identifier of
\* its machine (randstr or info.json, across restarts and saves).
SessionTypeOK ==
  /\ client \in [Machines -> Process]
  /\ info \in [Machines -> [whole : BOOLEAN,
                            val : [PeerId : Peers \cup {NoId},
                                   TorrentFiles : Info!TorrentFiles]]]
  /\ library \subseteq Torrents \ Hollow
  /\ drawn \subseteq Peers
  /\ \A m \in Machines : ~At(m, "off") => client[m].id \in IdsOf(m)

\* A machine whose info.json has a PeerId is never offered itself as a peer,
\* restarts of it and of the tracker, saves and crashes included.  (Without a
\* PeerId it is: the tracker lists the identifier of an earlier process.)
NotOfferedItself ==
  \A m \in Machines : Stored[m] # NoId =>
    \A p \in client[m].offered : Owner(p) # m

\* A .torrent that is made can be read back, and its hashes are those of the
\* pieces a downloader will ask for; only the bytes behind the last whole piece
\* have none (TorrentFile's Agrees).
PiecesAgree == \A m \in Machines : \A bto \in client[m].bto : Agrees(bto)

\* The answer to a request names a peer that has the torrent if the tracker
\* knows another one; unless there is just one other peer and the asker is
\* listed as well: then the order of the map decides.
SeederOffered ==
  [][\A m \in Machines : At(m, "request") /\ client'[m].pc = "file" =>
       LET pool  == torrents[tk][client[m].torrent].peers
           other == listed(pool) \ {client[m].id}
           have  == {p \in other : pool[p] \in {"seeder", "complete"}}
       IN \/ have \cap client'[m].offered # {}
          \/ have = {}
          \/ Cardinality(other) = 1 /\ client[m].id \in listed(pool)]_<<vars, session>>

\* The torrents of m whose infohash is text, when it began.
Begun(m) == {h \in Info!Listed(InitFiles[m]) : JsonKey[h] = h}

\* However often a machine saves, downloads again, crashes and restarts: of the
\* torrents its info.json lists in the beginning, and whose infohash is text, at
\* most one is ever lost.
OneTorrentLost ==
  \A m \in Machines : Cardinality(Begun(m) \ Info!Listed(info[m].val.TorrentFiles)) <= 1

\* What the README promises: a file that was downloaded stays available to the
\* other clients, so that what info.json lists stays listed.  SaveToInfo of
\* another torrent empties the entry under "1".
EveryTorrentKept ==
  [][\A m \in Machines : Info!Listed(info[m].val.TorrentFiles)
                           \subseteq Info!Listed(info'[m].val.TorrentFiles)]_<<vars, session>>
===============================================================================
