# Verification of the BitTorrent project

TLA+ models of the client and the tracker in this repository, the TLC runs that
check them and the TLAPS proofs about them. Paths are relative to `src/`.

## 1. The system

| Component | Code | State | Operations |
|---|---|---|---|
| Tracker, services for peers | `tracker/tracker/tacker.go` | per torrent: peers with a state, two counters; one `sync.RWMutex` | Publish, Announce (`started`, `request`, `completed`, `stopped`), Scrape |
| Tracker, replication | `tacker.go`, `tracker/server/server.go` | `BackupTrackers`, `RedKey` | KnowMe, RePublish, `makeKnowMeConnection`, `putBkTrackersIntoServer` |
| Tracker, persistence | `server.go` | `data/torrents.json`, `data/bktrackers.json` | `saveData`, start with and without `-load` |
| Client, download | `Client/torrent_peer/torrent.go`, `torrent_peer.go`, `piece_selection.go` | the array of tasks, one slice header per peer, progress, two channels, a buffer | DownloadFile, StartPeerDownload, SelectPiece, the collector |
| Client, peer wire | `torrent_peer.go`, `downloader_client/`, `uploader_client/`, `client/communication/` | connections, choked flags, requests in flight | StartClientTCP, DownloadPiece; ServerTCP, HandleTCPConnection, HandleMessage |
| Client, torrent files | `Client/client/torrent_file/` | `.torrent` files | BuildTorrentFile, OpenTorrentFile, DownloadTo |
| Client, DHT | `Client/dht/Kademlia/` | `KStore`, `RoutingTable`, `expectedResponses` | Ping, the queries, LookUP, AnnouncePeer, GetPeersToDownload, ExpireKeys, refresh |
| Client, shell | `Client/main.go`, `Client/fyneUI.go`, `Client/utils/`, `Client/tracker_communication/` | `info.json` (an identifier, the torrents served), the address set in the window | start, publish, download, SaveToInfo; PublishTorrent, Announce, RequestPeers |

How they interact. A client publishes a torrent at a tracker and announces to
it over gRPC; trackers call each other with KnowMe and RePublish. A download
asks the tracker for peers, opens one TLS connection to each of them, and each
connection has a goroutine that takes tasks, requests blocks and passes pieces
to one collector over the channel `responses`. The other end of a connection
is the uploader of another client. What a client downloaded it writes into `info.json`,
from which its uploader takes what it serves at the next start. Inside a tracker the handlers, `saveData`
and the goroutine that adds known trackers share the lock. The DHT would
supply peers as well; `DownloadFile` passes `nil` for it at this commit.

What is hard here: the lock of a tracker and the paths that leave it held;
messages that are lost or late, with no retry; a crash in the middle of a save;
goroutines that write one array without a lock; channels closed while others
send; pipelined requests; a handler whose error nobody receives; a client process that
nearly every error ends, between two announces or in the middle of a save.

What makes each part correct:

- trackers: nobody is offered as a seeder who did not publish; a network does
  not leak to another key; a push is neither lost inside nor pushed on; a save
  is a snapshot; a peer that stopped stays stopped;
- download: each piece is to do, in hand, on its way or in the buffer, once;
  the numbers told to the tracker are right; channels close after the last
  result; pieces a peer has arrive;
- DHT: a store's lists and times agree; a download is told only of peers that
  announced its key; a late answer never meets a round that counted all of its
  answers; a call returns;
- wire: every request is answered, in order, with the block asked for; a peer
  that is served finishes; the next peer is accepted (it is not);
- torrent files: what is written can be read back, and each hash is that of the
  bytes the downloader asks for under its index;
- shell and tracker: an answer names a peer that has the torrent if there is one,
  and never the asker, across restarts of both; a torrent that is listed stays
  listed (it does not: a save may take the place of one).

## 2. Modules

| Module | Models | Reads |
|---|---|---|
| `TrackerNet` | a network of trackers, clients' requests, messages, saves, crashes | variables are named for the fields; one action per handler or branch |
| `TrackerRegistry` | the abstract promise: facts originated at a tracker, learned in one hop from where they were originated, written down, restored | refined by `TrackerNet` |
| `TrackerClaims` | `TrackerNet` with a history variable and what the repository's `README.md` says of trackers | |
| `MCTrackerNet` | constants for TLC | |
| `TrackerNetProofs` | theorems about `TrackerNet`: types, keys, provenance, refinement; the lock, the files, peers that stopped; pushes when nothing is lost, and KnowMe | |
| `PeersPool` | `getRandomPeers`: the answers to a request for peers | two loops over a map, each in any order; a loop is where it stops and what it visited by then |
| `TorrentFile` | BuildTorrentFile, OpenTorrentFile, the length of a piece | a hash is the range it covers, cut into bytes |
| `ClientInfo` | `info.json` and SaveToInfo | a map from keys, as JSON reads them back, to infohashes |
| `Session` | machines that run `main.go` and `fyneUI.go`, with a tracker of `TrackerNet` | one action per call of the tracker, button or half of a save |
| `MCSession` | constants for TLC | |
| `SessionProofs` | theorems about `Session`, `PeersPool` and `TorrentFile` | |
| `Download` | one call of `DownloadFile` | one action per statement that touches shared state |
| `DownloadProofs` | theorems about `Download`: types, the closed channels | |
| `DownloadTaskProofs` | theorems about `Download`: where each piece is, what is counted and told | extends `DownloadProofs` |
| `KStore` | the storage of a DHT node | operators on stores, each one critical section |
| `RoutingTable` | the routing table of a DHT node | operators on tables; an id is the set of those of its `B` bits that are one |
| `Kademlia` | a network of DHT nodes over UDP | one action per handler, goroutine or half of SendMessage |
| `MCKademlia`, `MCDownloads` | constants for TLC: one call of every kind, and two calls for two keys | |
| `KademliaDataProofs` | lemmas about `KStore` and `RoutingTable`: folds, sorted lists, tables, the id of a refresh | |
| `KademliaProofs` | theorems about `Kademlia`: the end of a round, the refresh | extends `KademliaDataProofs` |
| `KademliaStateProofs` | theorems about `Kademlia`: types, stores, rounds, what a download is told | extends `KademliaProofs` |
| `PeerWire` | an uploader, peers of this client, peers with other clients | FIFO per direction |
| `PeerWireProofs` | theorems about `PeerWire` | |

`TrackerNet`. A critical section is one step; `saveData` is several (it holds
the read lock while it truncates and writes two files, and announces, which
take the read lock too, go on). `frozen` is a lock that KnowMe did not give
back; `LockFree` and `RLockFree` are the guards of `Lock` and `RLock`. A
message is a record in a set, so delivery has no order; `Lose` and
`KnowMeTimeout` take it away. `boot` counts starts: an answer to a process that
died is dropped. `published`, `owed` and `gaveUp` (who stopped waiting for the answer
to a KnowMe) are history. The time limit of a KnowMe may pass at any moment, in a
network that loses nothing too: the receiver may be slow, or its lock leaked. `Announce` is atomic: its
writes under the read lock are a data race in the code, whose worst outcome (the
runtime ends the process) is a `Crash`, possible at any moment; a lost increment
of a counter is not modelled, since the only event that increments one is never
let through.

`Download`. Every goroutine has a slice header (`len`) over the one array
`tasks`. `remove` is a copy whose loads and stores are separate steps and may
run ahead of each other (`held`), as a `memmove` may. `dp.downloaded += n` is a
load and a store. A panic ends the process: `crashed` says which.
`DownloadPiece` is one step here, and a whole protocol in `PeerWire`; a peer not in
`Honest` may send a keep-alive in it, whose nil message ends the process.

`PeerWire`. A Write on TLS is a record and one message (`tls.Conn.Read` returns
at most a record, and `Deserialize` reads one message from it). There is no
clock. `HandleMessage` sets a deadline and clears it when it returns, so the
deadline of three seconds counts until the first message was handled. In real
time the downloader sleeps four seconds before its handshake and that deadline
always passes; the model lets it pass or not, so that the rest can be studied. What
another client writes may end the uploader's process (`FatalMessage`: a keep-alive, a
HAVE that does not parse, a request behind the end of the file) or leave its handler
at errChan (`MalformedRequest`).

`Kademlia`. A datagram is lost when nobody ever handles it, so there is no action
for loss. A channel is named by call, round and place; `waiters`, `pend` and `fwd`
are the goroutines on both sides of it, and a goroutine that waits for ever without
effect is left out. SendMessage is two steps, since an answer may come before it is
expected; a node in `Unplugged` may fail at the first, which makes LookUP return, a
goroutine of AnnouncePeer give up and Ping read from nil. LookUP sends the id of the
node it asks as its own (dht.go:143), so a node enters its own id at the address of
whoever asks; the model does as well. The goroutines of AnnouncePeer get no answer
to a good announce and remove what they expect when their time is up. `tids` draws
the next number for a new transaction id, since ids are only compared, and counts
the draws of an old one. GetPeers reads a store without its lock; it is one step
here. An id is the set of its bits that are one, so that xor is the symmetric
difference and the first bit that differs its maximum; it is cut into bytes of `W`
bits, because `getRandomIDFromBucket` works byte by byte. `sort.Sort` of a list
without an id twice puts at place i the entry with i - 1 nearer ones (`Sorted`).
`RefreshBucket` is the expiry of a bucket's timer, at any moment.

`Session` composes `TrackerNet`, `PeersPool`, `TorrentFile` and `ClientInfo`: the
tracker's handlers are the actions of `TrackerNet`, and a client's step and the
handler it calls are one step (the crash of the tracker in between is the refused
call). One process per machine, since the port of the uploader is fixed. The
transfer itself is `Download` and `PeerWire`; here it is what it does to the
process: it waits for ever, or ends. What the code decides:

- At this commit neither program builds as it stands (`main.go` calls `ServerTCP`
  with four of its five arguments, a line of `utils/utils.go` is broken, and both
  define `main`); the model reads each as `go run` with that file would run it.
- With `DownloadReturns` violated (`Download`), `DownloadFile` returns for a torrent
  of no pieces alone: such a `.torrent`, made by another program, is in `Hollow`,
  and only there are the announces behind the download and SaveToInfo reached. A
  peer that is not listed announces `stopped` then, which ends the tracker.
- An error of RequestPeers ends the process (client.go:110), so the DHT that
  DownloadTo would ask next is never asked. The button that starts a download in
  `fyneUI.go` passes on a path that a shadowed variable left empty.
- `info.json` is read once, at the start; what is saved is served from the next
  start on. A process that ends between the two halves of the write leaves a
  file that does not parse, and none starts on this machine again.
- SaveToInfo of a torrent that is not listed puts an empty entry under `"1"`, since
  the index it computes is the size of the map it has just made plus one. The
  shipped file has a torrent of its own there, and it is lost. A second such save
  overwrites an empty entry, so `OneTorrentLost` bounds the loss, and the run
  `save_forgets_torrent` shows it.
- The key of a saved entry is the raw infohash and goes through JSON, which maps
  bytes that are not UTF-8 to one replacement: `JsonKey` is what a key is read back
  as, and two torrents may be read back under one. What is lost in that way is a
  torrent whose infohash is not text, about which `OneTorrentLost` says nothing.

## 3. Runs

| Run | Instance | Shows |
|---|---|---|
| `tracker_network` | 3 trackers, 2 with one key and each told of the other, 1 with another key; no loss, but time limits; 360,369 states | types; `KeyIsolation`; `OneHop`; `SeederProvenance`; `ReplicaReached`; `KnownMutually` |
| `tracker_crash` | 2 trackers, 2 peers (one only ever stops), loss and time limits, one tracker saves and is restarted; 240,585 states | refinement of the registry, with the panic an unlisted peer causes; a frozen tracker is mute; a save is a snapshot; stopped stays |
| `download` | 2 peers, one of them arbitrary, 2 pieces, 5 bytes, 8 results; 364,050 states | the properties of the download |
| `dht_network` | 3 nodes, ids of two bytes of three bits, 2 asked per round, one node in an answer, one call: a join, an announce, a download or the refresh of one of four buckets; one node heard of nobody, another may go away and fail to write; 186,115 states | the stores, the end of rounds and of calls, that a refresh asks near its bucket |
| `dht_downloads` | 3 nodes, 2 keys, each announced to another node, two calls at a time: downloads of both keys by one node, of one key by two, or a download while the same key is announced; one transaction id may be drawn twice; 357,864 states | `PeersWereAnnounced` |
| `peer_wire` | 2 peers, 1 other client, 2 pieces of 4 blocks, 3 requests in flight; 90,296 states | the properties of the wire |
| `client_session` | 2 machines, one with an identifier in `info.json`, the other draws one of 2; a torrent and one of no pieces; files of 0, 2 and 8 bytes, pieces of 3; the tracker is started at most twice; 1,323,157 states (up to the symmetry of the drawn identifiers) | `PiecesAgree`, `NotOfferedItself`, `SeederOffered`, `OneTorrentLost` |

Runs that find a property violated: the property states what a document or a
comment of the repository says, and the counterexample is the program's.

| Run | Says | Counterexample |
|---|---|---|
| `restart_freezes_survivor` | README.md:61, the other tracker answers | the KnowMe of a restarted tracker makes the survivor return without `Unlock` |
| `load_loses_torrents` | README.md:64, the last state is recovered | JSON replaces the bytes of an infohash that are not UTF-8 |
| `download_never_returns` | torrent.go:84, the file is downloaded | the close of a channel that was never made ends the process |
| `next_peer_never_accepted` | README.md:29, a file is available to the other clients | the handler waits on a channel nobody reads, and the listener on the handler |
| `save_forgets_torrent` | README.md:28-29, a downloaded file stays available to the other clients | the entry under `"1"` is emptied by the save of another torrent |

Two more disagreements are plain in the model and have no run of their own: the check
of Announce lets `completed` through where the switch knows `complete`
(tacker.go:399 and 272, README.md:49), and only the first Publish of a torrent is
pushed to the known trackers (tacker.go:192, README.md:59).

Bounds and why they are enough.

- Trackers: KnowMe and RePublish involve two trackers; a third one, with another
  key, is there for what must not reach it. One peer and one torrent suffice for
  the lock, the messages and the files, which never look at which peer it is.
  What relates several peers (`SeederProvenance`, `StoppedStays`, the refinement) is
  proved for any number; in `tracker_crash` a second one, in `Passive`, announces
  `stopped` without being listed, and in `client_session` up to four are listed.
  `MaxBoots` starts a tracker once or twice: a second start meets
  everything a first one left behind. `Savers` bounds who saves.
- Download: two goroutines are what a race on the array takes. Two pieces of two
  bytes and a fifth byte: the array is moved, a piece is put back behind
  another, and the last byte lies behind the last whole piece. `RespCap` is the
  8 of the code. `Uint` stands for 2^64: `left` wraps at 16. Three pieces and
  two goroutines are out of reach (more than 17 million states).
- DHT: three nodes are asker, go-between and the one closer to the key that the
  asker does not know. Two asked per round make the count of answers matter. The
  key has one announced address at the start, so a second one is inserted before
  it. In `dht_network` a call has the network to itself: calls of one node share
  only `expected`, the ids and the table, which is what `dht_downloads` is for.
  `MaxTid` is more than a call draws; `MaxReuse` is 0 in the first run and 1 in the
  second, where the answer to one download may then be taken for that to the other.
  `Together` says of which kinds two calls at a time are. An answer holds one node, so
  that its bound, 20 in the code, bites. Expected answers are cleaned up at the node
  that downloads (`Sweepers`), one pair grows old at the node that stores it
  (`Ticking`), and the node that joins and announces may go away (`Mortal`) and fail to
  write (`Unplugged`).
- Wire: the uploader serves one connection at a time and, since a handler never says
  it is done, one in all (that is `NextPeerAccepted`); which of the two peers of this
  client and the other client it is, is open, while the others wait or give up.
  Four blocks and three requests in flight make both bounds of the request loop
  bite. `MaxQueue` bounds what another client writes ahead.
- DHT, refresh: with bytes of three bits an id has two of them, so that the first
  byte that differs and the bits behind it are different cases. Buckets of both
  bytes are refreshed.
- Sessions: two machines are an asker and whoever else is listed. The one without
  an identifier is listed again under a new one after each start, so lists of
  more than two, and of an asker's old names, occur. Files shorter than a piece,
  empty, and with a rest behind two pieces are the three cases of BuildTorrentFile.
  The two initial `info.json` are the shipped one, three torrents under `"0"`, `"1"`
  and `"2"`, and what two saves make of it, one of a torrent whose infohash is not
  text and one of a download that failed.
- `CHECK_DEADLOCK FALSE` in all of them: a network of trackers that lost its
  messages, a process that ended and a download that is over really stop.

Fairness, and why the code justifies it.

- `Download`: weak fairness of goroutines and of the collector; for a peer of
  `Honest` (reachable, keeps the connection, sends what the torrent file says)
  also of its connection, and strong fairness of choosing an owned piece, since
  `rand.Intn` that is asked again and again returns each index at some time. None is
  assumed of the other peers.
- `Kademlia`: weak fairness of the steps of a call and of its time limits. None of
  the delivery or the handling of datagrams.
- `TrackerNet`, `Session`: none; what is claimed of them is safety. Processes end whenever their user
  likes.
- `PeerWire`: weak fairness of both programs and of the failure of a read on a
  connection that is gone. No deadline must pass and no connection must break.

## 4. Assumptions

On the environment:

- A tracker's address names it: `-ip` and `-port` do not change between starts,
  nor does `-redKey`. A tracker started with the default `-ip localhost` is in
  `Trackers \ Literal`.
- DHT nodes have different ids and keep their addresses (16 bytes, as
  `net.ParseIP` returns them); the bytes of an entry do not hold `//`, and an answer
  fits in the 1024 bytes of the buffer it is read into.
- Infohashes have 20 bytes; those that are UTF-8 are `TextHashes`.
- In `PeerWire` the served file stays at its path (an error of `os.Open` drops the
  request: `Stat` of the nil file returns an error, not a panic, and HandleRequest
  returns), and peers of this client request within it; other clients handshake
  properly and then send anything, messages that end the uploader included.
  What another client reads is not kept.
- A random identifier, 20 hexadecimal digits, is never drawn twice, and no machine has the
  `info.json` of another (`IdsOf`). The tracker's address in every `.torrent` is right.
- The uploader never sends CHOKE: `Choke` works on an empty list on both sides.
- Not modelled in `Download`: `KeepAliveToTracker` (it only reports), and
  `dp.bitfield`, `dp.requested` and `dp.pendingPieces`, which nothing reads to
  decide.

On the constants, beside their types, for the proofs; TLC evaluates each of them:

- `Download`: finitely many goroutines, and a file shorter than 2^64 (`Length < Uint`),
  without which `left` could not even hold the length.
- `Session`: a process talks to its tracker as itself, so nobody announces out of
  the blue (`Passive = {}`). `KeysAssumption`: the keys `"0"`, `"1"`, `"2"` of the
  shipped `info.json` are no infohashes; JSON leaves an infohash alone exactly when
  it is text, and what it makes of another is no infohash (it is longer than 20
  bytes); `ZeroHash` is text. `OldHashes` are the torrents `info.json` lists at the
  beginning. No two machines share an identifier (`IdsAssumption`; the shipped
  `info.json` holds a fixed one, so this says that whoever copies the file changes
  it); what a file `info.json` holds under an infohash at the beginning is an entry
  of that torrent, since SaveToInfo writes no other.
- `RoutingTable`: an id is a whole number of bytes. `Kademlia`: distinct ids, keys
  are ids, a node heard of finitely many nodes and stores finitely many pairs at
  the beginning.
- `KStore`: the values are ordered (strings in the code, numbers here).

## 5. Proofs

Checked by TLAPS, for every value of the constants that satisfies the named
assumptions. Every safety invariant and every action property that a passing run
checks has its theorem, and so has the refinement; the runs show each of them on an
instance first.

`TrackerNetProofs`:

- `TypeCorrect`: `Spec => []TypeOK`.
- `MessagesAgree`: the inductive invariant `MsgInv == TypeOK /\ KeysAgree /\ OneHop`.
  `KeyIsolation` alone is not inductive: a tracker comes into the list from an
  accepted KnowMe, from an answer on its way through the channel, and from the
  file of an earlier process; `KeysAgree` says all of them hold trackers with
  the same key, and so does every RePublish and every positive answer in flight.
- `Isolation`, `SingleHop`: `KeyIsolation` and `OneHop` from it.
- `Refinement`: `Spec => ImplementsRegistry`. One lemma per handler says which
  step of the registry it is, or that it changes no fact; RePublish is `Learn`
  because of `OneHop` and `KeysAgree`.
- `Provenance`: `SeederProvenance`. The registry's `Sound`, which speaks of the
  files too, is inductive; it carries over through the refinement.
- `LocksAgree`: the inductive invariant `LockInv`. `Quiet`: a process that is down
  has no torrents and no lock, and a leaked lock excludes a save. `Consistent`:
  while saveData has the read lock, a file it is done with is whole and one it
  has begun holds what is in memory.
- `Kinds`: each step is, for each tracker, nothing, a granted announce, a handler
  with the lock, a step of saveData, or the end or start of the process. Three
  theorems follow from this list and the invariant: `StoppedIsKept`
  (`StoppedStays`), `FrozenForGood` (`FrozenIsMute`), `SavedTogether` (`SaveIsSnapshot`).
- `PushArrives`: `ReplicaReached`, by `ReachInv`. The property excuses a tracker
  that went down and is silent on one that was not started yet; `Reached` says
  that what is owed to the latter is still on its way, and a tracker that was
  started no more than once and is up forgets nothing.
- `BothTakeNote`: `KnownMutually`, by `KnowInv`, whatever is lost and whichever time limit
  passes: the one excuse is a caller that went down or gave up waiting. That two trackers know each other
  is decided by messages that may cross, so the invariant follows a call: its
  caller waits for the answer or gave up (`Asked`), there is no answer before the
  call was handled (`NoAnswerYet`), and whoever knows another is known to it or owed
  a positive answer that is awaited (`Mutual`).

`DownloadProofs`:

- `Invariance`: `Inv == TypeOK /\ HeaderFits /\ CollectorCounts` is inductive.
  `HeaderFits`: while a task is out of the slice there is a free cell, and
  `remove` stays within the slice; without it `append` could leave the array and
  `TypeOK` is not inductive. `CollectorCounts` relates the collector's state,
  its count and the panic for a closed channel.
- `TypeCorrect`: `TypeOK`. `Counted`: `ClosedWhenCounted`.

`DownloadTaskProofs`:

- `NoTaskLost`: `TasksConserved`. What a goroutine owes is a number because of
  `HeaderFits`; the results owed, sent and counted are one finite set of which each
  step moves one element.
- `DeathAtTheEnd`: `DiesAfterLastPiece`. To `TasksConserved` come what a goroutine
  before its loop owes (`Start`) and at which statement each panic happens (`Cause`).
- `OnePlace`: `AlonePieceOnce`. A piece is counted over the slice, the cells that
  `remove` holds in the middle of its copy, the hand, the channel and the buffer;
  `OneEach` is kept by every load and store of the copy. Not inductive alone: the
  first goroutine that enters the loop must find the array as it was made
  (`Untouched`), and stay the only one.
- `ToldWhatIsChecked`: `AloneAccounts`, by `AccountInv`: `downloaded` is the bytes of
  the pieces checked, whose number `AlonePieceOnce` bounds by the file, so that
  `left` cannot wrap around.

`PeerWireProofs`:

- `TypeCorrect`: `TypeOK`.
- `NoBlockLost` (`AwaitedOnTheWay`) and `BlockByBlock` (`BlocksInOrder`), both from
  `WireInv`: on a connection that holds, the two queues together are a phase of the
  conversation (`Held`): before the handshake, quiet, or with a piece in hand. In
  the last the requests in one queue and the answers in the other count up, in
  order, from the blocks received to those requested (`InHand`).

`SessionProofs`:

- `SessionTypeCorrect` (`SessionTypeOK`) and `NoSelfOffer` (`NotOfferedItself`), from
  `SessionInv`: who is listed at the tracker under which identifier, that a
  drawn identifier is in use, and that `info.json` keeps the machine's own.
- `MadeTorrentsAgree`: `PiecesAgree`, arithmetic of whole pieces and of the bytes a
  hash is cut into, for every length.
- `SeederIsOffered`: `SeederOffered`. The loop of `getRandomPeers` stops after `n`
  peers and counts the asker when it meets it: the only case in which it can
  miss the seeder is a pool of the two of them, which the property leaves out.
- `SavesLoseOne`: `OneTorrentLost`. Not inductive: what is kept is where the entries
  are. `Entries` says that each entry with a text infohash that was there at the
  beginning is still under its key, but for `"1"`; the torrents lost are then among
  the one that was under `"1"`.
- `SessionUsesTracker`: `SessionSpec => Spec` of `TrackerNet`: each step of a client
  is, at the tracker, a step of the network or none. So what is proved of trackers
  holds while real clients use them.

`KademliaDataProofs` has the lemmas: what a fold computes, that the place found by
`sort.SearchStrings` keeps a list sorted, what announces and ExpireKeys make of a
store, that an update keeps a table in place, that `Sorted` is a permutation with
the nearest first, and where the id of a refresh lies.

`KademliaProofs`:

- `CountedRounds`: `CountedRoundIsOver`, by `LookInv`. That no sender is left when
  as many answers came as nodes were asked is a count: each goroutine and each sender
  of a round has a place of its own in it (`Waiting`), and answers and places
  together are at most the nodes asked (`Turn`).
- `RefreshesStayNear`: `RefreshStaysNear`, from where getRandomIDFromBucket copies
  bits and where it draws them, for ids and bytes of every size.

`KademliaStateProofs`:

- `StateInvariant`: `StateInv /\ LookInv` is inductive. `StateInv` says what tables,
  stores, datagrams, expected answers, senders and calls hold, and how far a
  call is (`Phase`): a query is written only while fewer than `Round` nodes were
  asked, so that the node asked next is one of the list.
- `StateTypes`: `TypeOK`, with the tables in which each id is once and in its
  bucket. `StoresAgree`: `StoreAgrees`.
- `RoundsNearer`: `RoundsGetCloser`. The list of a call has no id twice and never
  loses an entry, so its first after a sort is the old first or a nearer one; equal
  ends the lookup.
- `ToldWasAnnounced`: `PeersWereAnnounced`. Its first half is in `StateInv`. For the
  second there are two invariants. `ToldInv`, while no transaction id was drawn twice:
  an id that is drawn is larger than that of every datagram under way and every
  answer expected, so the query with an id and all answers to it are about one key
  (`Right`); that passes to the entry, to the senders and to the results of the call
  whose target the key is. `WantedInv`, always: a datagram asks for and holds only
  what some download of the node it comes from, or goes to, wants (`WantedIn`), and
  values are expected by, and passed on to, downloads alone (`WantedBy`, `PassedOn`).
  So an id drawn twice may mix up two downloads of one node, and nothing else.

What proving changed in the model. `PeersPool`, `TorrentFile` and `RoutingTable` are
written without recursion, `SelectSeq` and `SortSeq`; an id became a set of
bits. A case of `Absorb` (an answer of no entries that holds values) stood under
two arms of a CASE and was left to the prover's choice; it is under one now.
Assumptions the proofs needed are in section 4.

How far induction reaches. The theorem modules' induction principles take an
operator as a parameter and cannot be used here. Two things stand in: an
argument by the least counterexample, from the theorem that `<` on the naturals
is well-founded (`Least`), and, for the folds of the community modules, the
lemmas `FoldExists` (there is a function on the subsets of a finite set that the
fold's equation describes) and `FoldStays` (what each step keeps, the fold keeps).

Only model-checked: the liveness properties `OwnedPiecesArrive`, `ServedPeerFinishes`
and `CallsReturn`, which rest on fairness and with it on ENABLED,
beyond these provers; and the properties that a run finds violated.

## 6. Not modelled

- DHT: malformed datagrams, error messages, the clock of a refresh, and the
  operations nothing calls (RemoveNode, getNodesInBucketClosestThanRT, Remove,
  GetAllPairs, GetKeyValuesToRepublish).
- Client: widgets and the field for the port, the statistics of HAVE and Choke
  (whose lists are empty), KeepAliveToTracker, Scrape (no client calls it), and the
  lines that are commented out.
- Bencoding, JSON but for what it does to an infohash, certificates and flags:
  input and output without protocol. The byte formats of wire messages.
- Generated gRPC code.

`PROJECT.json` lists each part with its reason, and the hazards at their lines. Thirteen
of them no property covers, each with the reason: most end a process by `log.Fatalf`
or a runtime error, or lose data for good, where nothing in the code prevents it and a
property could only restate the line. Of others the note says which half is covered:
what holds up to the moment a race or a time limit strikes.

## 7. Plan

1. Proofs: every safety property of a passing run is stated by a theorem. What
   remains is on the side of refinement: that `Session` uses its tracker as
   `TrackerNet` allows is proved; an abstract download (a set of pieces, each taken,
   delivered or given back) that `Download` implements while one goroutine is at work
   would say `AlonePieceOnce` and `AloneAccounts` as one sentence; an abstract
   store (a set of pairs) that `KStore` implements, and a channel of requests
   and answers that a connection of `PeerWire` implements.
2. Steps towards liveness that need no fairness: what each wait of LookUP, of the
   collector and of a served peer can be ended by.
3. `Kademlia`: what the repository says and the code does not keep: an answer to
   an earlier query with the same one-byte id, entries with a wrong address, the
   nodes getNearestNodes calls nearest (it visits buckets above the target's before
   lower ones that are closer), keys with the separator that never expire.
4. `TrackerNet`: Announce and saveData at the grain of map reads and writes.
5. `ClientInfo`: which of two entries JSON reads back under one key, when infohashes
   are not text.
