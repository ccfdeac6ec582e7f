--------------------------- MODULE TrackerNetProofs ---------------------------
(***************************************************************************)
(* Proofs about TrackerNet, for every set of trackers, peers and torrents, *)
(* every assignment of keys, with and without loss, saves and restarts.    *)
(***************************************************************************)
EXTENDS TrackerNet, TLAPS

\* The map publishTorrent leaves is a map of torrents again.
LEMMA PublishTorrentType ==
  ASSUME NEW tp \in [Torrents -> TorrentTk], NEW t \in Torrents, NEW p \in Peers
  PROVE  publishTorrent(tp, t, p) \in [Torrents -> TorrentTk]
<1> DEFINE old == tp[t]
           new == [complete   |-> IF old = NoTorrent THEN 1 ELSE old.complete,
                   downloaded |-> old.downloaded,
                   peers      |-> IF old.peers[p] # "none" THEN old.peers
                                  ELSE [old.peers EXCEPT ![p] = "seeder"]]
<1>1. publishTorrent(tp, t, p) = [tp EXCEPT ![t] = new]
  BY DEF publishTorrent
<1>2. new \in TorrentTk
  BY DEF TorrentTk, PeerState
<1> QED
  BY <1>1, <1>2

\* The entry of a torrent after an event is an entry again.
LEMMA AfterEventType ==
  ASSUME NEW ttk \in TorrentTk, NEW p \in Peers, NEW event \in AnnounceEvents
  PROVE  afterEvent(ttk, p, event) \in TorrentTk
BY DEF afterEvent, TorrentTk, PeerState, AnnounceEvents

\* The value for an absent torrent is an entry.
LEMMA NoTorrentType == NoTorrent \in TorrentTk /\ NoTorrents \in [Torrents -> TorrentTk]
BY DEF NoTorrent, NoTorrents, TorrentTk, PeerState

\* What a restarted tracker loads has the type of what it keeps.
LEMMA LoadType ==
  ASSUME TypeOK, NEW a \in Trackers
  PROVE  /\ loadTorrents(a) \in [Torrents -> TorrentTk]
         /\ loadBkTrackers(a) \in SUBSET Trackers
BY NoTorrentType DEF TypeOK, loadTorrents, loadBkTrackers, TorrentsFile, BkFile

\* The death of a process leaves every variable its type.
LEMMA DieType ==
  ASSUME TypeOK, NEW a \in Trackers, Die(a)
  PROVE  TypeOK'
BY NoTorrentType DEF TypeOK, Die, Idle, Files, Message, history

\* Handlers of peers' requests keep the types.
LEMMA PeerTypes ==
  ASSUME TypeOK, NEW a \in Trackers, NEW t \in Torrents, NEW p \in Peers
  PROVE  /\ Publish(a, t, p) => TypeOK'
         /\ \A event \in AnnounceEvents :
              Announce(a, t, p, event) \/ AnnouncePanic(a, t, p, event) => TypeOK'
<1>1. rePublishes(a, t, p) \in SUBSET Message
  BY DEF rePublishes, Message, TypeOK
<1>2. bk[a] \X {t} \in SUBSET (Trackers \X Torrents)
  BY DEF TypeOK
<1>3. ASSUME Publish(a, t, p) PROVE TypeOK'
  <2>1. publishTorrent(torrents[a], t, p) \in [Torrents -> TorrentTk]
    BY PublishTorrentType DEF TypeOK
  <2> QED
    BY <1>1, <1>2, <1>3, <2>1 DEF TypeOK, Publish
<1>4. ASSUME NEW event \in AnnounceEvents, Announce(a, t, p, event) PROVE TypeOK'
  <2>1. afterEvent(torrents[a][t], p, event) \in TorrentTk
    BY AfterEventType DEF TypeOK
  <2>2. torrents' \in [Trackers -> [Torrents -> TorrentTk]]
    BY <1>4, <2>1 DEF TypeOK, Announce
  <2> QED
    BY <1>1, <1>2, <1>4, <2>2 DEF TypeOK, Announce
<1>5. ASSUME NEW event \in AnnounceEvents, AnnouncePanic(a, t, p, event) PROVE TypeOK'
  BY <1>5, DieType DEF AnnouncePanic
<1> QED
  BY <1>3, <1>4, <1>5

\* Messages between trackers keep the types.
LEMMA DeliverTypes ==
  ASSUME TypeOK, NEW m \in msgs, Deliver(m) \/ Lose(m)
  PROVE  TypeOK'
<1>1. m \in Message
  BY DEF TypeOK
<1>2. CASE RePublish(m)
  <2>1. m.from \in Trackers /\ m.to \in Trackers /\ m.torrent \in Torrents /\ m.peer \in Peers
    BY <1>1, <1>2 DEF Message, RePublish
  <2>2. publishTorrent(torrents[m.to], m.torrent, m.peer) \in [Torrents -> TorrentTk]
    BY <2>1, PublishTorrentType DEF TypeOK
  <2>3. torrents' \in [Trackers -> [Torrents -> TorrentTk]]
    BY <1>2, <2>1, <2>2 DEF TypeOK, RePublish
  <2> QED
    BY <1>2, <2>3 DEF TypeOK, RePublish, history
<1>3. ASSUME m.type = "KnowMe", NEW status \in {"OK", "FAILED", "FAILEDIP", "UNKNOWNREDKEY"},
             Reply(m, status)
      PROVE  msgs' \in SUBSET Message /\ m.from \in Trackers /\ m.to \in Trackers
  <2>1. m.from \in Trackers /\ m.to \in Trackers /\ m.boot \in Nat
    BY <1>1, <1>3 DEF Message
  <2>2. answer(m, status) \in Message
    BY <2>1 DEF answer, Message
  <2> QED
    BY <1>3, <2>1, <2>2 DEF Reply, TypeOK
<1>4. CASE KnowMeBadIP(m)
  BY <1>3, <1>4 DEF KnowMeBadIP, TypeOK, mem, history
<1>5. CASE KnowMeBadKey(m)
  BY <1>3, <1>5 DEF KnowMeBadKey, TypeOK, history
<1>6. CASE KnowMeFound(m)
  BY <1>3, <1>6 DEF KnowMeFound, TypeOK, history
<1>7. CASE KnowMe(m)
  BY <1>3, <1>7 DEF KnowMe, TypeOK, history
<1>8. CASE KnowMeAnswered(m)
  <2>1. m.from \in Trackers /\ m.to \in Trackers
    BY <1>1, <1>8 DEF Message, KnowMeAnswered
  <2> QED
    BY <1>8, <2>1 DEF KnowMeAnswered, TypeOK, history
<1>9. CASE Lose(m)
  BY <1>9 DEF Lose, TypeOK, mem, history
<1> QED
  BY <1>2, <1>4, <1>5, <1>6, <1>7, <1>8, <1>9 DEF Deliver

\* Saving keeps the types.
LEMMA SaveTypes ==
  ASSUME TypeOK, NEW a \in Trackers, SaveBegin(a) \/ Save(a)
  PROVE  TypeOK'
<1>1. CASE SaveBegin(a)
  BY <1>1 DEF SaveBegin, TypeOK, Files, mem, history
<1>2. ASSUME NEW f \in Files, SaveTruncate(a, f) PROVE TypeOK'
  <2>1. marshalTorrents(torrents[a]) \in [Torrents -> TorrentTk]
    BY NoTorrentType DEF TypeOK, marshalTorrents
  <2> DEFINE tFile == [whole |-> FALSE, val |-> marshalTorrents(torrents[a])]
             bFile == [whole |-> FALSE, val |-> bk[a]]
  <2>2. disk' \in [Trackers -> [torrents : TorrentsFile, bk : BkFile]]
    <3>1. tFile \in TorrentsFile /\ bFile \in BkFile
      BY <2>1 DEF TypeOK, TorrentsFile, BkFile
    <3>2. disk[a] \in [torrents : TorrentsFile, bk : BkFile]
      BY DEF TypeOK
    <3>3. \/ disk' = [disk EXCEPT ![a] = [disk[a] EXCEPT !.torrents = tFile]]
          \/ disk' = [disk EXCEPT ![a] = [disk[a] EXCEPT !.bk = bFile]]
      BY <1>2 DEF SaveTruncate
    <3>4. /\ [disk[a] EXCEPT !.torrents = tFile] \in [torrents : TorrentsFile, bk : BkFile]
          /\ [disk[a] EXCEPT !.bk = bFile] \in [torrents : TorrentsFile, bk : BkFile]
      BY <3>1, <3>2
    <3> QED
      BY <3>3, <3>4 DEF TypeOK
  <2>3. saving' \in [Trackers -> [Files -> {"idle", "todo", "open"}]]
    BY <1>2 DEF TypeOK, SaveTruncate
  <2> QED
    BY <1>2, <2>2, <2>3 DEF SaveTruncate, TypeOK, mem, history
<1>3. ASSUME NEW f \in Files, SaveWrite(a, f) PROVE TypeOK'
  <2>1. disk' \in [Trackers -> [torrents : TorrentsFile, bk : BkFile]]
    <3>1. disk[a] \in [torrents : TorrentsFile, bk : BkFile]
      BY DEF TypeOK
    <3>2. /\ [disk[a].torrents EXCEPT !.whole = TRUE] \in TorrentsFile
          /\ [disk[a].bk EXCEPT !.whole = TRUE] \in BkFile
      BY <3>1 DEF TorrentsFile, BkFile
    <3>3. \/ disk' = [disk EXCEPT ![a] =
                [disk[a] EXCEPT !.torrents = [disk[a].torrents EXCEPT !.whole = TRUE]]]
          \/ disk' = [disk EXCEPT ![a] = [disk[a] EXCEPT !.bk = [disk[a].bk EXCEPT !.whole = TRUE]]]
      BY <1>3 DEF SaveWrite
    <3>4. \E d \in [torrents : TorrentsFile, bk : BkFile] : disk' = [disk EXCEPT ![a] = d]
      <4>1. /\ [disk[a] EXCEPT !.torrents = [disk[a].torrents EXCEPT !.whole = TRUE]]
                 \in [torrents : TorrentsFile, bk : BkFile]
            /\ [disk[a] EXCEPT !.bk = [disk[a].bk EXCEPT !.whole = TRUE]]
                 \in [torrents : TorrentsFile, bk : BkFile]
        BY <3>1, <3>2
      <4> QED
        BY <3>3, <4>1
    <3> QED
      BY <3>4 DEF TypeOK
  <2>2. saving' \in [Trackers -> [Files -> {"idle", "todo", "open"}]]
    BY <1>3 DEF TypeOK, SaveWrite
  <2> QED
    BY <1>3, <2>1, <2>2 DEF SaveWrite, TypeOK, mem, history
<1> QED
  BY <1>1, <1>2, <1>3 DEF Save

\* Starting a tracker keeps the types.
LEMMA StartTypes ==
  ASSUME TypeOK, NEW a \in Trackers, NEW load \in BOOLEAN, Start(a, load)
  PROVE  TypeOK'
<1> DEFINE queue == getNewBkTrackersAddrs(a)
<1>1. queue \in SUBSET Trackers
  BY ConstantsAssumption DEF getNewBkTrackersAddrs
<1>2. [type : {"KnowMe"}, from : {a}, to : queue, boot : {boot[a] + 1}] \in SUBSET Message
  BY <1>1 DEF Message, TypeOK
<1>3. boot' \in [Trackers -> Nat]
  BY DEF Start, TypeOK
<1>4. torrents' \in [Trackers -> [Torrents -> TorrentTk]] /\ bk' \in [Trackers -> SUBSET Trackers]
  BY LoadType, NoTorrentType DEF Start, TypeOK
<1> HIDE DEF queue
<1> QED
  BY <1>1, <1>2, <1>3, <1>4 DEF Start, TypeOK, history, queue

\* Every reachable state is well typed.
THEOREM TypeCorrect == Spec => []TypeOK
<1>1. Init => TypeOK
  BY NoTorrentType DEF Init, TypeOK, Idle, Files, TorrentsFile, BkFile
<1>2. TypeOK /\ [Next]_vars => TypeOK'
  <2> SUFFICES ASSUME TypeOK, [Next]_vars PROVE TypeOK'
    OBVIOUS
  <2>1. ASSUME NEW a \in Trackers, NEW t \in Torrents, NEW p \in Peers,
               NEW event \in AnnounceEvents, Announce(a, t, p, event)
        PROVE  TypeOK'
    BY <2>1, PeerTypes
  <2>2. ASSUME NEW a \in Trackers, PeerRequest(a) PROVE TypeOK'
    <3>1. ASSUME Scrape(a) \/ \E t \in Torrents : AnnounceUnknown(a, t) PROVE TypeOK'
      BY <3>1 DEF Scrape, AnnounceUnknown, TypeOK, vars
    <3> QED
      BY <2>2, <3>1, PeerTypes DEF PeerRequest
  <2>3. ASSUME NEW a \in Trackers, SaveBegin(a) \/ Save(a) PROVE TypeOK'
    BY <2>3, SaveTypes
  <2>4. ASSUME NEW a \in Trackers, Crash(a) PROVE TypeOK'
    BY <2>4, DieType DEF Crash
  <2>5. ASSUME NEW a \in Trackers, NEW load \in BOOLEAN, Start(a, load) PROVE TypeOK'
    BY <2>5, StartTypes
  <2>6. ASSUME NEW a \in Trackers, NEW b \in Trackers, PutBk(a, b) PROVE TypeOK'
    BY <2>6 DEF PutBk, TypeOK, history
  <2>7. ASSUME NEW a \in Trackers, NEW b \in Trackers, KnowMeTimeout(a, b) PROVE TypeOK'
    BY <2>7 DEF KnowMeTimeout, TypeOK, history
  <2>8. ASSUME NEW m \in msgs, Deliver(m) \/ Lose(m) PROVE TypeOK'
    BY <2>8, DeliverTypes
  <2>9. CASE UNCHANGED vars
    BY <2>9 DEF TypeOK, vars
  <2> QED
    BY <2>1, <2>2, <2>3, <2>4, <2>5, <2>6, <2>7, <2>8, <2>9 DEF Next
<1> QED
  BY <1>1, <1>2, PTL DEF Spec

-------------------------------------------------------------------------------
(* Keys and messages. *)

\* KeyIsolation is not inductive by itself: a tracker enters BackupTrackers
\* from an answer or from the file, and a RePublish is addressed before it is
\* delivered.  All of them agree on the key.
KeysAgree ==
  /\ \A a \in Trackers : \A b \in bk[a] \cup bkchanel[a] \cup disk[a].bk.val : Key[b] = Key[a]
  /\ \A m \in msgs : m.type = "RePublish" => Key[m.to] = Key[m.from]
  /\ \A m \in msgs : m.type = "KnowMeReply" /\ m.status \in {"OK", "ALREADYKNOWOK"} =>
                       Key[m.from] = Key[m.to]

MsgInv == TypeOK /\ KeysAgree /\ OneHop

\* Dropping messages, trackers and answers keeps the agreement.
LEMMA Shrinks ==
  ASSUME MsgInv, TypeOK', msgs' \subseteq msgs, published \subseteq published',
         \A a \in Trackers : bk'[a] \cup bkchanel'[a] \cup disk'[a].bk.val
                               \subseteq bk[a] \cup bkchanel[a] \cup disk[a].bk.val
  PROVE  MsgInv'
BY DEF MsgInv, KeysAgree, OneHop

\* The files of a tracker keep the agreement.
LEMMA SaveMsgInv ==
  ASSUME MsgInv, TypeOK', NEW a \in Trackers, SaveBegin(a) \/ Save(a)
  PROVE  MsgInv'
<1>1. /\ msgs' = msgs /\ published' = published
      /\ bk' = bk /\ bkchanel' = bkchanel
  BY DEF SaveBegin, Save, SaveTruncate, SaveWrite, mem, history
<1>2. \A c \in Trackers : disk'[c].bk.val \subseteq bk[c] \cup disk[c].bk.val
  <2>1. CASE SaveBegin(a)
    BY <2>1 DEF SaveBegin
  <2>2. ASSUME NEW f \in Files, SaveTruncate(a, f), NEW c \in Trackers
        PROVE  disk'[c].bk.val \subseteq bk[c] \cup disk[c].bk.val
    BY <2>2 DEF SaveTruncate, MsgInv, TypeOK
  <2>3. ASSUME NEW f \in Files, SaveWrite(a, f), NEW c \in Trackers
        PROVE  disk'[c].bk.val \subseteq bk[c] \cup disk[c].bk.val
    <3>1. disk[a].bk \in BkFile
      BY DEF MsgInv, TypeOK
    <3>2. [disk[a].bk EXCEPT !.whole = TRUE].val = disk[a].bk.val
      BY <3>1 DEF BkFile
    <3> QED
      BY <2>3, <3>2 DEF SaveWrite, MsgInv, TypeOK
  <2> QED
    BY <2>1, <2>2, <2>3 DEF Save
<1> QED
  BY <1>1, <1>2, Shrinks

\* Crash and restart keep it: a loaded list was written by the tracker itself.
LEMMA RestartMsgInv ==
  ASSUME MsgInv, TypeOK', NEW a \in Trackers, NEW load \in BOOLEAN, Die(a) \/ Start(a, load)
  PROVE  MsgInv'
<1>1. CASE Die(a)
  <2>1. \A c \in Trackers : bk'[c] \subseteq bk[c] /\ bkchanel'[c] \subseteq bkchanel[c]
    BY <1>1 DEF MsgInv, TypeOK, Die
  <2> QED
    BY <1>1, <2>1, Shrinks DEF Die, history
<1>2. CASE Start(a, load)
  <2>1. \A c \in Trackers : bk'[c] \subseteq bk[c] \cup disk[c].bk.val
    BY <1>2 DEF MsgInv, TypeOK, Start, loadBkTrackers, BkFile
  <2>2. /\ bkchanel' = bkchanel /\ disk' = disk /\ published' = published
        /\ \A m \in msgs' : m \in msgs \/ m.type = "KnowMe"
    BY <1>2 DEF Start, history
  <2> QED
    BY <2>1, <2>2 DEF MsgInv, KeysAgree, OneHop
<1> QED
  BY <1>1, <1>2

\* A tracker pushes what a peer told it, to trackers with its key.
LEMMA PublishMsgInv ==
  ASSUME MsgInv, TypeOK', NEW a \in Trackers, NEW t \in Torrents, NEW p \in Peers,
         Publish(a, t, p)
  PROVE  MsgInv'
<1>1. /\ bk' = bk /\ bkchanel' = bkchanel /\ disk' = disk
      /\ published \subseteq published'
  BY DEF Publish
<1>2. ASSUME NEW m \in msgs', m \notin msgs
      PROVE  /\ m.type = "RePublish" /\ Key[m.to] = Key[m.from]
             /\ <<m.from, m.torrent, m.peer>> \in published'
  <2>1. /\ PublishStatus(torrents[a], t, p) = "OK"
        /\ m \in rePublishes(a, t, p)
    BY <1>2 DEF Publish
  <2>2. <<a, t, p>> \in published'
    BY <2>1 DEF Publish
  <2> QED
    BY <2>1, <2>2 DEF rePublishes, MsgInv, KeysAgree
<1> QED
  BY <1>1, <1>2 DEF MsgInv, KeysAgree, OneHop

\* Handlers of messages keep the agreement.
LEMMA DeliverMsgInv ==
  ASSUME MsgInv, TypeOK', NEW m \in msgs, Deliver(m) \/ Lose(m)
  PROVE  MsgInv'
<1>1. m \in Message
  BY DEF MsgInv, TypeOK
<1>2. CASE RePublish(m)
  BY <1>2, Shrinks DEF RePublish, history
<1>3. CASE Lose(m)
  BY <1>3, Shrinks DEF Lose, mem, history
<1>4. ASSUME NEW status, Reply(m, status), status = "OK" => Key[m.to] = Key[m.from],
             status # "ALREADYKNOWOK", bkchanel' = bkchanel, disk' = disk, published' = published,
             \A a \in Trackers : \A b \in bk'[a] : Key[b] = Key[a]
      PROVE  MsgInv'
  <2>1. \A n \in msgs' : n \in msgs \/ n = answer(m, status)
    BY <1>4 DEF Reply
  <2> QED
    BY <1>4, <2>1 DEF MsgInv, KeysAgree, OneHop, answer
<1>5. \A a \in Trackers : \A b \in bk[a] : Key[b] = Key[a]
  BY DEF MsgInv, KeysAgree
<1>6. CASE KnowMeBadIP(m)
  BY <1>4, <1>5, <1>6 DEF KnowMeBadIP, mem, history
<1>7. CASE KnowMeBadKey(m)
  BY <1>4, <1>5, <1>7 DEF KnowMeBadKey, history
<1>8. CASE KnowMeFound(m)
  BY <1>4, <1>5, <1>8 DEF KnowMeFound, history
<1>9. CASE KnowMe(m)
  <2>1. \A a \in Trackers : \A b \in bk'[a] : Key[b] = Key[a]
    BY <1>5, <1>9 DEF KnowMe, SameKey, MsgInv, TypeOK
  <2> QED
    BY <1>4, <1>9, <2>1 DEF KnowMe, SameKey, history
<1>10. CASE KnowMeAnswered(m)
  <2>1. m.from \in Trackers /\ m.to \in Trackers
    BY <1>1, <1>10 DEF Message, KnowMeAnswered
  <2>2. \A a \in Trackers : \A b \in bkchanel'[a] : Key[b] = Key[a]
    BY <1>10, <2>1 DEF KnowMeAnswered, MsgInv, TypeOK, KeysAgree
  <2> QED
    BY <1>10, <2>2 DEF KnowMeAnswered, MsgInv, KeysAgree, OneHop, history
<1> QED
  BY <1>2, <1>3, <1>6, <1>7, <1>8, <1>9, <1>10 DEF Deliver

\* The agreement is an invariant.
THEOREM MessagesAgree == Spec => []MsgInv
<1>1. Init => KeysAgree /\ OneHop
  BY DEF Init, KeysAgree, OneHop
<1>2. MsgInv /\ TypeOK' /\ [Next]_vars => MsgInv'
  <2> SUFFICES ASSUME MsgInv, TypeOK', [Next]_vars PROVE MsgInv'
    OBVIOUS
  <2>1. ASSUME NEW a \in Trackers, NEW t \in Torrents, NEW p \in Peers,
               NEW event \in AnnounceEvents, Announce(a, t, p, event)
        PROVE  MsgInv'
    BY <2>1, Shrinks DEF Announce, AnnounceEvents
  <2>2. ASSUME NEW a \in Trackers, PeerRequest(a) PROVE MsgInv'
    <3>1. ASSUME Scrape(a) \/ \E t \in Torrents : AnnounceUnknown(a, t) PROVE MsgInv'
      BY <3>1, Shrinks DEF Scrape, AnnounceUnknown, vars
    <3>2. ASSUME NEW t \in Torrents, NEW p \in Peers, Publish(a, t, p) PROVE MsgInv'
      BY <3>2, PublishMsgInv
    <3>3. ASSUME NEW t \in Torrents, NEW p \in Peers, NEW event \in AnnounceEvents,
                 AnnouncePanic(a, t, p, event)
          PROVE  MsgInv'
      BY <3>3, RestartMsgInv DEF AnnouncePanic
    <3> QED
      BY <2>2, <3>1, <3>2, <3>3 DEF PeerRequest
  <2>3. ASSUME NEW a \in Trackers, SaveBegin(a) \/ Save(a) PROVE MsgInv'
    BY <2>3, SaveMsgInv
  <2>4. ASSUME NEW a \in Trackers, Crash(a) PROVE MsgInv'
    BY <2>4, RestartMsgInv DEF Crash
  <2>5. ASSUME NEW a \in Trackers, NEW load \in BOOLEAN, Start(a, load) PROVE MsgInv'
    BY <2>5, RestartMsgInv
  <2>6. ASSUME NEW a \in Trackers, NEW b \in Trackers, PutBk(a, b) PROVE MsgInv'
    <3>1. \A c \in Trackers : bk'[c] \subseteq bk[c] \cup bkchanel[c]
                              /\ bkchanel'[c] \subseteq bkchanel[c]
      BY <2>6 DEF PutBk, MsgInv, TypeOK
    <3> QED
      BY <2>6, <3>1, Shrinks DEF PutBk, history
  <2>7. ASSUME NEW a \in Trackers, NEW b \in Trackers, KnowMeTimeout(a, b) PROVE MsgInv'
    BY <2>7, Shrinks DEF KnowMeTimeout, history
  <2>8. ASSUME NEW m \in msgs, Deliver(m) \/ Lose(m) PROVE MsgInv'
    BY <2>8, DeliverMsgInv
  <2>9. CASE UNCHANGED vars
    BY <2>9, Shrinks DEF vars
  <2> QED
    BY <2>1, <2>2, <2>3, <2>4, <2>5, <2>6, <2>7, <2>8, <2>9 DEF Next
<1>3. Init /\ TypeOK /\ KeysAgree /\ OneHop => MsgInv
  BY DEF MsgInv
<1> QED
  BY <1>1, <1>2, <1>3, TypeCorrect, PTL DEF Spec

\* A tracker replicates only to trackers with its own key.
THEOREM Isolation == Spec => []KeyIsolation
<1>1. MsgInv => KeyIsolation
  BY DEF MsgInv, KeysAgree, KeyIsolation
<1> QED
  BY <1>1, MessagesAgree, PTL

\* A RePublish repeats what its sender was told by the peer itself.
THEOREM SingleHop == Spec => []OneHop
<1>1. MsgInv => OneHop
  BY DEF MsgInv
<1> QED
  BY <1>1, MessagesAgree, PTL

-------------------------------------------------------------------------------
(* The refinement of TrackerRegistry. *)

\* publishTorrent adds the seeder, or nothing if the peer is listed already.
LEMMA PublishSeeders ==
  ASSUME NEW tp \in [Torrents -> TorrentTk], NEW t \in Torrents, NEW p \in Peers
  PROVE  /\ tp[t].peers[p] = "none" =>
              seeders(publishTorrent(tp, t, p)) = seeders(tp) \cup {<<t, p>>}
         /\ tp[t].peers[p] # "none" =>
              seeders(publishTorrent(tp, t, p)) = seeders(tp)
<1> DEFINE new == publishTorrent(tp, t, p)
<1>1. /\ \A s \in Torrents : s # t => new[s] = tp[s]
      /\ new[t].peers = IF tp[t].peers[p] # "none" THEN tp[t].peers
                        ELSE [tp[t].peers EXCEPT ![p] = "seeder"]
  BY DEF publishTorrent
<1>2. tp[t].peers \in [Peers -> PeerState]
  BY DEF TorrentTk
<1> HIDE DEF new
<1>3. CASE tp[t].peers[p] = "none"
  <2>1. new[t].peers = [tp[t].peers EXCEPT ![p] = "seeder"]
    BY <1>1, <1>3
  <2>2. \A s \in Torrents, q \in Peers :
          new[s].peers[q] = "seeder" <=> (tp[s].peers[q] = "seeder" \/ (s = t /\ q = p))
    BY <1>1, <1>2, <2>1
  <2>3. seeders(new) = seeders(tp) \cup {<<t, p>>}
    BY <2>2 DEF seeders, Facts
  <2> QED
    BY <1>3, <2>3 DEF new
<1>4. CASE tp[t].peers[p] # "none"
  <2>1. \A s \in Torrents : new[s].peers = tp[s].peers
    BY <1>1, <1>4
  <2>2. seeders(new) = seeders(tp)
    BY <2>1 DEF seeders, Facts
  <2> QED
    BY <1>4, <2>2 DEF new
<1> QED
  BY <1>3, <1>4

\* An announce withdraws the seeder or changes no seeder.
LEMMA AnnounceSeeders ==
  ASSUME NEW tp \in [Torrents -> TorrentTk], NEW t \in Torrents, NEW p \in Peers,
         NEW event \in AnnounceEvents,
         NEW new, new[t] = afterEvent(tp[t], p, event),
         \A s \in Torrents : s # t => new[s] = tp[s]
  PROVE  seeders(new) = seeders(tp) \/ seeders(new) = seeders(tp) \ {<<t, p>>}
<1>1. CASE event \in {"started", "stopped"}
  <2>1. /\ \A s \in Torrents : s # t => new[s] = tp[s]
        /\ new[t].peers = [tp[t].peers EXCEPT ![p] = event]
    BY <1>1 DEF afterEvent, TorrentTk
  <2>2. tp[t].peers \in [Peers -> PeerState]
    BY DEF TorrentTk
  <2>3. \A s \in Torrents, q \in Peers :
          new[s].peers[q] = "seeder" <=> (tp[s].peers[q] = "seeder" /\ ~(s = t /\ q = p))
    BY <1>1, <2>1, <2>2
  <2> QED
    BY <2>3 DEF seeders, Facts
<1>2. CASE event \in {"request", "completed"}
  <2>1. new[t] = tp[t]
    BY <1>2 DEF afterEvent
  <2>2. \A s \in Torrents : new[s] = tp[s]
    BY <2>1
  <2> QED
    BY <2>2 DEF seeders, Facts
<1> QED
  BY <1>1, <1>2 DEF AnnounceEvents

\* No seeder in an empty map; none is added by writing a map down.
LEMMA FileSeeders ==
  /\ seeders(NoTorrents) = {}
  /\ \A tp \in [Torrents -> TorrentTk] : seeders(marshalTorrents(tp)) \subseteq seeders(tp)
BY DEF seeders, Facts, NoTorrents, NoTorrent, marshalTorrents

\* A step that touches neither seeders nor Publish is a stutter below.
LEMMA Stutters ==
  ASSUME published' = published,
         \A a \in Trackers : /\ seeders(torrents'[a]) = seeders(torrents[a])
                             /\ seeders(disk'[a].torrents.val) = seeders(disk[a].torrents.val)
  PROVE  UNCHANGED <<originatedFacts, viewFacts, writtenFacts>>
BY DEF originatedFacts, viewFacts, writtenFacts

\* Publish is Originate, or a stutter when the peer is listed already.
LEMMA PublishRefines ==
  ASSUME MsgInv, NEW a \in Trackers, NEW t \in Torrents, NEW p \in Peers, Publish(a, t, p)
  PROVE  Registry!Originate(a, <<t, p>>) \/ UNCHANGED Registry!rvars
<1> DEFINE tp == torrents[a]
<1>1. tp \in [Torrents -> TorrentTk] /\ torrents \in [Trackers -> [Torrents -> TorrentTk]]
  BY DEF MsgInv, TypeOK
<1>2. disk' = disk /\ torrents' = [torrents EXCEPT ![a] = publishTorrent(tp, t, p)]
  BY DEF Publish
<1>3. CASE tp[t].peers[p] # "none"
  <2>1. published' = published
    <3>1. tp[t] # NoTorrent
      BY <1>3 DEF NoTorrent
    <3> QED
      BY <1>3, <3>1 DEF Publish, PublishStatus
  <2>2. \A c \in Trackers : seeders(torrents'[c]) = seeders(torrents[c])
    BY <1>1, <1>2, <1>3, PublishSeeders
  <2> QED
    BY <1>2, <2>1, <2>2, Stutters DEF Registry!rvars
<1>4. CASE tp[t].peers[p] = "none"
  <2>1. published' = published \cup {<<a, t, p>>}
    BY <1>4 DEF Publish, PublishStatus
  <2>2. originatedFacts' = [originatedFacts EXCEPT ![a] = @ \cup {<<t, p>>}]
    <3>1. \A c \in Trackers, f \in Facts :
            <<c, f[1], f[2]>> \in published' <=>
              (<<c, f[1], f[2]>> \in published \/ (c = a /\ f = <<t, p>>))
      BY <2>1 DEF Facts
    <3>2. <<t, p>> \in Facts
      BY DEF Facts
    <3> QED
      BY <3>1, <3>2 DEF originatedFacts
  <2>3. viewFacts' = [viewFacts EXCEPT ![a] = @ \cup {<<t, p>>}]
    <3>1. seeders(publishTorrent(tp, t, p)) = seeders(tp) \cup {<<t, p>>}
      BY <1>1, <1>4, PublishSeeders
    <3> QED
      BY <1>1, <1>2, <3>1 DEF viewFacts
  <2>4. writtenFacts' = writtenFacts
    BY <1>2 DEF writtenFacts
  <2> QED
    BY <2>2, <2>3, <2>4 DEF Registry!Originate
<1> QED
  BY <1>3, <1>4

\* Announce is Withdraw, or a stutter.
LEMMA AnnounceRefines ==
  ASSUME MsgInv, NEW a \in Trackers, NEW t \in Torrents, NEW p \in Peers,
         NEW event \in AnnounceEvents, Announce(a, t, p, event)
  PROVE  Registry!Withdraw(a, <<t, p>>) \/ UNCHANGED Registry!rvars
<1> DEFINE tp == torrents[a]
           new == torrents'[a]
<1>1. tp \in [Torrents -> TorrentTk] /\ torrents \in [Trackers -> [Torrents -> TorrentTk]]
  BY DEF MsgInv, TypeOK
<1>2. /\ disk' = disk /\ published' = published
      /\ torrents' = [torrents EXCEPT ![a] = new]
      /\ new[t] = afterEvent(tp[t], p, event)
      /\ \A s \in Torrents : s # t => new[s] = tp[s]
  BY <1>1 DEF Announce
<1> HIDE DEF tp, new
<1>3. seeders(new) = seeders(tp) \/ seeders(new) = seeders(tp) \ {<<t, p>>}
  <2>1. /\ tp \in [Torrents -> TorrentTk]
        /\ t \in Torrents /\ p \in Peers /\ event \in AnnounceEvents
        /\ new[t] = afterEvent(tp[t], p, event)
        /\ \A s \in Torrents : s # t => new[s] = tp[s]
    BY <1>1, <1>2
  <2> QED
    BY ONLY <2>1, AnnounceSeeders
<1> USE DEF tp
<1>4. CASE seeders(new) = seeders(tp)
  <2>1. \A c \in Trackers : seeders(torrents'[c]) = seeders(torrents[c])
    BY <1>1, <1>2, <1>4
  <2> QED
    BY <1>2, <2>1, Stutters DEF Registry!rvars
<1>5. CASE seeders(new) = seeders(tp) \ {<<t, p>>}
  <2>1. viewFacts' = [viewFacts EXCEPT ![a] = @ \ {<<t, p>>}]
    BY <1>1, <1>2, <1>5 DEF viewFacts
  <2>2. originatedFacts' = originatedFacts /\ writtenFacts' = writtenFacts
    BY <1>2 DEF originatedFacts, writtenFacts
  <2> QED
    BY <2>1, <2>2 DEF Registry!Withdraw
<1> QED
  BY <1>3, <1>4, <1>5

\* RePublish is Learn, or a stutter when the peer is listed already.
LEMMA RePublishRefines ==
  ASSUME MsgInv, NEW m \in msgs, RePublish(m)
  PROVE  \/ m.from \in Trackers /\ m.to \in Trackers /\ <<m.torrent, m.peer>> \in Facts
            /\ Registry!Learn(m.to, m.from, <<m.torrent, m.peer>>)
         \/ UNCHANGED Registry!rvars
<1> DEFINE tp == torrents[m.to]
           f == <<m.torrent, m.peer>>
<1>1. m.from \in Trackers /\ m.to \in Trackers /\ m.torrent \in Torrents /\ m.peer \in Peers
  BY DEF MsgInv, TypeOK, Message, RePublish
<1>2. /\ Key[m.to] = Key[m.from]
      /\ <<m.from, m.torrent, m.peer>> \in published
  BY DEF MsgInv, KeysAgree, OneHop, RePublish
<1>3. tp \in [Torrents -> TorrentTk] /\ torrents \in [Trackers -> [Torrents -> TorrentTk]]
  BY <1>1 DEF MsgInv, TypeOK
<1>4. /\ disk' = disk /\ published' = published
      /\ torrents' = [torrents EXCEPT ![m.to] = publishTorrent(tp, m.torrent, m.peer)]
  BY <1>2 DEF RePublish, SameKey, history
<1>5. CASE tp[m.torrent].peers[m.peer] # "none"
  <2>1. \A c \in Trackers : seeders(torrents'[c]) = seeders(torrents[c])
    BY <1>1, <1>3, <1>4, <1>5, PublishSeeders
  <2> QED
    BY <1>4, <2>1, Stutters DEF Registry!rvars
<1>6. CASE tp[m.torrent].peers[m.peer] = "none"
  <2>1. viewFacts' = [viewFacts EXCEPT ![m.to] = @ \cup {f}]
    <3>1. seeders(publishTorrent(tp, m.torrent, m.peer)) = seeders(tp) \cup {f}
      BY <1>1, <1>3, <1>6, PublishSeeders
    <3> QED
      BY <1>1, <1>3, <1>4, <3>1 DEF viewFacts
  <2>2. originatedFacts' = originatedFacts /\ writtenFacts' = writtenFacts
    BY <1>4 DEF originatedFacts, writtenFacts
  <2>3. f \in Facts /\ f \in originatedFacts[m.from]
    BY <1>1, <1>2 DEF originatedFacts, Facts
  <2> QED
    BY <1>1, <1>2, <2>1, <2>2, <2>3 DEF Registry!Learn
<1> QED
  BY <1>5, <1>6

\* Writing a file is Checkpoint or a stutter.
LEMMA SaveRefines ==
  ASSUME MsgInv, NEW a \in Trackers, SaveBegin(a) \/ Save(a)
  PROVE  Registry!Checkpoint(a) \/ UNCHANGED Registry!rvars
<1>1. published' = published /\ torrents' = torrents
  BY DEF SaveBegin, Save, SaveTruncate, SaveWrite, mem, history
<1>2. disk \in [Trackers -> [torrents : TorrentsFile, bk : BkFile]]
  BY DEF MsgInv, TypeOK
<1>3. CASE SaveBegin(a)
  BY <1>1, <1>3, Stutters DEF SaveBegin, Registry!rvars
<1>4. ASSUME NEW f \in Files, SaveTruncate(a, f), f # "torrents"
      PROVE  UNCHANGED Registry!rvars
  <2>1. \A c \in Trackers : disk'[c].torrents = disk[c].torrents
    BY <1>2, <1>4 DEF SaveTruncate
  <2> QED
    BY <1>1, <2>1, Stutters DEF Registry!rvars
<1>5. ASSUME NEW f \in Files, SaveWrite(a, f)
      PROVE  UNCHANGED Registry!rvars
  <2>1. disk[a].torrents \in TorrentsFile
    BY <1>2
  <2>2. [disk[a].torrents EXCEPT !.whole = TRUE].val = disk[a].torrents.val
    BY <2>1 DEF TorrentsFile
  <2>3. \A c \in Trackers : disk'[c].torrents.val = disk[c].torrents.val
    BY <1>2, <1>5, <2>2 DEF SaveWrite
  <2> QED
    BY <1>1, <2>3, Stutters DEF Registry!rvars
<1>6. ASSUME SaveTruncate(a, "torrents") PROVE Registry!Checkpoint(a)
  <2> DEFINE S == seeders(marshalTorrents(torrents[a]))
  <2>1. S \in SUBSET viewFacts[a]
    BY FileSeeders DEF viewFacts, MsgInv, TypeOK
  <2>2. /\ disk'[a].torrents.val = marshalTorrents(torrents[a])
        /\ \A c \in Trackers : c # a => disk'[c] = disk[c]
    BY <1>2, <1>6 DEF SaveTruncate
  <2>3. writtenFacts' = [writtenFacts EXCEPT ![a] = S]
    BY <2>2 DEF writtenFacts
  <2>4. originatedFacts' = originatedFacts /\ viewFacts' = viewFacts
    BY <1>1 DEF originatedFacts, viewFacts
  <2> QED
    BY <2>1, <2>3, <2>4 DEF Registry!Checkpoint
<1> QED
  BY <1>3, <1>4, <1>5, <1>6 DEF Save

\* The end and the start of a process are Restart.
LEMMA RestartRefines ==
  ASSUME MsgInv, NEW a \in Trackers, NEW load \in BOOLEAN, Die(a) \/ Start(a, load)
  PROVE  Registry!Restart(a)
<1> DEFINE S == seeders(torrents'[a])
<1>1. /\ published' = published /\ disk' = disk
      /\ \A c \in Trackers : c # a => torrents'[c] = torrents[c]
      /\ torrents'[a] \in {NoTorrents, loadTorrents(a)}
  BY DEF Die, Start, history, MsgInv, TypeOK
<1>2. S \in SUBSET writtenFacts[a]
  BY <1>1, FileSeeders DEF writtenFacts, loadTorrents
<1>3. viewFacts' = [viewFacts EXCEPT ![a] = S]
  BY <1>1 DEF viewFacts
<1>4. originatedFacts' = originatedFacts /\ writtenFacts' = writtenFacts
  BY <1>1 DEF originatedFacts, writtenFacts
<1> QED
  BY <1>2, <1>3, <1>4 DEF Registry!Restart

\* Each step of the network is a step of the registry or changes no fact.
LEMMA StepRefines ==
  ASSUME MsgInv, [Next]_vars
  PROVE  [Registry!RegistryNext]_(Registry!rvars)
<1>1. ASSUME NEW a \in Trackers, NEW t \in Torrents, NEW p \in Peers,
             NEW event \in AnnounceEvents, Announce(a, t, p, event)
      PROVE  [Registry!RegistryNext]_(Registry!rvars)
  <2>1. <<t, p>> \in Registry!Facts
    BY DEF Registry!Facts
  <2> QED
    BY <1>1, <2>1, AnnounceRefines DEF Registry!RegistryNext
<1>2. ASSUME NEW a \in Trackers, PeerRequest(a)
      PROVE  [Registry!RegistryNext]_(Registry!rvars)
  <2>1. ASSUME Scrape(a) \/ \E t \in Torrents : AnnounceUnknown(a, t)
        PROVE  UNCHANGED Registry!rvars
    BY <2>1, Stutters DEF Scrape, AnnounceUnknown, vars, Registry!rvars
  <2>2. ASSUME NEW t \in Torrents, NEW p \in Peers, Publish(a, t, p)
        PROVE  [Registry!RegistryNext]_(Registry!rvars)
    <3>1. <<t, p>> \in Registry!Facts
      BY DEF Registry!Facts
    <3> QED
      BY <2>2, <3>1, PublishRefines DEF Registry!RegistryNext
  <2>3. ASSUME NEW t \in Torrents, NEW p \in Peers, NEW event \in AnnounceEvents,
               AnnouncePanic(a, t, p, event)
        PROVE  [Registry!RegistryNext]_(Registry!rvars)
    BY <2>3, RestartRefines DEF AnnouncePanic, Registry!RegistryNext
  <2> QED
    BY <1>2, <2>1, <2>2, <2>3 DEF PeerRequest
<1>3. ASSUME NEW a \in Trackers, SaveBegin(a) \/ Save(a)
      PROVE  [Registry!RegistryNext]_(Registry!rvars)
  BY <1>3, SaveRefines DEF Registry!RegistryNext
<1>4. ASSUME NEW a \in Trackers, Crash(a)
      PROVE  [Registry!RegistryNext]_(Registry!rvars)
  BY <1>4, RestartRefines DEF Crash, Registry!RegistryNext
<1>5. ASSUME NEW a \in Trackers, NEW load \in BOOLEAN, Start(a, load)
      PROVE  [Registry!RegistryNext]_(Registry!rvars)
  BY <1>5, RestartRefines DEF Registry!RegistryNext
<1>6. ASSUME NEW a \in Trackers, NEW b \in Trackers, PutBk(a, b) \/ KnowMeTimeout(a, b)
      PROVE  UNCHANGED Registry!rvars
  BY <1>6, Stutters DEF PutBk, KnowMeTimeout, history, Registry!rvars
<1>7. ASSUME NEW m \in msgs, Deliver(m) \/ Lose(m)
      PROVE  [Registry!RegistryNext]_(Registry!rvars)
  <2>1. CASE RePublish(m)
    BY <2>1, RePublishRefines DEF Registry!RegistryNext, Registry!Facts, Facts
  <2>2. CASE ~RePublish(m)
    <3>1. torrents' = torrents /\ disk' = disk /\ published' = published
      BY <1>7, <2>2 DEF Deliver, Lose, KnowMeBadIP, KnowMeBadKey, KnowMeFound, KnowMe,
                        KnowMeAnswered, mem, history
    <3> QED
      BY <3>1, Stutters DEF Registry!rvars
  <2> QED
    BY <2>1, <2>2
<1>8. CASE UNCHANGED vars
  BY <1>8, Stutters DEF vars, Registry!rvars
<1> QED
  BY <1>1, <1>2, <1>3, <1>4, <1>5, <1>6, <1>7, <1>8 DEF Next

\* The network of trackers implements the registry.
THEOREM Refinement == Spec => ImplementsRegistry
<1>1. Init => Registry!RegistryInit
  BY FileSeeders DEF Init, Registry!RegistryInit, originatedFacts, viewFacts, writtenFacts
<1>2. MsgInv /\ [Next]_vars => [Registry!RegistryNext]_(Registry!rvars)
  BY StepRefines
<1> QED
  BY <1>1, <1>2, MessagesAgree, PTL DEF Spec, ImplementsRegistry, Registry!RegistrySpec

\* A seeder a tracker names was published at a tracker with its key.  The
\* inductive form, Registry!Sound, speaks of the files as well.
THEOREM Provenance == Spec => []SeederProvenance
<1>1. Init => Registry!Sound
  BY FileSeeders DEF Init, Registry!Sound, viewFacts, writtenFacts
<1>2. Registry!Sound /\ [Registry!RegistryNext]_(Registry!rvars) => Registry!Sound'
  <2> SUFFICES ASSUME Registry!Sound, [Registry!RegistryNext]_(Registry!rvars)
               PROVE  Registry!Sound'
    OBVIOUS
  <2>0. /\ originatedFacts = [a \in Trackers |-> originatedFacts[a]]
        /\ viewFacts = [a \in Trackers |-> viewFacts[a]]
        /\ writtenFacts = [a \in Trackers |-> writtenFacts[a]]
    BY DEF originatedFacts, viewFacts, writtenFacts
  <2>1. ASSUME NEW a \in Trackers, Registry!Checkpoint(a) PROVE Registry!Sound'
    BY <2>0, <2>1 DEF Registry!Sound, Registry!Checkpoint
  <2>2. ASSUME NEW a \in Trackers, Registry!Restart(a) PROVE Registry!Sound'
    BY <2>0, <2>2 DEF Registry!Sound, Registry!Restart
  <2>3. ASSUME NEW a \in Trackers, NEW f, Registry!Originate(a, f) PROVE Registry!Sound'
    BY <2>0, <2>3 DEF Registry!Sound, Registry!Originate
  <2>4. ASSUME NEW a \in Trackers, NEW f, Registry!Withdraw(a, f) PROVE Registry!Sound'
    BY <2>0, <2>4 DEF Registry!Sound, Registry!Withdraw
  <2>5. ASSUME NEW a \in Trackers, NEW b \in Trackers, NEW f, Registry!Learn(a, b, f)
        PROVE  Registry!Sound'
    BY <2>0, <2>5 DEF Registry!Sound, Registry!Learn
  <2>6. CASE UNCHANGED Registry!rvars
    BY <2>6 DEF Registry!Sound, Registry!rvars
  <2> QED
    BY <2>1, <2>2, <2>3, <2>4, <2>5, <2>6 DEF Registry!RegistryNext
<1>3. Registry!Sound => SeederProvenance
  <2> SUFFICES ASSUME Registry!Sound, NEW a \in Trackers, NEW t \in Torrents, NEW p \in Peers,
                      torrents[a][t].peers[p] = "seeder"
               PROVE  \E b \in Trackers : Key[b] = Key[a] /\ <<b, t, p>> \in published
    BY DEF SeederProvenance
  <2>1. <<t, p>> \in viewFacts[a]
    BY DEF viewFacts, seeders, Facts
  <2>2. PICK b \in Trackers : Key[a] = Key[b] /\ <<t, p>> \in originatedFacts[b]
    BY <2>1 DEF Registry!Sound
  <2> QED
    BY <2>2 DEF originatedFacts
<1> QED
  BY <1>1, <1>2, <1>3, Refinement, PTL DEF Spec, ImplementsRegistry, Registry!RegistrySpec

-------------------------------------------------------------------------------
(* What a leaked lock, a peer that has stopped and a save under way keep a
   tracker from doing. *)

\* A process that ended has neither torrents nor a lock; the lock cannot leak
\* while saveData holds it.
Quiet(a) ==
  /\ ~up[a] => torrents[a] = NoTorrents /\ ~frozen[a] /\ saving[a] = Idle
  /\ frozen[a] => saving[a] = Idle

\* saveData has the read lock: a file it is done with is whole, and one it has
\* begun holds what is in memory.
BkWritten(a) ==
  /\ saving[a]["bk"] # "todo" => disk[a].bk.val = bk[a]
  /\ saving[a]["bk"] = "idle" => disk[a].bk.whole

TorrentsWritten(a) ==
  /\ saving[a]["torrents"] # "todo" =>
       \A t \in TextHashes : (disk[a].torrents.val[t] = NoTorrent) <=> ~Known(a, t)
  /\ saving[a]["torrents"] = "idle" => disk[a].torrents.whole

Consistent(a) == saving[a] # Idle => BkWritten(a) /\ TorrentsWritten(a)

LockInv == TypeOK /\ \A a \in Trackers : Quiet(a) /\ Consistent(a)

\* What a step may do to one tracker.
Same(a) ==
  /\ up'[a] = up[a] /\ torrents'[a] = torrents[a] /\ bk'[a] = bk[a]
  /\ frozen'[a] = frozen[a] /\ saving'[a] = saving[a] /\ disk'[a] = disk[a]

\* A granted announce: nothing but the state of peers that are listed.
Announced(a) ==
  /\ RLockFree(a)
  /\ up'[a] = up[a] /\ bk'[a] = bk[a] /\ frozen'[a] = frozen[a]
  /\ saving'[a] = saving[a] /\ disk'[a] = disk[a]
  /\ \A t \in Torrents : (torrents'[a][t] = NoTorrent) <=> (torrents[a][t] = NoTorrent)
  /\ \A t \in Torrents, p \in Peers :
       torrents[a][t].peers[p] = "stopped" =>
         torrents'[a][t].peers[p] \in {"stopped", "started"}

\* A handler that has the lock: a publish, or another tracker.
Locked(a) ==
  /\ LockFree(a)
  /\ up'[a] = up[a] /\ saving'[a] = saving[a] /\ disk'[a] = disk[a]
  /\ \A t \in Torrents, p \in Peers :
       torrents[a][t].peers[p] = "stopped" => torrents'[a][t].peers[p] = "stopped"

\* A step of saveData.
Saving(a) ==
  /\ up'[a] = up[a] /\ torrents'[a] = torrents[a] /\ bk'[a] = bk[a] /\ frozen'[a] = frozen[a]
  /\ \/ RLockFree(a) /\ saving[a] = Idle /\ saving'[a] = [f \in Files |-> "todo"]
        /\ disk'[a] = disk[a]
     \/ \E f \in Files : SaveTruncate(a, f) \/ SaveWrite(a, f)

\* A process ends, or starts.
Restarted(a) ==
  \/ ~up'[a] /\ torrents'[a] = NoTorrents /\ ~frozen'[a] /\ saving'[a] = Idle
  \/ ~up[a] /\ up'[a] /\ frozen'[a] = frozen[a] /\ saving'[a] = saving[a]

Step(a) == Same(a) \/ Announced(a) \/ Locked(a) \/ Saving(a) \/ Restarted(a)

\* Publish and RePublish leave a peer that stopped as it is.
LEMMA PublishKeepsStopped ==
  ASSUME NEW tp \in [Torrents -> TorrentTk], NEW t \in Torrents, NEW p \in Peers,
         NEW u \in Torrents, NEW q \in Peers, tp[u].peers[q] = "stopped"
  PROVE  publishTorrent(tp, t, p)[u].peers[q] = "stopped"
BY DEF publishTorrent, TorrentTk

\* An announce that is granted neither adds nor removes a torrent, and a peer
\* that stopped is stopped or started behind it.
LEMMA AnnounceKeeps ==
  ASSUME NEW ttk \in TorrentTk, NEW p \in Peers, NEW event \in AnnounceEvents,
         ttk # NoTorrent, ~Panics(ttk, p, event)
  PROVE  /\ afterEvent(ttk, p, event) # NoTorrent
         /\ \A q \in Peers : ttk.peers[q] = "stopped" =>
              afterEvent(ttk, p, event).peers[q] \in {"stopped", "started"}
<1>1. CASE event \in {"started", "stopped"}
  <2>1. afterEvent(ttk, p, event) = [ttk EXCEPT !.peers[p] = event]
    BY <1>1 DEF afterEvent
  <2>2. afterEvent(ttk, p, event).peers = [ttk.peers EXCEPT ![p] = event]
    BY <2>1 DEF TorrentTk
  <2>3. afterEvent(ttk, p, event).peers[p] = event
    BY <2>2 DEF TorrentTk
  <2>4. NoTorrent.peers[p] = "none"
    BY DEF NoTorrent
  <2> QED
    BY <1>1, <2>2, <2>3, <2>4 DEF TorrentTk
<1>2. CASE event \notin {"started", "stopped"}
  BY <1>2 DEF afterEvent, AnnounceEvents
<1> QED
  BY <1>1, <1>2

\* Each step of the network is, for each tracker, of one of the kinds above.
LEMMA Kinds ==
  ASSUME TypeOK, [Next]_vars, NEW a \in Trackers
  PROVE  Step(a)
<1>1. ASSUME NEW b \in Trackers, NEW t \in Torrents, NEW p \in Peers,
             NEW event \in AnnounceEvents, Announce(b, t, p, event)
      PROVE  Step(a)
  <2>1. torrents[b][t] \in TorrentTk /\ torrents[b][t] # NoTorrent
    BY <1>1 DEF Announce, Known, TypeOK
  <2>2. ~Panics(torrents[b][t], p, event)
    BY <1>1 DEF Announce
  <2>3. /\ afterEvent(torrents[b][t], p, event) # NoTorrent
        /\ \A q \in Peers : torrents[b][t].peers[q] = "stopped" =>
             afterEvent(torrents[b][t], p, event).peers[q] \in {"stopped", "started"}
    BY <2>1, <2>2, AnnounceKeeps
  <2>4. CASE a = b
    <3>1. \A u \in Torrents : torrents'[a][u] = IF u = t THEN afterEvent(torrents[a][t], p, event)
                                                ELSE torrents[a][u]
      BY <1>1, <2>4 DEF Announce, TypeOK
    <3> QED
      BY <1>1, <2>1, <2>3, <2>4, <3>1 DEF Announce, Step, Announced
  <2>5. CASE a # b
    BY <1>1, <2>5 DEF Announce, Step, Same, TypeOK
  <2> QED
    BY <2>4, <2>5
<1>2. ASSUME NEW b \in Trackers, PeerRequest(b) PROVE Step(a)
  <2>1. ASSUME NEW t \in Torrents, NEW p \in Peers, Publish(b, t, p) PROVE Step(a)
    <3>1. CASE a = b
      <4>1. torrents'[a] = publishTorrent(torrents[a], t, p)
        BY <2>1, <3>1 DEF Publish, TypeOK
      <4>2. \A u \in Torrents, q \in Peers :
              torrents[a][u].peers[q] = "stopped" => torrents'[a][u].peers[q] = "stopped"
        <5>1. torrents[a] \in [Torrents -> TorrentTk]
          BY DEF TypeOK
        <5> QED
          BY <4>1, <5>1, PublishKeepsStopped
      <4> QED
        BY <2>1, <3>1, <4>2 DEF Publish, Step, Locked
    <3>2. CASE a # b
      BY <2>1, <3>2 DEF Publish, Step, Same, TypeOK
    <3> QED
      BY <3>1, <3>2
  <2>2. ASSUME Scrape(b) \/ \E t \in Torrents : AnnounceUnknown(b, t) PROVE Step(a)
    BY <2>2 DEF Scrape, AnnounceUnknown, vars, Step, Same
  <2>3. ASSUME NEW t \in Torrents, NEW p \in Peers, NEW event \in AnnounceEvents,
               AnnouncePanic(b, t, p, event)
        PROVE  Step(a)
    BY <2>3 DEF AnnouncePanic, Die, Step, Same, Restarted, TypeOK
  <2> QED
    BY <1>2, <2>1, <2>2, <2>3 DEF PeerRequest
<1>3. ASSUME NEW b \in Trackers, SaveBegin(b) PROVE Step(a)
  BY <1>3 DEF SaveBegin, mem, Step, Same, Saving, TypeOK
<1>4. ASSUME NEW b \in Trackers, Save(b) PROVE Step(a)
  <2>1. PICK f \in Files : SaveTruncate(b, f) \/ SaveWrite(b, f)
    BY <1>4 DEF Save
  <2>2. UNCHANGED <<up, torrents, bk, frozen>>
    BY <2>1 DEF SaveTruncate, SaveWrite, mem
  <2>3. CASE a = b
    BY <2>1, <2>2, <2>3 DEF Step, Saving
  <2>4. CASE a # b
    <3>1. saving'[a] = saving[a] /\ disk'[a] = disk[a]
      BY <2>1, <2>4 DEF SaveTruncate, SaveWrite, TypeOK
    <3> QED
      BY <2>2, <3>1 DEF Step, Same
  <2> QED
    BY <2>3, <2>4
<1>5. ASSUME NEW b \in Trackers, Crash(b) PROVE Step(a)
  BY <1>5 DEF Crash, Die, Step, Same, Restarted, TypeOK
<1>6. ASSUME NEW b \in Trackers, NEW load \in BOOLEAN, Start(b, load) PROVE Step(a)
  BY <1>6 DEF Start, Step, Same, Restarted, TypeOK
<1>7. ASSUME NEW b \in Trackers, NEW c \in Trackers, PutBk(b, c) \/ KnowMeTimeout(b, c)
      PROVE  Step(a)
  BY <1>7 DEF PutBk, KnowMeTimeout, Step, Same, Locked, TypeOK
<1>8. ASSUME NEW m \in msgs, Deliver(m) \/ Lose(m) PROVE Step(a)
  <2>1. CASE RePublish(m)
    <3>1. m.to \in Trackers /\ m.torrent \in Torrents /\ m.peer \in Peers
      <4>1. m \in Message /\ m.type = "RePublish"
        BY <2>1 DEF RePublish, TypeOK
      <4> QED
        BY <4>1 DEF Message
    <3>2. CASE a = m.to
      <4>1. \/ torrents'[a] = torrents[a]
            \/ torrents'[a] = publishTorrent(torrents[a], m.torrent, m.peer)
        BY <2>1, <3>2 DEF RePublish, TypeOK
      <4>2. \A u \in Torrents, q \in Peers :
              torrents[a][u].peers[q] = "stopped" => torrents'[a][u].peers[q] = "stopped"
        <5>1. torrents[a] \in [Torrents -> TorrentTk]
          BY DEF TypeOK
        <5>2. \A u \in Torrents, q \in Peers : torrents[a][u].peers[q] = "stopped" =>
                publishTorrent(torrents[a], m.torrent, m.peer)[u].peers[q] = "stopped"
          BY <3>1, <5>1, PublishKeepsStopped
        <5> QED
          BY <4>1, <5>2
      <4>3. LockFree(a) /\ up' = up /\ saving' = saving /\ disk' = disk
        BY <2>1, <3>2 DEF RePublish
      <4> QED
        BY <4>2, <4>3 DEF Step, Locked
    <3>3. CASE a # m.to
      BY <2>1, <3>3 DEF RePublish, Step, Same, TypeOK
    <3> QED
      BY <3>2, <3>3
  <2>2. CASE KnowMeBadKey(m) \/ KnowMeFound(m) \/ KnowMe(m)
    BY <2>2 DEF KnowMeBadKey, KnowMeFound, KnowMe, Step, Same, Locked, TypeOK
  <2>3. CASE KnowMeBadIP(m) \/ KnowMeAnswered(m) \/ Lose(m)
    BY <2>3 DEF KnowMeBadIP, KnowMeAnswered, Lose, mem, Step, Same
  <2> QED
    BY <1>8, <2>1, <2>2, <2>3 DEF Deliver
<1>9. CASE UNCHANGED vars
  BY <1>9 DEF vars, Step, Same
<1> QED
  BY <1>1, <1>2, <1>3, <1>4, <1>5, <1>6, <1>7, <1>8, <1>9 DEF Next

\* A step of saveData leaves on disk what is in memory.
LEMMA SaveWrites ==
  ASSUME TypeOK, NEW a \in Trackers, NEW f \in Files, SaveTruncate(a, f) \/ SaveWrite(a, f),
         BkWritten(a), TorrentsWritten(a)
  PROVE  /\ BkWritten(a)' /\ TorrentsWritten(a)'
         /\ up[a] /\ saving[a] # Idle
<1>1. /\ saving[a] \in [Files -> {"idle", "todo", "open"}]
      /\ disk[a].torrents \in TorrentsFile /\ disk[a].bk \in BkFile
  BY DEF TypeOK
<1>2. torrents' = torrents /\ bk' = bk
  BY DEF SaveTruncate, SaveWrite, mem
<1>3. CASE SaveTruncate(a, f)
  <2>1. up[a] /\ saving[a][f] = "todo" /\ saving'[a] = [saving[a] EXCEPT ![f] = "open"]
    BY <1>3 DEF SaveTruncate, TypeOK
  <2>2. CASE f = "torrents"
    <3>1. /\ disk'[a].bk = disk[a].bk
          /\ disk'[a].torrents = [whole |-> FALSE, val |-> marshalTorrents(torrents[a])]
      BY <1>3, <2>2 DEF SaveTruncate, TypeOK
    <3>2. \A t \in TextHashes : disk'[a].torrents.val[t] = torrents[a][t]
      BY <3>1, ConstantsAssumption DEF marshalTorrents
    <3>3. saving'[a]["bk"] = saving[a]["bk"] /\ saving'[a]["torrents"] = "open"
      BY <1>1, <2>1, <2>2 DEF Files
    <3> QED
      BY <1>2, <2>1, <2>2, <3>1, <3>2, <3>3 DEF BkWritten, TorrentsWritten, Known, Idle, Files
  <2>3. CASE f = "bk"
    <3>1. /\ disk'[a].torrents = disk[a].torrents
          /\ disk'[a].bk = [whole |-> FALSE, val |-> bk[a]]
      BY <1>3, <2>3 DEF SaveTruncate, TypeOK
    <3>2. saving'[a]["torrents"] = saving[a]["torrents"] /\ saving'[a]["bk"] = "open"
      BY <1>1, <2>1, <2>3 DEF Files
    <3> QED
      BY <1>2, <2>1, <2>3, <3>1, <3>2 DEF BkWritten, TorrentsWritten, Known, Idle, Files
  <2> QED
    BY <2>2, <2>3 DEF Files
<1>4. CASE SaveWrite(a, f)
  <2>1. up[a] /\ saving[a][f] = "open" /\ saving'[a] = [saving[a] EXCEPT ![f] = "idle"]
    BY <1>4 DEF SaveWrite, TypeOK
  <2>2. CASE f = "torrents"
    <3>1. /\ disk'[a].bk = disk[a].bk
          /\ disk'[a].torrents = [disk[a].torrents EXCEPT !.whole = TRUE]
      BY <1>4, <2>2 DEF SaveWrite, TypeOK
    <3>2. disk'[a].torrents.val = disk[a].torrents.val /\ disk'[a].torrents.whole
      BY <1>1, <3>1 DEF TorrentsFile
    <3>3. saving'[a]["bk"] = saving[a]["bk"] /\ saving'[a]["torrents"] = "idle"
      BY <1>1, <2>1, <2>2 DEF Files
    <3> QED
      BY <1>2, <2>1, <2>2, <3>1, <3>2, <3>3 DEF BkWritten, TorrentsWritten, Known, Idle, Files
  <2>3. CASE f = "bk"
    <3>1. /\ disk'[a].torrents = disk[a].torrents
          /\ disk'[a].bk = [disk[a].bk EXCEPT !.whole = TRUE]
      BY <1>4, <2>3 DEF SaveWrite, TypeOK
    <3>2. disk'[a].bk.val = disk[a].bk.val /\ disk'[a].bk.whole
      BY <1>1, <3>1 DEF BkFile
    <3>3. saving'[a]["torrents"] = saving[a]["torrents"] /\ saving'[a]["bk"] = "idle"
      BY <1>1, <2>1, <2>3 DEF Files
    <3> QED
      BY <1>2, <2>1, <2>3, <3>1, <3>2, <3>3 DEF BkWritten, TorrentsWritten, Known, Idle, Files
  <2> QED
    BY <2>2, <2>3 DEF Files
<1> QED
  BY <1>3, <1>4

\* The invariant of one tracker holds behind each step.
LEMMA LockStep ==
  ASSUME LockInv, [Next]_vars, NEW a \in Trackers
  PROVE  Quiet(a)' /\ Consistent(a)'
<1>1. TypeOK /\ Quiet(a) /\ Consistent(a)
  BY DEF LockInv
<1>2. CASE Same(a)
  BY <1>1, <1>2 DEF Same, Quiet, Consistent, BkWritten, TorrentsWritten, Known
<1>3. CASE Announced(a)
  <2>1. Quiet(a)'
    BY <1>3 DEF Announced, RLockFree, Quiet
  <2>2. \A t \in TextHashes : Known(a, t)' <=> Known(a, t)
    BY <1>3, ConstantsAssumption DEF Announced, Known
  <2> QED
    BY <1>1, <1>3, <2>1, <2>2 DEF Announced, Consistent, BkWritten, TorrentsWritten
<1>4. CASE Locked(a)
  BY <1>4 DEF Locked, LockFree, Quiet, Consistent
<1>5. CASE Saving(a)
  <2>1. CASE RLockFree(a) /\ saving'[a] = [f \in Files |-> "todo"]
    BY <1>5, <2>1 DEF Saving, RLockFree, Quiet, Consistent, BkWritten, TorrentsWritten, Files
  <2>2. ASSUME NEW f \in Files, SaveTruncate(a, f) \/ SaveWrite(a, f)
        PROVE  Quiet(a)' /\ Consistent(a)'
    <3>1. saving[a] # Idle
      BY <2>2 DEF SaveTruncate, SaveWrite, Idle
    <3>2. up[a] /\ BkWritten(a)' /\ TorrentsWritten(a)'
      BY <1>1, <2>2, <3>1, SaveWrites DEF Consistent
    <3>3. ~frozen[a] /\ up'[a] /\ ~frozen'[a]
      BY <1>1, <1>5, <3>1, <3>2 DEF Quiet, Saving
    <3> QED
      BY <3>2, <3>3 DEF Quiet, Consistent
  <2> QED
    BY <1>5, <2>1, <2>2 DEF Saving
<1>6. CASE Restarted(a)
  BY <1>1, <1>6 DEF Restarted, Quiet, Consistent
<1> QED
  BY <1>1, <1>2, <1>3, <1>4, <1>5, <1>6, Kinds DEF Step

\* The locks and the files agree in every reachable state.
THEOREM LocksAgree == Spec => []LockInv
<1>1. Init => \A a \in Trackers : Quiet(a) /\ Consistent(a)
  BY DEF Init, Quiet, Consistent
<1>2. ASSUME TypeOK, TypeOK', LockInv, [Next]_vars PROVE LockInv'
  BY <1>2, LockStep DEF LockInv
<1>3. TypeOK /\ (\A a \in Trackers : Quiet(a) /\ Consistent(a)) => LockInv
  BY DEF LockInv
<1> QED
  BY <1>1, <1>2, <1>3, TypeCorrect, PTL DEF Spec

\* No late RePublish and no second Publish makes a seeder of a peer that
\* stopped: publishTorrent leaves a listed peer alone, and Announce alone
\* changes its state, to "started".
THEOREM StoppedIsKept == Spec => StoppedStays
<1>1. ASSUME LockInv, [Next]_vars, NEW a \in Trackers, NEW t \in Torrents, NEW p \in Peers,
             torrents[a][t].peers[p] = "stopped", up'[a]
      PROVE  torrents'[a][t].peers[p] \in {"stopped", "started"}
  <2>1. TypeOK /\ Quiet(a)
    BY <1>1 DEF LockInv
  <2>2. up[a]
    <3>1. NoTorrents[t].peers[p] = "none"
      BY DEF NoTorrents, NoTorrent
    <3> QED
      BY <1>1, <2>1, <3>1 DEF Quiet
  <2>3. Step(a)
    BY <1>1, <2>1, Kinds
  <2> QED
    BY <1>1, <2>2, <2>3 DEF Step, Same, Announced, Locked, Saving, Restarted
<1>2. LockInv /\ [Next]_vars =>
        [\A a \in Trackers, t \in Torrents, p \in Peers :
           torrents[a][t].peers[p] = "stopped" /\ up'[a] =>
             torrents'[a][t].peers[p] \in {"stopped", "started"}]_vars
  BY <1>1
<1> QED
  BY <1>2, LocksAgree, PTL DEF Spec, StoppedStays

\* Once KnowMe returned without Unlock, nothing a tracker keeps changes while
\* its process runs: every handler that writes, and saveData, waits for ever.
THEOREM FrozenForGood == Spec => FrozenIsMute
<1>1. ASSUME LockInv, [Next]_vars, NEW a \in Trackers, frozen[a], up'[a]
      PROVE  UNCHANGED <<torrents[a], bk[a], frozen[a], disk[a], saving[a]>>
  <2>1. TypeOK /\ up[a] /\ saving[a] = Idle
    BY <1>1 DEF LockInv, Quiet
  <2>2. Step(a)
    BY <1>1, <2>1, Kinds
  <2>3. ~Announced(a) /\ ~Locked(a) /\ ~Restarted(a)
    BY <1>1, <2>1 DEF Announced, RLockFree, Locked, LockFree, Restarted
  <2>4. ~Saving(a)
    BY <1>1, <2>1 DEF Saving, RLockFree, SaveTruncate, SaveWrite, Idle
  <2> QED
    BY <2>2, <2>3, <2>4 DEF Step, Same
<1>2. LockInv /\ [Next]_vars =>
        [\A a \in Trackers : frozen[a] /\ up'[a] =>
           UNCHANGED <<torrents[a], bk[a], frozen[a], disk[a], saving[a]>>]_vars
  BY <1>1
<1> QED
  BY <1>2, LocksAgree, PTL DEF Spec, FrozenIsMute

\* When saveData lets the lock go, both files parse and hold what is in
\* memory: the handlers that publish, or add a tracker, waited for it.
THEOREM SavedTogether == Spec => SaveIsSnapshot
<1>1. ASSUME LockInv, LockInv', [Next]_vars, NEW a \in Trackers,
             saving[a] # Idle, saving'[a] = Idle, up'[a]
      PROVE  /\ disk'[a].bk = [whole |-> TRUE, val |-> bk'[a]]
             /\ disk'[a].torrents.whole
             /\ \A t \in TextHashes : (disk'[a].torrents.val[t] = NoTorrent) <=> ~Known(a, t)
  <2>1. TypeOK /\ up[a] /\ BkWritten(a) /\ TorrentsWritten(a)
    BY <1>1 DEF LockInv, Quiet, Consistent
  <2>2. Step(a)
    BY <1>1, <2>1, Kinds
  <2>3. ~Same(a) /\ ~Announced(a) /\ ~Locked(a) /\ ~Restarted(a)
    BY <1>1, <2>1 DEF Same, Announced, Locked, LockFree, Restarted
  <2>4. Saving(a)
    BY <2>2, <2>3 DEF Step
  <2>5. PICK f \in Files : SaveTruncate(a, f) \/ SaveWrite(a, f)
    BY <1>1, <2>4 DEF Saving
  <2>6. BkWritten(a)' /\ TorrentsWritten(a)'
    BY <2>1, <2>5, SaveWrites
  <2>7. saving'[a]["bk"] = "idle" /\ saving'[a]["torrents"] = "idle"
    BY <1>1 DEF Idle, Files
  <2>8. disk'[a].bk.val = bk'[a] /\ disk'[a].bk.whole /\ disk'[a].bk \in BkFile
    BY <1>1, <2>6, <2>7 DEF BkWritten, LockInv, TypeOK
  <2>9. disk'[a].bk = [whole |-> TRUE, val |-> bk'[a]]
    BY <2>8 DEF BkFile
  <2> QED
    BY <2>4, <2>6, <2>7, <2>8, <2>9 DEF TorrentsWritten, Saving, Known
<1>2. LockInv /\ LockInv' /\ [Next]_vars =>
        [\A a \in Trackers :
           saving[a] # Idle /\ saving'[a] = Idle /\ up'[a] =>
             /\ disk'[a].bk = [whole |-> TRUE, val |-> bk'[a]]
             /\ disk'[a].torrents.whole
             /\ \A t \in TextHashes :
                  (disk'[a].torrents.val[t] = NoTorrent) <=> ~Known(a, t)]_vars
  BY <1>1
<1> QED
  BY <1>2, LocksAgree, PTL DEF Spec, SaveIsSnapshot

-------------------------------------------------------------------------------
(* Replication when no message is lost. *)

\* The process of b ended after it was started for the first time.
WentDown(b) == boot[b] > 1 \/ (boot[b] = 1 /\ ~up[b])

\* A tracker that is up was started.
Booted == \A a \in Trackers : up[a] => boot[a] >= 1

\* What ReplicaReached leaves open: a tracker that was not started yet knows
\* nothing, so what is owed to it must be on its way.
OnTheWay(b, t) == \E m \in msgs : m.type = "RePublish" /\ m.to = b /\ m.torrent = t

Reached ==
  \A b \in Trackers, t \in Torrents :
    <<b, t>> \in owed => (up[b] /\ Known(b, t)) \/ OnTheWay(b, t) \/ WentDown(b)

ReachInv == MsgInv /\ Booted /\ (~Lossy => Reached)

-------------------------------------------------------------------------------
(* KnowMe calls. *)

Positive == {"OK", "ALREADYKNOWOK"}

\* A call was made by a process that was started, and that process, as long as
\* it runs, waits for the answer, or gave up.
Asked ==
  \A m \in msgs : m.type = "KnowMe" =>
    /\ 1 <= m.boot /\ m.boot <= boot[m.from]
    /\ up[m.from] /\ m.boot = boot[m.from] =>
         m.to \in pending[m.from] \/ <<m.from, m.to>> \in gaveUp

Answered == \A n \in msgs : n.type = "KnowMeReply" => n.boot <= boot[n.to]

\* A call has no answer before it was handled.
NoAnswerYet ==
  \A m, n \in msgs :
    m.type = "KnowMe" /\ n.type = "KnowMeReply" /\ n.from = m.to /\ n.to = m.from =>
      n.boot # m.boot

\* The call of the first process of b to a was handled, and approved if there is
\* still an answer.
Approved(a, b) ==
  \A m \in msgs :
    /\ m.type = "KnowMe" /\ m.from = b /\ m.to = a => m.boot # 1
    /\ m.type = "KnowMeReply" /\ m.from = a /\ m.to = b /\ m.boot = 1 => m.status \in Positive

\* The first process of b, if it still runs, notes a or will, or gave up: it
\* waits for an answer that, if it was not lost, is positive.
TakesNote(a, b) ==
  \/ WentDown(b) \/ <<b, a>> \in gaveUp
  \/ /\ boot[b] = 1
     /\ a \in bk[b] \cup bkchanel[b] \/ (a \in pending[b] /\ Approved(a, b))

\* a knows b, or is about to, or will when it is started again.
Knows(a, b) ==
  \/ b \in bk[a] \cup bkchanel[a] \cup disk[a].bk.val
  \/ \E n \in msgs : /\ n.type = "KnowMeReply" /\ n.from = b /\ n.to = a
                     /\ n.status \in Positive

Mutual == \A a, b \in Trackers : Knows(a, b) => TakesNote(a, b)

Calls == Booted /\ Asked /\ Answered /\ NoAnswerYet

KnowInv == TypeOK /\ Calls /\ Mutual

-------------------------------------------------------------------------------
(* Replication. *)

\* A torrent that was published is known, and one that is known stays known.
LEMMA PublishKnown ==
  ASSUME NEW tp \in [Torrents -> TorrentTk], NEW t \in Torrents, NEW p \in Peers
  PROVE  /\ publishTorrent(tp, t, p)[t] # NoTorrent
         /\ \A u \in Torrents : tp[u] # NoTorrent => publishTorrent(tp, t, p)[u] # NoTorrent
<1>1. publishTorrent(tp, t, p)[t].peers[p] # "none"
  BY DEF publishTorrent, TorrentTk
<1>2. NoTorrent.peers[p] = "none"
  BY DEF NoTorrent
<1>3. \A u \in Torrents \ {t} : publishTorrent(tp, t, p)[u] = tp[u]
  BY DEF publishTorrent
<1> QED
  BY <1>1, <1>2, <1>3

\* The counters of a torrent are never taken back, and a state is overwritten by
\* a state: an announce that is granted leaves the torrent known.
LEMMA AnnounceKnown ==
  ASSUME NEW ttk \in TorrentTk, NEW p \in Peers, NEW event \in AnnounceEvents,
         ttk # NoTorrent, ~Panics(ttk, p, event)
  PROVE  afterEvent(ttk, p, event) # NoTorrent
<1>1. CASE event \in {"started", "stopped"}
  <2>1. afterEvent(ttk, p, event).peers[p] = event
    BY <1>1 DEF afterEvent, TorrentTk
  <2>2. NoTorrent.peers[p] = "none"
    BY DEF NoTorrent
  <2> QED
    BY <1>1, <2>1, <2>2
<1>2. CASE event \notin {"started", "stopped"}
  BY <1>2 DEF afterEvent, AnnounceEvents
<1> QED
  BY <1>1, <1>2

\* What each step has to show.
LEMMA ReachKept ==
  ASSUME Reached, owed' \subseteq owed,
         \A b \in Trackers : WentDown(b) => WentDown(b)',
         \A b \in Trackers, t \in Torrents :
           up[b] /\ Known(b, t) => (up[b] /\ Known(b, t))' \/ WentDown(b)',
         \A b \in Trackers, t \in Torrents :
           OnTheWay(b, t) => OnTheWay(b, t)' \/ (up[b] /\ Known(b, t))'
  PROVE  Reached'
BY DEF Reached

\* A first publish is pushed to every tracker that is known.
LEMMA PublishReach ==
  ASSUME MsgInv, Reached, NEW a \in Trackers, NEW t \in Torrents, NEW p \in Peers,
         Publish(a, t, p)
  PROVE  Reached'
<1>1. /\ up' = up /\ boot' = boot /\ msgs \subseteq msgs'
  BY DEF Publish
<1>2. \A b \in Trackers, u \in Torrents : Known(b, u) => Known(b, u)'
  <2>1. torrents[a] \in [Torrents -> TorrentTk]
    BY DEF MsgInv, TypeOK
  <2>2. /\ torrents'[a] = publishTorrent(torrents[a], t, p)
        /\ \A b \in Trackers \ {a} : torrents'[b] = torrents[b]
    BY DEF MsgInv, TypeOK, Publish
  <2>3. \A u \in Torrents : Known(a, u) => Known(a, u)'
    BY <2>1, <2>2, PublishKnown DEF Known
  <2> QED
    BY <2>2, <2>3 DEF Known
<1>3. \A b \in Trackers, u \in Torrents :
        <<b, u>> \in owed' /\ <<b, u>> \notin owed => OnTheWay(b, u)'
  <2> SUFFICES ASSUME NEW b \in Trackers, NEW u \in Torrents,
                      <<b, u>> \in owed', <<b, u>> \notin owed
               PROVE  OnTheWay(b, u)'
    OBVIOUS
  <2>1. u = t /\ b \in bk[a] /\ msgs' = msgs \cup rePublishes(a, t, p)
    BY DEF Publish
  <2> DEFINE m == [type |-> "RePublish", from |-> a, to |-> b, torrent |-> t, peer |-> p]
  <2>2. m \in msgs' /\ m.type = "RePublish" /\ m.to = b /\ m.torrent = u
    BY <2>1 DEF rePublishes
  <2> HIDE DEF m
  <2> QED
    BY <2>2 DEF OnTheWay
<1> SUFFICES ASSUME NEW b \in Trackers, NEW u \in Torrents, <<b, u>> \in owed'
             PROVE  (up[b] /\ Known(b, u))' \/ OnTheWay(b, u)' \/ WentDown(b)'
  BY DEF Reached
<1>4. CASE <<b, u>> \in owed
  <2>1. (up[b] /\ Known(b, u)) \/ OnTheWay(b, u) \/ WentDown(b)
    BY <1>4 DEF Reached
  <2> QED
    BY <1>1, <1>2, <2>1 DEF OnTheWay, WentDown
<1> QED
  BY <1>3, <1>4

\* Delivery makes the torrent known: the sender's key is the receiver's.
LEMMA DeliverReach ==
  ASSUME MsgInv, Reached, ~Lossy, NEW m \in msgs, Deliver(m) \/ Lose(m)
  PROVE  Reached'
<1>1. m \in Message /\ TypeOK
  BY DEF MsgInv, TypeOK
<1>2. owed' = owed /\ up' = up /\ boot' = boot
  BY DEF Deliver, RePublish, KnowMeBadIP, KnowMeBadKey, KnowMeFound, KnowMe, KnowMeAnswered,
         Lose, mem, history
<1>3. CASE RePublish(m)
  <2>1. m.to \in Trackers /\ m.torrent \in Torrents /\ m.peer \in Peers
    BY <1>1, <1>3 DEF RePublish, Message
  <2>2. /\ up[m.to]
        /\ torrents' = [torrents EXCEPT ![m.to] = publishTorrent(@, m.torrent, m.peer)]
        /\ msgs' = msgs \ {m}
    BY <1>3 DEF RePublish, LockFree, SameKey, MsgInv, KeysAgree
  <2>3. torrents[m.to] \in [Torrents -> TorrentTk]
    BY <1>1, <2>1 DEF TypeOK
  <2>4. torrents'[m.to] = publishTorrent(torrents[m.to], m.torrent, m.peer)
    BY <1>1, <2>1, <2>2 DEF TypeOK
  <2>5. \A b \in Trackers, u \in Torrents : Known(b, u) => Known(b, u)'
    <3>1. \A u \in Torrents : Known(m.to, u) => Known(m.to, u)'
      BY <2>1, <2>3, <2>4, PublishKnown DEF Known
    <3>2. \A b \in Trackers \ {m.to} : torrents'[b] = torrents[b]
      BY <1>1, <2>2 DEF TypeOK
    <3> QED
      BY <3>1, <3>2 DEF Known
  <2>6. up'[m.to] /\ Known(m.to, m.torrent)'
    BY <1>2, <2>1, <2>2, <2>3, <2>4, PublishKnown DEF Known
  <2>7. \A b \in Trackers, u \in Torrents :
          OnTheWay(b, u) => OnTheWay(b, u)' \/ (up[b] /\ Known(b, u))'
    BY <2>2, <2>6 DEF OnTheWay
  <2> QED
    BY <1>2, <2>5, <2>7, ReachKept DEF WentDown
<1>4. CASE ~RePublish(m)
  <2>1. torrents' = torrents
    BY <1>4 DEF Deliver, KnowMeBadIP, KnowMeBadKey, KnowMeFound, KnowMe, KnowMeAnswered,
                Lose, mem
  <2>2. m.type # "RePublish" /\ msgs \ {m} \subseteq msgs'
    BY <1>4 DEF Deliver, KnowMeBadIP, KnowMeBadKey, KnowMeFound, KnowMe, KnowMeAnswered,
                Lose, Reply
  <2> QED
    BY <1>2, <2>1, <2>2, ReachKept DEF WentDown, OnTheWay, Known
<1> QED
  BY <1>3, <1>4

\* Death and start: requests on their way stay there.
LEMMA RestartReach ==
  ASSUME MsgInv, Booted, NEW a \in Trackers, NEW load \in BOOLEAN, Die(a) \/ Start(a, load)
  PROVE  Booted' /\ (Reached => Reached')
<1>1. TypeOK
  BY DEF MsgInv
<1>2. CASE Die(a)
  <2>1. /\ up' = [up EXCEPT ![a] = FALSE] /\ boot' = boot /\ owed' = owed
        /\ torrents' = [torrents EXCEPT ![a] = NoTorrents]
        /\ msgs' = {m \in msgs : ~(m.type = "KnowMeReply" /\ m.to = a)}
    BY <1>2 DEF Die, history
  <2>2. Booted'
    BY <1>1, <2>1 DEF Booted, TypeOK
  <2>3. up[a] => WentDown(a)'
    BY <1>1, <2>1 DEF Booted, WentDown, TypeOK
  <2>4. \A b \in Trackers : WentDown(b) => WentDown(b)'
    BY <1>1, <2>1 DEF WentDown, TypeOK
  <2>5. \A b \in Trackers, t \in Torrents :
          up[b] /\ Known(b, t) => (up[b] /\ Known(b, t))' \/ WentDown(b)'
    BY <1>1, <2>1, <2>3 DEF TypeOK, Known
  <2>6. \A b \in Trackers, t \in Torrents : OnTheWay(b, t) => OnTheWay(b, t)'
    BY <2>1 DEF OnTheWay
  <2> QED
    BY <2>1, <2>2, <2>4, <2>5, <2>6, ReachKept
<1>3. CASE Start(a, load)
  <2>1. /\ up' = [up EXCEPT ![a] = TRUE] /\ ~up[a] /\ boot' = [boot EXCEPT ![a] = @ + 1]
        /\ owed' = owed /\ msgs \subseteq msgs'
        /\ \A b \in Trackers \ {a} : torrents'[b] = torrents[b]
    BY <1>1, <1>3 DEF Start, history, TypeOK
  <2>2. Booted'
    BY <1>1, <2>1 DEF Booted, TypeOK
  <2>3. \A b \in Trackers : WentDown(b) => WentDown(b)'
    BY <1>1, <2>1 DEF WentDown, TypeOK
  <2>4. \A b \in Trackers, t \in Torrents :
          up[b] /\ Known(b, t) => (up[b] /\ Known(b, t))'
    BY <1>1, <2>1 DEF Known, TypeOK
  <2>5. \A b \in Trackers, t \in Torrents : OnTheWay(b, t) => OnTheWay(b, t)'
    BY <2>1 DEF OnTheWay
  <2> QED
    BY <2>1, <2>2, <2>3, <2>4, <2>5, ReachKept
<1> QED
  BY <1>2, <1>3

\* Steps that neither start nor end a process, and touch no torrent.
LEMMA ReachStutters ==
  ASSUME UNCHANGED <<up, boot, torrents, msgs, owed>>
  PROVE  Booted => Booted' /\ (Reached => Reached')
BY DEF Booted, Reached, WentDown, OnTheWay, Known

\* Each step keeps it.
LEMMA ReachStep ==
  ASSUME ReachInv, MsgInv', [Next]_vars
  PROVE  ReachInv'
<1>0. MsgInv /\ Booted /\ TypeOK
  BY DEF ReachInv, MsgInv
<1> SUFFICES Booted' /\ (~Lossy /\ Reached => Reached')
  BY DEF ReachInv
<1>1. ASSUME NEW a \in Trackers, NEW t \in Torrents, NEW p \in Peers,
             NEW event \in AnnounceEvents, Announce(a, t, p, event)
      PROVE  Booted' /\ (Reached => Reached')
  <2>1. /\ up' = up /\ boot' = boot /\ msgs' = msgs /\ owed' = owed
        /\ torrents' = [torrents EXCEPT ![a][t] = afterEvent(@, p, event)]
    BY <1>1 DEF Announce, AnnounceEvents
  <2>2. afterEvent(torrents[a][t], p, event) # NoTorrent
    BY <1>0, <1>1, AnnounceKnown DEF Announce, Known, TypeOK
  <2>3. \A b \in Trackers, u \in Torrents : Known(b, u) => Known(b, u)'
    BY <1>0, <2>1, <2>2 DEF Known, TypeOK
  <2> QED
    BY <1>0, <2>1, <2>3, ReachKept DEF Booted, WentDown, OnTheWay
<1>2. ASSUME NEW a \in Trackers, PeerRequest(a)
      PROVE  Booted' /\ (Reached => Reached')
  <2>1. ASSUME NEW t \in Torrents, NEW p \in Peers, Publish(a, t, p)
        PROVE  Booted' /\ (Reached => Reached')
    BY <1>0, <2>1, PublishReach DEF Publish, Booted
  <2>2. ASSUME Scrape(a) \/ \E t \in Torrents : AnnounceUnknown(a, t)
        PROVE  Booted' /\ (Reached => Reached')
    BY <1>0, <2>2, ReachStutters DEF Scrape, AnnounceUnknown, vars
  <2>3. ASSUME NEW t \in Torrents, NEW p \in Peers, NEW event \in AnnounceEvents,
               AnnouncePanic(a, t, p, event)
        PROVE  Booted' /\ (Reached => Reached')
    BY <1>0, <2>3, RestartReach DEF AnnouncePanic
  <2> QED
    BY <1>2, <2>1, <2>2, <2>3 DEF PeerRequest
<1>3. ASSUME NEW a \in Trackers, SaveBegin(a) \/ Save(a)
      PROVE  Booted' /\ (Reached => Reached')
  <2>1. UNCHANGED <<up, boot, torrents, msgs, owed>>
    BY <1>3 DEF SaveBegin, Save, SaveTruncate, SaveWrite, mem, history
  <2> QED
    BY <1>0, <2>1, ReachStutters
<1>4. ASSUME NEW a \in Trackers, Crash(a)
      PROVE  Booted' /\ (Reached => Reached')
  BY <1>0, <1>4, RestartReach DEF Crash
<1>5. ASSUME NEW a \in Trackers, NEW load \in BOOLEAN, Start(a, load)
      PROVE  Booted' /\ (Reached => Reached')
  BY <1>0, <1>5, RestartReach
<1>6. ASSUME NEW a \in Trackers, NEW b \in Trackers, PutBk(a, b) \/ KnowMeTimeout(a, b)
      PROVE  Booted' /\ (~Lossy /\ Reached => Reached')
  <2>1. CASE PutBk(a, b)
    BY <1>0, <2>1, ReachStutters DEF PutBk, history
  <2>2. CASE KnowMeTimeout(a, b)
    <3>1. UNCHANGED <<up, boot, torrents, owed>>
      BY <2>2 DEF KnowMeTimeout
    <3>2. \A m \in msgs : m.type = "RePublish" => m \in msgs'
      BY <2>2 DEF KnowMeTimeout
    <3>3. \A c \in Trackers, t \in Torrents : OnTheWay(c, t) => OnTheWay(c, t)'
      BY <3>2 DEF OnTheWay
    <3> QED
      BY <1>0, <3>1, <3>3 DEF Booted, Reached, WentDown, Known
  <2> QED
    BY <1>6, <2>1, <2>2
<1>7. ASSUME NEW m \in msgs, Deliver(m) \/ Lose(m)
      PROVE  Booted' /\ (~Lossy /\ Reached => Reached')
  <2>1. up' = up /\ boot' = boot
    BY <1>7 DEF Deliver, RePublish, KnowMeBadIP, KnowMeBadKey, KnowMeFound, KnowMe,
                KnowMeAnswered, Lose, mem
  <2> QED
    BY <1>0, <1>7, <2>1, DeliverReach DEF Booted
<1>8. CASE UNCHANGED vars
  BY <1>0, <1>8, ReachStutters DEF vars
<1> QED
  BY <1>1, <1>2, <1>3, <1>4, <1>5, <1>6, <1>7, <1>8 DEF Next

\* When no message is lost, what is pushed to a tracker is known there or on its
\* way, unless that tracker went down.  ReplicaReached alone is not inductive:
\* it says nothing of a tracker that was not started yet (Reached).
THEOREM PushArrives == Spec => []ReplicaReached
<1>1. Init => Booted /\ Reached
  BY DEF Init, Booted, Reached
<1>2. MsgInv /\ Booted /\ Reached => ReachInv
  BY DEF ReachInv
<1>3. ReachInv /\ MsgInv' /\ [Next]_vars => ReachInv'
  BY ReachStep
<1>4. ReachInv => ReplicaReached
  <2> SUFFICES ASSUME ReachInv, NEW b \in Trackers, NEW t \in Torrents,
                      <<b, t>> \in owed, ~Lossy
               PROVE  \/ Known(b, t) \/ OnTheWay(b, t)
                      \/ boot[b] > 1 \/ ~up[b]
    BY DEF ReplicaReached, OnTheWay
  <2> QED
    BY DEF ReachInv, Reached, WentDown
<1> QED
  BY <1>1, <1>2, <1>3, <1>4, MessagesAgree, PTL DEF Spec

-------------------------------------------------------------------------------
(* Knowing one another. *)

\* Two calls between the same processes are one message, and its fields have
\* their types.
LEMMA KnowMeFields ==
  ASSUME TypeOK, NEW m \in msgs, m.type = "KnowMe"
  PROVE  /\ m.from \in Trackers /\ m.to \in Trackers /\ m.boot \in Nat
         /\ \A o \in msgs : o.type = "KnowMe" /\ o.from = m.from /\ o.to = m.to
                              /\ o.boot = m.boot => o = m
<1>1. \A k \in msgs : k.type = "KnowMe" =>
        k \in [type : {"KnowMe"}, from : Trackers, to : Trackers, boot : Nat]
  BY DEF TypeOK, Message
<1> QED
  BY <1>1

\* ... and of a reply.
LEMMA ReplyFields ==
  ASSUME TypeOK, NEW m \in msgs, m.type = "KnowMeReply"
  PROVE  m.from \in Trackers /\ m.to \in Trackers /\ m.boot \in Nat
BY DEF TypeOK, Message

\* What each step has to show: nobody forgets to take note, and nobody comes
\* to know a tracker that does not.
LEMMA MutualKept ==
  ASSUME Mutual,
         \A a, b \in Trackers : TakesNote(a, b) => TakesNote(a, b)',
         \A a, b \in Trackers : Knows(a, b)' => Knows(a, b) \/ TakesNote(a, b)'
  PROVE  Mutual'
BY DEF Mutual

\* Steps that leave calls, answers and lists alone; saveData may copy the list.
LEMMA KnowQuiet ==
  ASSUME KnowInv, UNCHANGED <<up, boot, bk, pending, bkchanel, gaveUp>>,
         \A m : m.type # "RePublish" => (m \in msgs' <=> m \in msgs),
         \A a \in Trackers : disk'[a].bk.val \subseteq disk[a].bk.val \cup bk[a]
  PROVE  Calls' /\ Mutual'
<1>1. Calls'
  BY DEF KnowInv, Calls, Booted, Asked, Answered, NoAnswerYet
<1>2. \A a, b \in Trackers : TakesNote(a, b) => TakesNote(a, b)'
  BY DEF TakesNote, Approved, WentDown
<1>3. \A a, b \in Trackers : Knows(a, b)' => Knows(a, b)
  BY DEF Knows
<1> QED
  BY <1>1, <1>2, <1>3, MutualKept DEF KnowInv

\* A message that is lost is neither asked nor answered.
LEMMA LossKnow ==
  ASSUME KnowInv, NEW m \in msgs, Lose(m)
  PROVE  Calls' /\ Mutual'
<1>1. /\ UNCHANGED <<up, boot, bk, pending, bkchanel, gaveUp, disk>>
      /\ msgs' \subseteq msgs
  BY DEF Lose, mem, history
<1>2. Calls'
  BY <1>1 DEF KnowInv, Calls, Booted, Asked, Answered, NoAnswerYet
<1>3. \A a, b \in Trackers : TakesNote(a, b) => TakesNote(a, b)'
  BY <1>1 DEF TakesNote, Approved, WentDown
<1>4. \A a, b \in Trackers : Knows(a, b)' => Knows(a, b)
  BY <1>1 DEF Knows
<1> QED
  BY <1>2, <1>3, <1>4, MutualKept DEF KnowInv

\* Who stops waiting gave up; the others go on waiting.
LEMMA TimeoutKnow ==
  ASSUME KnowInv, NEW a \in Trackers, NEW b \in Trackers, KnowMeTimeout(a, b)
  PROVE  Calls' /\ Mutual'
<1>0. TypeOK /\ Booted /\ Asked /\ Answered /\ NoAnswerYet
  BY DEF KnowInv, Calls
<1>1. /\ UNCHANGED <<up, boot, bk, bkchanel, disk>> /\ msgs' \subseteq msgs
      /\ pending' = [pending EXCEPT ![a] = @ \ {b}]
      /\ gaveUp' = gaveUp \cup {<<a, b>>}
  BY DEF KnowMeTimeout
<1>2. \A c \in Trackers : \A d : d \in pending[c] => d \in pending'[c] \/ <<c, d>> \in gaveUp'
  BY <1>0, <1>1 DEF TypeOK
<1>3. Asked'
  <2> SUFFICES ASSUME NEW k \in msgs', k.type = "KnowMe"
               PROVE  /\ 1 <= k.boot /\ k.boot <= boot[k.from]
                      /\ up[k.from] /\ k.boot = boot[k.from] =>
                           k.to \in pending'[k.from] \/ <<k.from, k.to>> \in gaveUp'
    BY <1>1 DEF Asked
  <2>1. k \in msgs /\ k.from \in Trackers
    BY <1>0, <1>1, KnowMeFields
  <2> QED
    BY <1>0, <1>1, <1>2, <2>1 DEF Asked
<1>4. Calls'
  BY <1>0, <1>1, <1>3 DEF Calls, Booted, Answered, NoAnswerYet
<1>5. \A c, d \in Trackers : TakesNote(c, d) => TakesNote(c, d)'
  BY <1>1, <1>2 DEF TakesNote, Approved, WentDown
<1>6. \A c, d \in Trackers : Knows(c, d)' => Knows(c, d)
  BY <1>1 DEF Knows
<1> QED
  BY <1>4, <1>5, <1>6, MutualKept DEF KnowInv

\* What is in flight once a call was answered.
LEMMA ReplyMessages ==
  ASSUME TypeOK, NEW m \in msgs, m.type = "KnowMe", NEW status, Reply(m, status)
  PROVE  /\ m \notin msgs'
         /\ \A n \in msgs' : \/ n \in msgs
                             \/ /\ n.type = "KnowMeReply" /\ n.from = m.to /\ n.to = m.from
                                /\ n.boot = m.boot /\ n.status = status /\ Awaited(m)
BY DEF Reply, answer

\* Whatever the answer to a call is, it is the only one.
LEMMA ReplyCalls ==
  ASSUME KnowInv, NEW m \in msgs, m.type = "KnowMe", NEW status, Reply(m, status),
         UNCHANGED <<up, boot, pending, gaveUp>>
  PROVE  Calls'
<1>0. TypeOK /\ Booted /\ Asked /\ Answered /\ NoAnswerYet
  BY DEF KnowInv, Calls
<1>1. m.from \in Trackers /\ m.to \in Trackers /\ m.boot \in Nat
  BY <1>0, KnowMeFields
<1>2. /\ m \notin msgs'
      /\ \A n \in msgs' : \/ n \in msgs
                          \/ /\ n.type = "KnowMeReply" /\ n.from = m.to /\ n.to = m.from
                             /\ n.boot = m.boot
  BY <1>0, ReplyMessages
<1>3. Asked' /\ Booted'
  BY <1>0, <1>2 DEF Asked, Booted
<1>4. Answered'
  BY <1>0, <1>1, <1>2 DEF Asked, Answered
<1>5. NoAnswerYet'
  <2> SUFFICES ASSUME NEW k \in msgs', NEW n \in msgs', k.type = "KnowMe",
                      n.type = "KnowMeReply", n.from = k.to, n.to = k.from
               PROVE  n.boot # k.boot
    BY DEF NoAnswerYet
  <2>1. k \in msgs /\ k # m
    BY <1>2
  <2>2. CASE n \in msgs
    BY <1>0, <2>1, <2>2 DEF NoAnswerYet
  <2>3. CASE n \notin msgs
    BY <1>0, <1>2, <2>1, <2>3, KnowMeFields
  <2> QED
    BY <2>2, <2>3
<1> QED
  BY <1>3, <1>4, <1>5 DEF Calls

\* An answer leaves those who wait for another one waiting: it is to a call
\* that was not handled yet.
LEMMA ReplyNotes ==
  ASSUME KnowInv, NEW m \in msgs, m.type = "KnowMe", NEW status, Reply(m, status),
         UNCHANGED <<up, boot, pending, bkchanel, gaveUp>>,
         \A c \in Trackers : bk[c] \subseteq bk'[c]
  PROVE  \A a, b \in Trackers : TakesNote(a, b) => TakesNote(a, b)'
<1> SUFFICES ASSUME NEW a \in Trackers, NEW b \in Trackers, TakesNote(a, b), Approved(a, b)
             PROVE  Approved(a, b)'
  BY DEF TakesNote, WentDown
<1>1. TypeOK
  BY DEF KnowInv
<1>2. \A n \in msgs' : \/ n \in msgs
                       \/ /\ n.type = "KnowMeReply" /\ n.from = m.to /\ n.to = m.from
                          /\ n.boot = m.boot
  BY <1>1, ReplyMessages
<1>3. ~(m.from = b /\ m.to = a /\ m.boot = 1)
  BY DEF Approved
<1> QED
  BY <1>2, <1>3 DEF Approved

\* A refusal teaches nobody anything.
LEMMA RefuseKnow ==
  ASSUME KnowInv, NEW m \in msgs, KnowMeBadIP(m) \/ KnowMeBadKey(m) \/ KnowMeFound(m)
  PROVE  Calls' /\ Mutual'
<1>1. PICK status \in {"FAILEDIP", "UNKNOWNREDKEY", "FAILED"} : Reply(m, status)
  BY DEF KnowMeBadIP, KnowMeBadKey, KnowMeFound
<1>2. m.type = "KnowMe" /\ UNCHANGED <<up, boot, bk, pending, bkchanel, disk, gaveUp>>
  BY DEF KnowMeBadIP, KnowMeBadKey, KnowMeFound, mem, history
<1>3. Calls'
  BY <1>1, <1>2, ReplyCalls
<1>4. \A n : n \in msgs' /\ n.type = "KnowMeReply" /\ n.status \in Positive => n \in msgs
  BY <1>1, <1>2, ReplyMessages DEF KnowInv, Positive
<1>5. \A a, b \in Trackers : TakesNote(a, b) => TakesNote(a, b)'
  BY <1>1, <1>2, ReplyNotes
<1>6. \A a, b \in Trackers : Knows(a, b)' => Knows(a, b)
  BY <1>2, <1>4 DEF Knows
<1> QED
  BY <1>3, <1>5, <1>6, MutualKept DEF KnowInv

\* A call that is approved: the tracker that answers knows the caller, and the
\* caller, if it is still the process that called, awaits the answer.
LEMMA ApproveKnow ==
  ASSUME KnowInv, NEW m \in msgs, KnowMe(m)
  PROVE  Calls' /\ Mutual'
<1>0. TypeOK /\ Booted /\ Asked /\ NoAnswerYet
  BY DEF KnowInv, Calls
<1>1. /\ m.type = "KnowMe" /\ Reply(m, "OK") /\ up[m.to]
      /\ UNCHANGED <<up, boot, pending, bkchanel, disk, gaveUp>>
      /\ bk' = [bk EXCEPT ![m.to] = @ \cup {m.from}]
  BY DEF KnowMe, LockFree, history
<1>2. m.from \in Trackers /\ m.to \in Trackers /\ m.boot \in Nat
  BY <1>0, <1>1, KnowMeFields
<1>3. Calls'
  BY <1>1, ReplyCalls
<1>4. /\ m \notin msgs'
      /\ \A n \in msgs' : \/ n \in msgs
                          \/ /\ n.type = "KnowMeReply" /\ n.from = m.to /\ n.to = m.from
                             /\ n.boot = m.boot /\ n.status \in Positive
  BY <1>0, <1>1, ReplyMessages DEF Positive
<1>5. \A b \in Trackers : bk[b] \subseteq bk'[b]
  BY <1>0, <1>1 DEF TypeOK
<1>6. m.from \in bk'[m.to]
  BY <1>0, <1>1, <1>2 DEF TypeOK
<1>7. \A a, b \in Trackers : TakesNote(a, b) => TakesNote(a, b)'
  BY <1>1, <1>5, ReplyNotes
<1>8. TakesNote(m.to, m.from)'
  <2>1. CASE WentDown(m.from)
    BY <1>1, <2>1 DEF TakesNote, WentDown
  <2>2. CASE ~WentDown(m.from)
    <3>1. boot[m.from] \in Nat /\ 1 <= m.boot /\ m.boot <= boot[m.from]
      BY <1>0, <1>1, <1>2 DEF Asked, TypeOK
    <3>2. boot[m.from] = 1 /\ m.boot = 1 /\ up[m.from]
      BY <1>2, <2>2, <3>1 DEF WentDown
    <3>3. m.to \in pending[m.from] \/ <<m.from, m.to>> \in gaveUp
      BY <1>0, <1>1, <3>2 DEF Asked
    <3>4. Approved(m.to, m.from)'
      <4>1. ASSUME NEW n \in msgs', n.type = "KnowMe", n.from = m.from, n.to = m.to
            PROVE  n.boot # 1
        <5>1. n \in msgs /\ n # m
          BY <1>4, <4>1
        <5> QED
          BY <1>0, <1>1, <3>2, <4>1, <5>1, KnowMeFields
      <4>2. ASSUME NEW n \in msgs', n.type = "KnowMeReply", n.from = m.to, n.to = m.from,
                   n.boot = 1
            PROVE  n.status \in Positive
        <5>1. n \notin msgs
          BY <1>0, <1>1, <3>2, <4>2 DEF NoAnswerYet
        <5> QED
          BY <1>4, <5>1
      <4> QED
        BY <4>1, <4>2 DEF Approved
    <3> QED
      BY <1>1, <3>2, <3>3, <3>4 DEF TakesNote
  <2> QED
    BY <2>1, <2>2
<1>9. TakesNote(m.from, m.to)'
  BY <1>0, <1>1, <1>2, <1>6 DEF TakesNote, WentDown, Booted, TypeOK
<1>10. \A a, b \in Trackers : Knows(a, b)' => Knows(a, b) \/ TakesNote(a, b)'
  <2>1. \A a, b \in Trackers : b \in bk'[a] => b \in bk[a] \/ (a = m.to /\ b = m.from)
    BY <1>0, <1>1 DEF TypeOK
  <2> QED
    BY <1>1, <1>4, <1>8, <1>9, <2>1 DEF Knows
<1> QED
  BY <1>3, <1>7, <1>10, MutualKept DEF KnowInv

\* The answer that is awaited is taken: if the call was approved, it is a positive
\* one.
LEMMA AnswerKnow ==
  ASSUME KnowInv, NEW m \in msgs, KnowMeAnswered(m)
  PROVE  Calls' /\ Mutual'
<1>0. TypeOK /\ Booted /\ Asked /\ Answered /\ NoAnswerYet
  BY DEF KnowInv, Calls
<1>1. /\ m.type = "KnowMeReply" /\ m.boot = boot[m.to] /\ m.from \in pending[m.to]
      /\ UNCHANGED <<up, boot, bk, disk, gaveUp>> /\ msgs' = msgs \ {m}
      /\ pending' = [pending EXCEPT ![m.to] = @ \ {m.from}]
      /\ bkchanel' = IF m.status \in Positive
                     THEN [bkchanel EXCEPT ![m.to] = @ \cup {m.from}]
                     ELSE bkchanel
  BY DEF KnowMeAnswered, Positive, history
<1>2. m.from \in Trackers /\ m.to \in Trackers
  BY <1>0, <1>1, ReplyFields
<1>3. \A b \in Trackers : \A a : a \in pending[b] /\ ~(a = m.from /\ b = m.to) => a \in pending'[b]
  BY <1>0, <1>1 DEF TypeOK
<1>4. \A b \in Trackers : bkchanel[b] \subseteq bkchanel'[b]
  BY <1>0, <1>1 DEF TypeOK
<1>5. m.status \in Positive => m.from \in bkchanel'[m.to]
  BY <1>0, <1>1, <1>2 DEF TypeOK
<1>6. Asked'
  <2> SUFFICES ASSUME NEW k \in msgs', k.type = "KnowMe"
               PROVE  /\ 1 <= k.boot /\ k.boot <= boot[k.from]
                      /\ up[k.from] /\ k.boot = boot[k.from] =>
                           k.to \in pending'[k.from] \/ <<k.from, k.to>> \in gaveUp
    BY <1>1 DEF Asked
  <2>1. k \in msgs /\ k.from \in Trackers
    BY <1>0, <1>1, KnowMeFields
  <2>2. ~(k.to = m.from /\ k.from = m.to /\ k.boot = boot[k.from])
    BY <1>0, <1>1, <2>1 DEF NoAnswerYet
  <2> QED
    BY <1>0, <1>3, <2>1, <2>2 DEF Asked
<1>7. Calls'
  BY <1>0, <1>1, <1>6 DEF Calls, Booted, Answered, NoAnswerYet
<1>8. \A a, b \in Trackers : TakesNote(a, b) => TakesNote(a, b)'
  <2> SUFFICES ASSUME NEW a \in Trackers, NEW b \in Trackers, boot[b] = 1,
                      a \in pending[b], Approved(a, b)
               PROVE  a \in bkchanel'[b] \/ (a \in pending'[b] /\ Approved(a, b)')
    BY <1>1, <1>4 DEF TakesNote, WentDown
  <2>1. CASE a = m.from /\ b = m.to
    BY <1>1, <1>5, <2>1 DEF Approved
  <2>2. CASE ~(a = m.from /\ b = m.to)
    BY <1>1, <1>3, <2>2 DEF Approved
  <2> QED
    BY <2>1, <2>2
<1>9. \A a, b \in Trackers : Knows(a, b)' => Knows(a, b)
  <2>1. \A a, b \in Trackers : b \in bkchanel'[a] =>
          b \in bkchanel[a] \/ (a = m.to /\ b = m.from /\ m.status \in Positive)
    BY <1>0, <1>1 DEF TypeOK
  <2> QED
    BY <1>1, <2>1 DEF Knows
<1> QED
  BY <1>7, <1>8, <1>9, MutualKept DEF KnowInv

\* An answer that was taken gets from the channel into the list.
LEMMA PutKnow ==
  ASSUME KnowInv, NEW a \in Trackers, NEW b \in Trackers, PutBk(a, b)
  PROVE  Calls' /\ Mutual'
<1>1. /\ UNCHANGED <<up, boot, pending, disk, msgs, gaveUp>> /\ b \in bkchanel[a]
      /\ bkchanel' = [bkchanel EXCEPT ![a] = @ \ {b}]
      /\ bk' = [bk EXCEPT ![a] = @ \cup {b}]
  BY DEF PutBk, history
<1>2. \A c \in Trackers : bk'[c] \cup bkchanel'[c] = bk[c] \cup bkchanel[c]
  BY <1>1 DEF KnowInv, TypeOK
<1>3. Calls'
  BY <1>1 DEF KnowInv, Calls, Booted, Asked, Answered, NoAnswerYet
<1>4. \A c, d \in Trackers : TakesNote(c, d) => TakesNote(c, d)'
  BY <1>1, <1>2 DEF TakesNote, Approved, WentDown
<1>5. \A c, d \in Trackers : Knows(c, d)' => Knows(c, d)
  BY <1>1, <1>2 DEF Knows
<1> QED
  BY <1>3, <1>4, <1>5, MutualKept DEF KnowInv

\* A process that ends need not take note of anybody.
LEMMA DieKnow ==
  ASSUME KnowInv, NEW a \in Trackers, Die(a)
  PROVE  Calls' /\ Mutual'
<1>0. TypeOK /\ Booted /\ Asked /\ Answered /\ NoAnswerYet
  BY DEF KnowInv, Calls
<1>1. /\ UNCHANGED <<boot, disk, gaveUp>> /\ up' = [up EXCEPT ![a] = FALSE]
      /\ msgs' = {m \in msgs : ~(m.type = "KnowMeReply" /\ m.to = a)}
      /\ bk' = [bk EXCEPT ![a] = {}] /\ bkchanel' = [bkchanel EXCEPT ![a] = {}]
      /\ pending' = [pending EXCEPT ![a] = {}]
  BY DEF Die, history
<1>2. /\ ~up'[a] /\ bk'[a] = {} /\ bkchanel'[a] = {}
      /\ \A b \in Trackers \ {a} :
           up'[b] = up[b] /\ bk'[b] = bk[b] /\ bkchanel'[b] = bkchanel[b]
             /\ pending'[b] = pending[b]
  BY <1>0, <1>1 DEF TypeOK
<1>3. Asked'
  BY <1>0, <1>1, <1>2, KnowMeFields DEF Asked
<1>4. Calls'
  BY <1>0, <1>1, <1>2, <1>3 DEF Calls, Booted, Answered, NoAnswerYet
<1>5. \A c, d \in Trackers : TakesNote(c, d) => TakesNote(c, d)'
  BY <1>1, <1>2 DEF TakesNote, Approved, WentDown
<1>6. \A c, d \in Trackers : Knows(c, d)' => Knows(c, d)
  BY <1>1, <1>2 DEF Knows
<1> QED
  BY <1>4, <1>5, <1>6, MutualKept DEF KnowInv

\* A process that is started asks with a number of its own; what it loads was
\* saved by an earlier one.
LEMMA StartKnow ==
  ASSUME KnowInv, NEW a \in Trackers, NEW load \in BOOLEAN, Start(a, load)
  PROVE  Calls' /\ Mutual'
<1>0. TypeOK /\ Booted /\ Asked /\ Answered /\ NoAnswerYet
  BY DEF KnowInv, Calls
<1> DEFINE queue == getNewBkTrackersAddrs(a)
           calls == [type : {"KnowMe"}, from : {a}, to : queue, boot : {boot[a] + 1}]
<1>1. /\ boot' = [boot EXCEPT ![a] = @ + 1] /\ UNCHANGED <<bkchanel, disk, gaveUp>>
      /\ up' = [up EXCEPT ![a] = TRUE] /\ pending' = [pending EXCEPT ![a] = queue]
      /\ msgs' = msgs \cup calls
      /\ bk' = [bk EXCEPT ![a] = IF load THEN loadBkTrackers(a) ELSE {}]
  BY DEF Start, history
<1>2. /\ boot[a] \in Nat /\ boot'[a] = boot[a] + 1 /\ pending'[a] = queue
      /\ bk'[a] \subseteq disk[a].bk.val
      /\ \A b \in Trackers \ {a} :
           up'[b] = up[b] /\ bk'[b] = bk[b] /\ boot'[b] = boot[b] /\ pending'[b] = pending[b]
  BY <1>0, <1>1 DEF TypeOK, loadBkTrackers
<1>3. \A k \in calls : k.type = "KnowMe" /\ k.from = a /\ k.to \in queue /\ k.boot = boot[a] + 1
  OBVIOUS
<1> HIDE DEF queue, calls
<1>4. Asked'
  <2> SUFFICES ASSUME NEW k \in msgs', k.type = "KnowMe"
               PROVE  /\ 1 <= k.boot /\ k.boot <= boot'[k.from]
                      /\ up'[k.from] /\ k.boot = boot'[k.from] =>
                           k.to \in pending'[k.from] \/ <<k.from, k.to>> \in gaveUp'
    BY DEF Asked
  <2>1. CASE k \in calls
    BY <1>2, <1>3, <2>1
  <2>2. CASE k \in msgs
    <3>1. k.from \in Trackers /\ k.boot \in Nat
      BY <1>0, <2>2, KnowMeFields
    <3>2. /\ 1 <= k.boot /\ k.boot <= boot[k.from]
          /\ up[k.from] /\ k.boot = boot[k.from] =>
               k.to \in pending[k.from] \/ <<k.from, k.to>> \in gaveUp
      BY <1>0, <2>2 DEF Asked
    <3>3. CASE k.from = a
      <4>1. 1 <= k.boot /\ k.boot <= boot[a] /\ k.boot \in Nat
        BY <3>1, <3>2, <3>3
      <4>2. k.boot <= boot'[a] /\ k.boot # boot'[a]
        BY <1>2, <4>1
      <4> QED
        BY <3>3, <4>1, <4>2
    <3>4. CASE k.from # a
      BY <1>1, <1>2, <3>1, <3>2, <3>4
    <3> QED
      BY <3>3, <3>4
  <2> QED
    BY <1>1, <2>1, <2>2
<1>5. \A n \in msgs' : n.type = "KnowMeReply" => n \in msgs /\ n.to \in Trackers /\ n.boot \in Nat
  BY <1>0, <1>1, <1>3, ReplyFields
<1>6. Answered'
  <2> SUFFICES ASSUME NEW n \in msgs', n.type = "KnowMeReply"
               PROVE  n.boot <= boot'[n.to]
    BY DEF Answered
  <2>1. n.boot <= boot[n.to] /\ n.to \in Trackers /\ n.boot \in Nat
    BY <1>0, <1>5 DEF Answered
  <2> QED
    BY <1>2, <2>1
<1>7. NoAnswerYet'
  <2>1. \A k \in calls, n \in msgs' :
          n.type = "KnowMeReply" /\ n.from = k.to /\ n.to = k.from => n.boot # k.boot
    <3> SUFFICES ASSUME NEW k \in calls, NEW n \in msgs', n.type = "KnowMeReply", n.to = a
                 PROVE  n.boot # k.boot
      BY <1>3
    <3> QED
      BY <1>0, <1>2, <1>3, <1>5 DEF Answered
  <2>2. \A m \in msgs, n \in msgs' :
          m.type = "KnowMe" /\ n.type = "KnowMeReply" /\ n.from = m.to /\ n.to = m.from =>
            n.boot # m.boot
    BY <1>0, <1>5 DEF NoAnswerYet
  <2> QED
    BY <1>1, <2>1, <2>2 DEF NoAnswerYet
<1>8. Calls'
  BY <1>0, <1>1, <1>2, <1>4, <1>6, <1>7 DEF Calls, Booted
<1>9. \A c, d \in Trackers : TakesNote(c, d) => TakesNote(c, d)'
  <2> SUFFICES ASSUME NEW c \in Trackers, NEW d \in Trackers, TakesNote(c, d), ~WentDown(d),
                      <<d, c>> \notin gaveUp
               PROVE  TakesNote(c, d)'
    BY <1>0, <1>1, <1>2 DEF TakesNote, WentDown, TypeOK
  <2>1. boot[d] = 1
    BY DEF TakesNote
  <2>2. CASE d = a
    BY <1>2, <2>1, <2>2 DEF TakesNote, WentDown
  <2>3. CASE d # a
    <3>1. Approved(c, d) => Approved(c, d)'
      BY <1>1, <1>3, <2>3 DEF Approved
    <3> QED
      BY <1>1, <1>2, <2>3, <3>1 DEF TakesNote, WentDown
  <2> QED
    BY <2>2, <2>3
<1>10. \A c, d \in Trackers : Knows(c, d)' => Knows(c, d)
  BY <1>1, <1>2, <1>5 DEF Knows
<1> QED
  BY <1>8, <1>9, <1>10, MutualKept DEF KnowInv

\* saveData copies the list of the tracker into its file.
LEMMA SaveKnow ==
  ASSUME KnowInv, NEW a \in Trackers, SaveBegin(a) \/ Save(a)
  PROVE  Calls' /\ Mutual'
<1>1. UNCHANGED <<up, boot, bk, pending, bkchanel, msgs, gaveUp>>
  BY DEF SaveBegin, Save, SaveTruncate, SaveWrite, mem, history
<1>2. \A b \in Trackers : disk'[b].bk.val \subseteq disk[b].bk.val \cup bk[b]
  <2>1. disk \in [Trackers -> [torrents : TorrentsFile, bk : BkFile]]
    BY DEF KnowInv, TypeOK
  <2>2. CASE SaveBegin(a)
    BY <2>2 DEF SaveBegin
  <2>3. ASSUME NEW f \in Files, SaveTruncate(a, f)
        PROVE  \A b \in Trackers : disk'[b].bk.val \subseteq disk[b].bk.val \cup bk[b]
    BY <2>1, <2>3 DEF SaveTruncate
  <2>4. ASSUME NEW f \in Files, SaveWrite(a, f)
        PROVE  \A b \in Trackers : disk'[b].bk.val \subseteq disk[b].bk.val \cup bk[b]
    BY <2>1, <2>4 DEF SaveWrite, BkFile, TorrentsFile
  <2> QED
    BY <2>2, <2>3, <2>4 DEF Save
<1> QED
  BY <1>1, <1>2, KnowQuiet

\* Each step keeps it.
LEMMA KnowStep ==
  ASSUME KnowInv, [Next]_vars
  PROVE  Calls' /\ Mutual'
<1>1. ASSUME UNCHANGED <<up, boot, bk, pending, bkchanel, disk, gaveUp>>,
             \A m : m.type # "RePublish" => (m \in msgs' <=> m \in msgs)
      PROVE  Calls' /\ Mutual'
  BY <1>1, KnowQuiet
<1>2. ASSUME NEW a \in Trackers, NEW t \in Torrents, NEW p \in Peers,
             Publish(a, t, p) \/ \E event \in AnnounceEvents : Announce(a, t, p, event)
      PROVE  Calls' /\ Mutual'
  <2>1. \A m : m.type # "RePublish" => (m \in msgs' <=> m \in msgs)
    BY <1>2 DEF Publish, Announce, rePublishes
  <2>2. UNCHANGED <<up, boot, bk, pending, bkchanel, disk, gaveUp>>
    BY <1>2 DEF Publish, Announce
  <2> QED
    BY <1>1, <2>1, <2>2
<1>3. ASSUME NEW a \in Trackers, PeerRequest(a)
      PROVE  Calls' /\ Mutual'
  <2>1. ASSUME Scrape(a) \/ \E t \in Torrents : AnnounceUnknown(a, t)
        PROVE  Calls' /\ Mutual'
    BY <1>1, <2>1 DEF Scrape, AnnounceUnknown, vars
  <2>2. ASSUME NEW t \in Torrents, NEW p \in Peers, NEW event \in AnnounceEvents,
               AnnouncePanic(a, t, p, event)
        PROVE  Calls' /\ Mutual'
    BY <2>2, DieKnow DEF AnnouncePanic
  <2> QED
    BY <1>2, <1>3, <2>1, <2>2 DEF PeerRequest
<1>4. ASSUME NEW a \in Trackers, NEW b \in Trackers, KnowMeTimeout(a, b)
      PROVE  Calls' /\ Mutual'
  BY <1>4, TimeoutKnow
<1>5. ASSUME NEW m \in msgs, Lose(m)
      PROVE  Calls' /\ Mutual'
  BY <1>5, LossKnow
<1>6. ASSUME NEW m \in msgs, RePublish(m)
      PROVE  Calls' /\ Mutual'
  <2>1. \A n : n.type # "RePublish" => (n \in msgs' <=> n \in msgs)
    BY <1>6 DEF RePublish
  <2> QED
    BY <1>1, <1>6, <2>1 DEF RePublish, history
<1>7. ASSUME NEW m \in msgs, Deliver(m)
      PROVE  Calls' /\ Mutual'
  BY <1>6, <1>7, RefuseKnow, ApproveKnow, AnswerKnow DEF Deliver
<1>8. CASE UNCHANGED vars
  BY <1>1, <1>8 DEF vars
<1>9. ASSUME NEW a \in Trackers, Crash(a)
      PROVE  Calls' /\ Mutual'
  BY <1>9, DieKnow DEF Crash
<1> QED
  BY <1>2, <1>3, <1>4, <1>5, <1>7, <1>8, <1>9, SaveKnow, StartKnow, PutKnow DEF Next

\* An approved KnowMe makes both trackers replicate to each other, unless the one
\* that asked went down or gave up waiting.  KnownMutually alone is not inductive:
\* that an answer is awaited helps only if no other than the approving one can
\* come (Approved), and the calls that are not answered yet come from the process
\* that waits (Asked).
THEOREM BothTakeNote == Spec => []KnownMutually
<1>1. Init => Calls /\ Mutual
  BY DEF Init, Calls, Booted, Asked, Answered, NoAnswerYet, Mutual, Knows
<1>2. TypeOK /\ Calls /\ Mutual /\ TypeOK' /\ [Next]_vars => (Calls /\ Mutual)'
  BY KnowStep DEF KnowInv
<1>3. Calls /\ Mutual => KnownMutually
  BY DEF Calls, Mutual, Knows, TakesNote, KnownMutually, WentDown
<1> QED
  BY <1>1, <1>2, <1>3, TypeCorrect, PTL DEF Spec
===============================================================================
