------------------------------ MODULE TrackerNet ------------------------------
(***************************************************************************)
(* The network of replicated trackers: tracker/tracker/tacker.go and       *)
(* tracker/server/server.go.                                               *)
(*                                                                         *)
(* Peers call Publish, Announce and Scrape at any tracker.  Trackers make  *)
(* themselves known to one another with KnowMe and push the first Publish  *)
(* of a torrent to the trackers they know with RePublish.  The state of a  *)
(* tracker is in memory; saveData copies it to two files from time to      *)
(* time, and a tracker that is started again may load them.                *)
(*                                                                         *)
(* A handler's critical section is one step here; saveData, which holds    *)
(* the read lock while it writes two files, is not.                        *)
(***************************************************************************)
EXTENDS Naturals, FiniteSets

CONSTANTS
  Trackers,     \* trackers, named by the address they listen on
  Peers,        \* peer identifiers (UTF-8: proto3 refuses any other string)
  Torrents,     \* infohashes of 20 bytes
  TextHashes,   \* the infohashes whose 20 bytes happen to be valid UTF-8
  Key,          \* Key[a]: hash of the -redKey a is started with
  Literal,      \* the trackers whose -ip is an address net.ParseIP accepts
  Contacts,     \* Contacts[a]: the addresses in the file -nBkTk gives a
  Lossy,        \* may messages be lost?
  Savers,       \* bound: the trackers whose -saveTime is short enough to pass
  Passive,      \* bound: peers that announce "stopped" and nothing else
  MaxBoots      \* bound: MaxBoots[a] is how often tracker a is started

ASSUME ConstantsAssumption ==
  /\ TextHashes \subseteq Torrents
  /\ Literal \subseteq Trackers
  /\ Contacts \in [Trackers -> SUBSET Trackers]
  /\ Lossy \in BOOLEAN
  /\ Savers \subseteq Trackers
  /\ Passive \subseteq Peers
  /\ MaxBoots \in [Trackers -> Nat]

VARIABLES
  up,         \* is the process running?
  boot,       \* how often it was started
  torrents,   \* TrackerServer.Torrents
  bk,         \* TrackerServer.BackupTrackers
  frozen,     \* KnowMe returned without Unlock: the lock is never free again
  pending,    \* the trackers whose answer to KnowMe is awaited
  bkchanel,   \* answers on their way to putBkTrackersIntoServer
  saving,     \* saveData: what is left of the current round, per file
  disk,       \* data/torrents.json and data/bktrackers.json
  msgs,       \* requests and replies in flight
  published,  \* history: <<tracker, torrent, peer>> a client's Publish added
  owed,       \* history: <<tracker, torrent>> a RePublish was started for
  gaveUp      \* history: <<a, b>> when the time of a's KnowMe to b was over

mem     == <<up, boot, torrents, bk, frozen, pending, bkchanel>>
history == <<published, owed, gaveUp>>
vars    == <<up, boot, torrents, bk, frozen, pending, bkchanel, saving, disk,
             msgs, published, owed, gaveUp>>

-------------------------------------------------------------------------------
(* Data. *)

\* PeerTk.State, and "none" for a peer the map does not hold.
PeerState == {"none", "seeder", "started", "stopped", "complete"}

TorrentTk == [complete : Nat, downloaded : Nat, peers : [Peers -> PeerState]]

\* The value that stands for "not in the map".
NoTorrent == [complete |-> 0, downloaded |-> 0, peers |-> [p \in Peers |-> "none"]]

NoTorrents == [t \in Torrents |-> NoTorrent]

Known(a, t) == torrents[a][t] # NoTorrent

Files == {"torrents", "bk"}

\* A file that is missing or cut short by a crash does not parse.
TorrentsFile == [whole : BOOLEAN, val : [Torrents -> TorrentTk]]
BkFile       == [whole : BOOLEAN, val : SUBSET Trackers]

Message ==
  [type : {"RePublish"}, from : Trackers, to : Trackers,
   torrent : Torrents, peer : Peers]
  \cup [type : {"KnowMe"}, from : Trackers, to : Trackers, boot : Nat]
  \cup [type : {"KnowMeReply"}, from : Trackers, to : Trackers, boot : Nat,
        status : {"OK", "FAILED", "FAILEDIP", "UNKNOWNREDKEY", "ALREADYKNOWOK"}]

Idle == [f \in Files |-> "idle"]

\* tk.Lock() succeeds: it was not leaked and saveData does not hold RLock.
LockFree(a) == up[a] /\ ~frozen[a] /\ saving[a] = Idle

\* tk.RLock() succeeds: saveData's RLock does not exclude it.
RLockFree(a) == up[a] /\ ~frozen[a]

Init ==
  /\ up = [a \in Trackers |-> FALSE]
  /\ boot = [a \in Trackers |-> 0]
  /\ torrents = [a \in Trackers |-> NoTorrents]
  /\ bk = [a \in Trackers |-> {}]
  /\ frozen = [a \in Trackers |-> FALSE]
  /\ pending = [a \in Trackers |-> {}]
  /\ bkchanel = [a \in Trackers |-> {}]
  /\ saving = [a \in Trackers |-> Idle]
  /\ disk = [a \in Trackers |-> [torrents |-> [whole |-> FALSE, val |-> NoTorrents],
                                 bk       |-> [whole |-> FALSE, val |-> {}]]]
  /\ msgs = {}
  /\ published = {}
  /\ owed = {}
  /\ gaveUp = {}

-------------------------------------------------------------------------------
(* Requests of peers. *)

\* publishTorrent: the status it returns for peer p and map tp ...
PublishStatus(tp, t, p) ==
  IF tp[t] = NoTorrent THEN "OK"
  ELSE IF tp[t].peers[p] # "none" THEN "ALREADYEXISTP" ELSE "ALREADYEXISTT"

\* Mutant: a peer that is listed becomes a seeder again.
publishTorrent_again(tp, t, p) ==
  [tp EXCEPT ![t] = [@ EXCEPT !.complete = 1, !.peers[p] = "seeder"]]

\* ... and the map it leaves.  Complete is set for the first seeder only, and
\* a peer that is already there keeps the state it has.
publishTorrent(tp, t, p) ==
  [tp EXCEPT ![t] =
    [complete   |-> IF @ = NoTorrent THEN 1 ELSE @.complete,
     downloaded |-> @.downloaded,
     peers      |-> IF @.peers[p] # "none" THEN @.peers
                    ELSE [@.peers EXCEPT ![p] = "seeder"]]]

\* What RePublishRequestManager sends: one call per tracker known now.
rePublishes(a, t, p) ==
  [type : {"RePublish"}, from : {a}, to : bk[a], torrent : {t}, peer : {p}]

\* Mutant: Publish takes the read lock.
Publish_rlock(a, t, p) ==
  /\ RLockFree(a)
  /\ torrents' = [torrents EXCEPT ![a] = publishTorrent(@, t, p)]
  /\ published' = published \cup {<<a, t, p>>}
  /\ UNCHANGED <<up, boot, bk, frozen, pending, bkchanel, saving, disk, msgs, owed, gaveUp>>

\* Publish: only a torrent that is new here is pushed to the known trackers.
Publish(a, t, p) ==
  LET status == PublishStatus(torrents[a], t, p) IN
  /\ LockFree(a)
  /\ torrents' = [torrents EXCEPT ![a] = publishTorrent(@, t, p)]
  /\ published' = IF status = "ALREADYEXISTP" THEN published
                  ELSE published \cup {<<a, t, p>>}
  /\ IF status = "OK"
     THEN /\ msgs' = msgs \cup rePublishes(a, t, p)
          /\ owed' = owed \cup (bk[a] \X {t})
     ELSE UNCHANGED <<msgs, owed>>
  /\ UNCHANGED <<up, boot, bk, frozen, pending, bkchanel, saving, disk, gaveUp>>

\* The events announceQueryCheck lets through.
AnnounceEvents == {"request", "started", "completed", "stopped"}

\* Mutant: "started" registers the peer as a seeder.
afterEvent_seeds(ttk, p, event) ==
  IF event = "request" THEN ttk ELSE [ttk EXCEPT !.peers[p] = "seeder"]

\* Mutant: whatever the event is called becomes the state.
afterEvent_any(ttk, p, event) == [ttk EXCEPT !.peers[p] = event]

\* The switch of Announce.  It names the event "complete", not "completed".
afterEvent(ttk, p, event) ==
  IF event \in {"started", "stopped"}
  THEN [ttk EXCEPT !.peers[p] = event]
  ELSE IF event = "complete"
  THEN [ttk EXCEPT !.peers[p] = event, !.complete = @ + 1, !.downloaded = @ + 1]
  ELSE ttk

\* The switch stores into ttk.Peers[p] without a check unless p started.
Panics(ttk, p, event) ==
  event \in {"stopped", "complete"} /\ ttk.peers[p] = "none"

\* Announce for a torrent that is known; the event "complete" alone is pushed.
Announce(a, t, p, event) ==
  /\ RLockFree(a)
  /\ Known(a, t)
  /\ event \in AnnounceEvents
  /\ ~Panics(torrents[a][t], p, event)
  /\ torrents' = [torrents EXCEPT ![a][t] = afterEvent(@, p, event)]
  /\ IF event = "complete"
     THEN /\ msgs' = msgs \cup rePublishes(a, t, p)
          /\ owed' = owed \cup (bk[a] \X {t})
     ELSE UNCHANGED <<msgs, owed>>
  /\ UNCHANGED <<up, boot, bk, frozen, pending, bkchanel, saving, disk, published, gaveUp>>

\* Announce for a torrent that is not known is refused.
AnnounceUnknown(a, t) ==
  /\ RLockFree(a)
  /\ ~Known(a, t)
  /\ UNCHANGED vars

\* Scrape counts the peers of each torrent it is asked about.
Scrape(a) == RLockFree(a) /\ UNCHANGED vars

-------------------------------------------------------------------------------
(* Tracker to tracker. *)

\* Mutant: the keys are hashed before the flag -redKey is parsed.
SameKey_unparsed(a, b) == TRUE

\* The RedKey that arrives from a is the one of b.
SameKey(a, b) == Key[a] = Key[b]

\* Mutant: the receiver pushes on what it was pushed.
RePublish_floods(m) ==
  /\ m.type = "RePublish"
  /\ LockFree(m.to)
  /\ torrents' = [torrents EXCEPT ![m.to] = publishTorrent(@, m.torrent, m.peer)]
  /\ msgs' = (msgs \ {m}) \cup (IF Known(m.to, m.torrent) THEN {}
                               ELSE rePublishes(m.to, m.torrent, m.peer))
  /\ UNCHANGED <<up, boot, bk, frozen, pending, bkchanel, saving, disk, history>>

\* Mutant: a RePublish that meets the lock held is given up.
RePublish_trylock(m) ==
  /\ m.type = "RePublish"
  /\ up[m.to]
  /\ torrents' = IF ~LockFree(m.to) \/ bkchanel[m.to] # {} THEN torrents
                 ELSE [torrents EXCEPT ![m.to] = publishTorrent(@, m.torrent, m.peer)]
  /\ msgs' = msgs \ {m}
  /\ UNCHANGED <<up, boot, bk, frozen, pending, bkchanel, saving, disk, history>>

\* Mutant: the map is written without the lock.
RePublish_nolock(m) ==
  /\ m.type = "RePublish"
  /\ up[m.to]
  /\ torrents' = IF ~SameKey(m.from, m.to) THEN torrents
                 ELSE [torrents EXCEPT ![m.to] = publishTorrent(@, m.torrent, m.peer)]
  /\ msgs' = msgs \ {m}
  /\ UNCHANGED <<up, boot, bk, frozen, pending, bkchanel, saving, disk, history>>

\* RePublish: the keys are compared first; what is learned is not pushed on.
RePublish(m) ==
  /\ m.type = "RePublish"
  /\ LockFree(m.to)
  /\ torrents' = IF ~SameKey(m.from, m.to) THEN torrents
                 ELSE [torrents EXCEPT ![m.to] = publishTorrent(@, m.torrent, m.peer)]
  /\ msgs' = msgs \ {m}
  /\ UNCHANGED <<up, boot, bk, frozen, pending, bkchanel, saving, disk, history>>

answer(m, status) ==
  [type |-> "KnowMeReply", from |-> m.to, to |-> m.from,
   boot |-> m.boot, status |-> status]

\* The process that sent m still waits for the answer.
Awaited(m) == up[m.from] /\ m.boot = boot[m.from] /\ m.to \in pending[m.from]

\* An answer to a call that is over is dropped.
Reply(m, status) ==
  msgs' = (msgs \ {m}) \cup (IF Awaited(m) THEN {answer(m, status)} ELSE {})

\* KnowMe from a tracker started with an -ip that is not an address, such as
\* the default "localhost": refused before the lock is taken.
KnowMeBadIP(m) ==
  /\ m.type = "KnowMe"
  /\ up[m.to]
  /\ m.from \notin Literal
  /\ Reply(m, "FAILEDIP")
  /\ UNCHANGED <<mem, saving, disk, history>>

\* KnowMe with another key returns between Lock and Unlock.
KnowMeBadKey(m) ==
  /\ m.type = "KnowMe"
  /\ m.from \in Literal
  /\ LockFree(m.to)
  /\ ~SameKey(m.from, m.to)
  /\ frozen' = [frozen EXCEPT ![m.to] = TRUE]
  /\ Reply(m, "UNKNOWNREDKEY")
  /\ UNCHANGED <<up, boot, torrents, bk, pending, bkchanel, saving, disk, history>>

\* KnowMe from a tracker that is known already: so does this return.
KnowMeFound(m) ==
  /\ m.type = "KnowMe"
  /\ m.from \in Literal
  /\ LockFree(m.to)
  /\ SameKey(m.from, m.to)
  /\ m.from \in bk[m.to]
  /\ frozen' = [frozen EXCEPT ![m.to] = TRUE]
  /\ Reply(m, "FAILED")
  /\ UNCHANGED <<up, boot, torrents, bk, pending, bkchanel, saving, disk, history>>

\* Mutant: the key is not compared.
KnowMe_anyKey(m) ==
  /\ m.type = "KnowMe"
  /\ LockFree(m.to)
  /\ bk' = [bk EXCEPT ![m.to] = @ \cup {m.from}]
  /\ Reply(m, "OK")
  /\ UNCHANGED <<up, boot, torrents, frozen, pending, bkchanel, saving, disk, history>>

\* KnowMe from a new tracker with the same key.
KnowMe(m) ==
  /\ m.type = "KnowMe"
  /\ m.from \in Literal
  /\ LockFree(m.to)
  /\ SameKey(m.from, m.to)
  /\ m.from \notin bk[m.to]
  /\ bk' = [bk EXCEPT ![m.to] = @ \cup {m.from}]
  /\ Reply(m, "OK")
  /\ UNCHANGED <<up, boot, torrents, frozen, pending, bkchanel, saving, disk, history>>

\* Mutant: the status of the answer is not looked at.
KnowMeAnswered_anyStatus(m) ==
  /\ m.type = "KnowMeReply"
  /\ m.from \in pending[m.to]
  /\ pending' = [pending EXCEPT ![m.to] = @ \ {m.from}]
  /\ bkchanel' = [bkchanel EXCEPT ![m.to] = @ \cup {m.from}]
  /\ msgs' = msgs \ {m}
  /\ UNCHANGED <<up, boot, torrents, bk, frozen, saving, disk, history>>

\* makeKnowMeConnection gets its answer and passes a positive one on.
KnowMeAnswered(m) ==
  /\ m.type = "KnowMeReply"
  /\ up[m.to]
  /\ m.boot = boot[m.to]
  /\ m.from \in pending[m.to]
  /\ pending' = [pending EXCEPT ![m.to] = @ \ {m.from}]
  /\ bkchanel' = IF m.status \in {"OK", "ALREADYKNOWOK"}
                 THEN [bkchanel EXCEPT ![m.to] = @ \cup {m.from}]
                 ELSE bkchanel
  /\ msgs' = msgs \ {m}
  /\ UNCHANGED <<up, boot, torrents, bk, frozen, saving, disk, history>>

\* The 20 seconds of makeKnowMeConnection pass, or the connection breaks.  The
\* request may still be handled; its answer finds nobody.
KnowMeTimeout(a, b) ==
  /\ up[a]
  /\ b \in pending[a]
  /\ pending' = [pending EXCEPT ![a] = @ \ {b}]
  /\ msgs' = {m \in msgs : ~(/\ m.type = "KnowMeReply"
                             /\ m.to = a /\ m.from = b /\ m.boot = boot[a])}
  /\ gaveUp' = gaveUp \cup {<<a, b>>}
  /\ UNCHANGED <<up, boot, torrents, bk, frozen, bkchanel, saving, disk, published, owed>>

\* putBkTrackersIntoServer takes one answer off the channel, under the lock.
PutBk(a, b) ==
  /\ LockFree(a)
  /\ b \in bkchanel[a]
  /\ bkchanel' = [bkchanel EXCEPT ![a] = @ \ {b}]
  /\ bk' = [bk EXCEPT ![a] = @ \cup {b}]
  /\ UNCHANGED <<up, boot, torrents, frozen, pending, saving, disk, msgs, history>>

\* A request is lost: nothing sends it again.
Lose(m) ==
  /\ Lossy
  /\ msgs' = msgs \ {m}
  /\ UNCHANGED <<mem, saving, disk, history>>

-------------------------------------------------------------------------------
(* Saving, crashing, starting. *)

\* saveData wakes up and takes the read lock.
SaveBegin(a) ==
  /\ a \in Savers
  /\ RLockFree(a)
  /\ saving[a] = Idle
  /\ saving' = [saving EXCEPT ![a] = [f \in Files |-> "todo"]]
  /\ UNCHANGED <<mem, disk, msgs, history>>

\* Mutant: the file holds the peers and not their states.
marshalTorrents_stateless(tp) ==
  [t \in Torrents |->
    IF t \in TextHashes
    THEN [tp[t] EXCEPT !.peers =
            [p \in Peers |-> IF tp[t].peers[p] = "none" THEN "none" ELSE "seeder"]]
    ELSE NoTorrent]

\* json.MarshalIndent of the torrents.  A map key that is not UTF-8 is written
\* with U+FFFD for its bad bytes: longer than 20 bytes, no request names it.
marshalTorrents(tp) == [t \in Torrents |-> IF t \in TextHashes THEN tp[t] ELSE NoTorrent]

\* ioutil.WriteFile truncates the file ...
SaveTruncate(a, f) ==
  /\ up[a]
  /\ saving[a][f] = "todo"
  /\ saving' = [saving EXCEPT ![a][f] = "open"]
  /\ disk' = IF f = "torrents"
             THEN [disk EXCEPT ![a].torrents =
                     [whole |-> FALSE, val |-> marshalTorrents(torrents[a])]]
             ELSE [disk EXCEPT ![a].bk = [whole |-> FALSE, val |-> bk[a]]]
  /\ UNCHANGED <<mem, msgs, history>>

\* ... and writes it.  The read lock is released when both files are done.
SaveWrite(a, f) ==
  /\ up[a]
  /\ saving[a][f] = "open"
  /\ saving' = [saving EXCEPT ![a][f] = "idle"]
  /\ disk' = IF f = "torrents" THEN [disk EXCEPT ![a].torrents.whole = TRUE]
                               ELSE [disk EXCEPT ![a].bk.whole = TRUE]
  /\ UNCHANGED <<mem, msgs, history>>

\* The process of a ends: memory and open connections are gone, files stay.
Die(a) ==
  /\ boot[a] < MaxBoots[a]
  /\ up' = [up EXCEPT ![a] = FALSE]
  /\ torrents' = [torrents EXCEPT ![a] = NoTorrents]
  /\ bk' = [bk EXCEPT ![a] = {}]
  /\ frozen' = [frozen EXCEPT ![a] = FALSE]
  /\ pending' = [pending EXCEPT ![a] = {}]
  /\ bkchanel' = [bkchanel EXCEPT ![a] = {}]
  /\ saving' = [saving EXCEPT ![a] = Idle]
  /\ msgs' = {m \in msgs : ~(m.type = "KnowMeReply" /\ m.to = a)}
  /\ UNCHANGED <<boot, disk, history>>

Crash(a) == up[a] /\ Die(a)

\* "stopped" from a peer the torrent does not list: a nil pointer is stored
\* through, and no handler of the server recovers from the panic.
AnnouncePanic(a, t, p, event) ==
  /\ RLockFree(a)
  /\ Known(a, t)
  /\ event \in AnnounceEvents
  /\ Panics(torrents[a][t], p, event)
  /\ Die(a)

\* loadBkTrackers, and newTrackerServerFromLoad's reading of the torrents.
loadBkTrackers(a) == IF disk[a].bk.whole THEN disk[a].bk.val ELSE {}
loadTorrents(a)   == IF disk[a].torrents.whole THEN disk[a].torrents.val ELSE NoTorrents

\* getNewBkTrackersAddrs: what the saved list holds is left out, loaded or not.
getNewBkTrackersAddrs(a) == Contacts[a] \ loadBkTrackers(a)

\* main, with and without -load.
Start(a, load) ==
  LET queue == getNewBkTrackersAddrs(a) IN
  /\ ~up[a]
  /\ boot[a] < MaxBoots[a]
  /\ up' = [up EXCEPT ![a] = TRUE]
  /\ boot' = [boot EXCEPT ![a] = @ + 1]
  /\ torrents' = [torrents EXCEPT ![a] = IF load THEN loadTorrents(a) ELSE NoTorrents]
  /\ bk' = [bk EXCEPT ![a] = IF load THEN loadBkTrackers(a) ELSE {}]
  /\ pending' = [pending EXCEPT ![a] = queue]
  /\ msgs' = msgs \cup [type : {"KnowMe"}, from : {a}, to : queue, boot : {boot[a] + 1}]
  /\ UNCHANGED <<frozen, bkchanel, saving, disk, history>>

-------------------------------------------------------------------------------

\* Requests of peers other than the announces that a tracker grants.
PeerRequest(a) ==
  \/ Scrape(a)
  \/ \E t \in Torrents :
       \/ AnnounceUnknown(a, t)
       \/ \E p \in Peers :
            \/ p \notin Passive /\ Publish(a, t, p)
            \/ \E event \in AnnounceEvents : AnnouncePanic(a, t, p, event)

Deliver(m) ==
  \/ RePublish(m)
  \/ KnowMeBadIP(m) \/ KnowMeBadKey(m) \/ KnowMeFound(m) \/ KnowMe(m)
  \/ KnowMeAnswered(m)

Save(a) == \E f \in Files : SaveTruncate(a, f) \/ SaveWrite(a, f)

Next ==
  \/ \E a \in Trackers, t \in Torrents, p \in Peers \ Passive, event \in AnnounceEvents :
       Announce(a, t, p, event)
  \/ \E a \in Trackers : PeerRequest(a) \/ SaveBegin(a) \/ Save(a) \/ Crash(a)
  \/ \E a \in Trackers, load \in BOOLEAN : Start(a, load)
  \/ \E a, b \in Trackers : PutBk(a, b) \/ KnowMeTimeout(a, b)
  \/ \E m \in msgs : Deliver(m) \/ Lose(m)

Spec == Init /\ [][Next]_vars

-------------------------------------------------------------------------------
(* Properties. *)

\* Every variable has its type.
TypeOK ==
  /\ up \in [Trackers -> BOOLEAN]
  /\ boot \in [Trackers -> Nat]
  /\ torrents \in [Trackers -> [Torrents -> TorrentTk]]
  /\ bk \in [Trackers -> SUBSET Trackers]
  /\ frozen \in [Trackers -> BOOLEAN]
  /\ pending \in [Trackers -> SUBSET Trackers]
  /\ bkchanel \in [Trackers -> SUBSET Trackers]
  /\ saving \in [Trackers -> [Files -> {"idle", "todo", "open"}]]
  /\ disk \in [Trackers -> [torrents : TorrentsFile, bk : BkFile]]
  /\ msgs \in SUBSET Message
  /\ published \in SUBSET (Trackers \X Torrents \X Peers)
  /\ owed \in SUBSET (Trackers \X Torrents)
  /\ gaveUp \in SUBSET (Trackers \X Trackers)

\* A tracker only ever replicates to trackers with its own -redKey, although
\* the list comes from three places: KnowMe received, KnowMe answered, file.
KeyIsolation == \A a \in Trackers : \A b \in bk[a] : Key[b] = Key[a]

\* A tracker that names a seeder heard of it from a Publish, its own or that
\* of a tracker with its key; restarts, late and lost messages included.
SeederProvenance ==
  \A a \in Trackers, t \in Torrents, p \in Peers :
    torrents[a][t].peers[p] = "seeder" =>
      \E b \in Trackers : Key[b] = Key[a] /\ <<b, t, p>> \in published

\* RePublish travels one hop: whoever sends it was told by the peer itself.
\* Otherwise two trackers that know each other could push for ever.
OneHop ==
  \A m \in msgs : m.type = "RePublish" => <<m.from, m.torrent, m.peer>> \in published

\* When no message is lost, a torrent pushed to a tracker is known there or
\* on its way, unless that tracker went down: no RePublish is dropped inside.
ReplicaReached ==
  \A b \in Trackers, t \in Torrents :
    <<b, t>> \in owed /\ ~Lossy =>
      \/ Known(b, t)
      \/ \E m \in msgs : m.type = "RePublish" /\ m.to = b /\ m.torrent = t
      \/ boot[b] > 1 \/ ~up[b]

\* An approved KnowMe makes both trackers replicate to each other: the one that
\* asked knows the other, or still waits for or is still to take note of its
\* answer; unless it went down, or stopped waiting after 20 seconds.  Lost
\* messages, late answers and KnowMe calls that cross included.
KnownMutually ==
  \A a, b \in Trackers :
    b \in bk[a] =>
      \/ a \in bk[b] \cup pending[b] \cup bkchanel[b] \/ <<b, a>> \in gaveUp
      \/ boot[b] > 1 \/ ~up[b]

\* A tracker whose lock KnowMe leaked takes nothing in, learns no tracker and
\* saves nothing until it is started again.
FrozenIsMute ==
  [][\A a \in Trackers :
       frozen[a] /\ up'[a] =>
         UNCHANGED <<torrents[a], bk[a], frozen[a], disk[a], saving[a]>>]_vars

\* A peer that stopped is offered again only after it announced "started":
\* no late RePublish and no second Publish makes a seeder of it.
StoppedStays ==
  [][\A a \in Trackers, t \in Torrents, p \in Peers :
       torrents[a][t].peers[p] = "stopped" /\ up'[a] =>
         torrents'[a][t].peers[p] \in {"stopped", "started"}]_vars

\* When saveData releases the read lock both files parse, and they hold the
\* trackers and the torrents (those JSON can hold) that are in memory: nothing
\* was published and no tracker was added while they were written.
SaveIsSnapshot ==
  [][\A a \in Trackers :
       saving[a] # Idle /\ saving'[a] = Idle /\ up'[a] =>
         /\ disk'[a].bk = [whole |-> TRUE, val |-> bk'[a]]
         /\ disk'[a].torrents.whole
         /\ \A t \in TextHashes : (disk'[a].torrents.val[t] = NoTorrent) <=> ~Known(a, t)]_vars

-------------------------------------------------------------------------------
(* The refinement: the facts of TrackerRegistry are the seeders. *)

Facts == Torrents \X Peers

seeders(tp) == {f \in Facts : tp[f[1]].peers[f[2]] = "seeder"}

originatedFacts == [a \in Trackers |-> {f \in Facts : <<a, f[1], f[2]>> \in published}]
viewFacts       == [a \in Trackers |-> seeders(torrents[a])]
writtenFacts    == [a \in Trackers |-> seeders(disk[a].torrents.val)]

Registry == INSTANCE TrackerRegistry WITH
  originated <- originatedFacts, view <- viewFacts, written <- writtenFacts

\* The trackers implement TrackerRegistry: whatever is lost, repeated, cut
\* short or restarted, each step is one of its steps or changes no fact.
ImplementsRegistry == Registry!RegistrySpec
===============================================================================
