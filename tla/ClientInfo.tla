------------------------------ MODULE ClientInfo ------------------------------
(***************************************************************************)
(* info.json: the identifier of a client and the torrents it serves, as    *)
(* SaveToInfo (main.go, utils.go) and the uploader use it.                 *)
(*                                                                         *)
(* The file the repository ships has its entries under "0", "1" and "2";   *)
(* SaveToInfo adds entries under the infohash.  Of an entry only its       *)
(* InfoHash is kept here.  A key is written to the file as JSON, which     *)
(* replaces the bytes that are not text.                                   *)
(***************************************************************************)
EXTENDS Naturals

CONSTANTS
  InfoHashes,   \* infohashes of torrents
  ZeroHash,     \* [20]byte{}: of an empty entry, and of a download that failed
  JsonKey,      \* JsonKey[h]: the key string(h) is read back as; h if that is text
  Missing,      \* of a key that is not in the map
  NoId          \* ""

Hashes == InfoHashes \cup {ZeroHash}
Keys   == {"0", "1", "2"} \cup {JsonKey[h] : h \in Hashes}

\* ClientInfo.TorrentFiles: an entry under another key than a number is of a
\* torrent with that key.
TorrentFiles ==
  {files \in [Keys -> Hashes \cup {Missing}] :
     \A k \in Keys \ {"0", "1", "2"} : files[k] = Missing \/ JsonKey[files[k]] = k}

HasInfoHash(files, h) == \E k \in Keys : files[k] = h

\* Mutant: the torrents that are there are not copied.
copied_none(files) == [k \in Keys |-> Missing]

\* The loop that copies the entries.
copied(files) == files

\* What is read back when the entry of h is added to base.  A key that is not
\* text is then in the map twice if it was read back before, and is written
\* twice: which of the two entries is the last, and stays, the order of the raw
\* bytes decides.
written(base, h) ==
  {[base EXCEPT ![JsonKey[h]] = h]} \cup
  (IF JsonKey[h] # h /\ base[JsonKey[h]] # Missing THEN {base} ELSE {})

\* Mutant: the identifier is not copied.
SaveToInfo_noId(info, h) ==
  {[PeerId |-> NoId, TorrentFiles |-> files] : files \in written(info.TorrentFiles, h)}

\* SaveToInfo for infohash h: the files it may leave.  The index of a new entry
\* is the size of a map that was just made, plus one, whatever is there: an
\* empty entry is put under it, and the entry of the torrent under its infohash.
SaveToInfo(info, h) ==
  LET base == IF HasInfoHash(info.TorrentFiles, h) THEN copied(info.TorrentFiles)
              ELSE [copied(info.TorrentFiles) EXCEPT !["1"] = ZeroHash]
  IN {[PeerId |-> info.PeerId, TorrentFiles |-> files] : files \in written(base, h)}

\* The torrents that are served: the uploader looks for the InfoHash of an entry.
Listed(files) == {files[k] : k \in Keys} \cap InfoHashes
===============================================================================
