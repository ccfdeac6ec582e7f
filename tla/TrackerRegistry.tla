--------------------------- MODULE TrackerRegistry ---------------------------
(***************************************************************************)
(* What the replicated trackers promise, without messages, locks or files. *)
(*                                                                         *)
(* A fact <<t, p>> says that peer p seeds torrent t.  A fact is originated *)
(* at a tracker by the peer itself; another tracker of the same network    *)
(* (the same key) may learn it from the tracker where it was originated,   *)
(* and from no other.  A tracker forgets a fact when the peer says so or   *)
(* when it is restarted, and then remembers nothing that it had not        *)
(* written down.                                                           *)
(***************************************************************************)
CONSTANTS Trackers, Peers, Torrents, Key

VARIABLES
  originated,  \* originated[a]: facts peers told a
  view,        \* view[a]: facts a answers with
  written      \* written[a]: the facts of a's last checkpoint

rvars == <<originated, view, written>>

Facts == Torrents \X Peers

RegistryTypeOK ==
  /\ originated \in [Trackers -> SUBSET Facts]
  /\ view \in [Trackers -> SUBSET Facts]
  /\ written \in [Trackers -> SUBSET Facts]

RegistryInit ==
  /\ originated = [a \in Trackers |-> {}]
  /\ view = [a \in Trackers |-> {}]
  /\ written = [a \in Trackers |-> {}]

Originate(a, f) ==
  /\ originated' = [originated EXCEPT ![a] = @ \cup {f}]
  /\ view' = [view EXCEPT ![a] = @ \cup {f}]
  /\ UNCHANGED written

Learn(a, b, f) ==
  /\ Key[a] = Key[b]
  /\ f \in originated[b]
  /\ view' = [view EXCEPT ![a] = @ \cup {f}]
  /\ UNCHANGED <<originated, written>>

Withdraw(a, f) ==
  /\ view' = [view EXCEPT ![a] = @ \ {f}]
  /\ UNCHANGED <<originated, written>>

\* What is written is what is known, or less: a file may not hold it all.
Checkpoint(a) ==
  /\ \E S \in SUBSET view[a] : written' = [written EXCEPT ![a] = S]
  /\ UNCHANGED <<originated, view>>

Restart(a) ==
  /\ \E S \in SUBSET written[a] : view' = [view EXCEPT ![a] = S]
  /\ UNCHANGED <<originated, written>>

RegistryNext ==
  \E a \in Trackers :
    \/ Checkpoint(a)
    \/ Restart(a)
    \/ \E f \in Facts : \/ Originate(a, f)
                        \/ Withdraw(a, f)
                        \/ \E b \in Trackers : Learn(a, b, f)

RegistrySpec == RegistryInit /\ [][RegistryNext]_rvars

\* Every fact a tracker answers with, or has on disk, was told by the peer to
\* some tracker of its network.
Sound ==
  \A a \in Trackers : \A f \in view[a] \cup written[a] :
    \E b \in Trackers : Key[a] = Key[b] /\ f \in originated[b]
===============================================================================
