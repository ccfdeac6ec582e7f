----------------------------- MODULE TrackerClaims -----------------------------
(***************************************************************************)
(* What README.md says of the trackers and the code does not do.  Each     *)
(* property is checked by a run of its own, which finds a counterexample.  *)
(***************************************************************************)
EXTENDS MCTrackerNet

VARIABLE saved   \* history: the torrents and trackers of a's last complete save

claimVars == <<vars, saved>>

KnownAt(tp) == {t \in Torrents : tp[t] # NoTorrent}

ClaimsInit ==
  /\ Init
  /\ saved = [a \in Trackers |-> [torrents |-> {}, bk |-> {}]]

\* The last SaveWrite of a round makes it complete.
CompletesSave(a) == Save(a) /\ saving'[a] = Idle

ClaimsNext ==
  /\ Next
  /\ saved' = [a \in Trackers |->
       IF CompletesSave(a) THEN [torrents |-> KnownAt(torrents[a]), bk |-> bk[a]] ELSE saved[a]]

ClaimsSpec == ClaimsInit /\ [][ClaimsNext]_claimVars

-------------------------------------------------------------------------------

\* README.md:61: when a tracker fails another one can answer for it.  The
\* KnowMe of a tracker that comes back freezes the one that stayed up.
SurvivorAnswers == \A a \in Trackers : boot[a] = 1 => ~frozen[a]

\* README.md:64: a tracker keeps a copy of its data to recover the last state
\* it had.  JSON cannot hold an infohash that is not UTF-8, which is what the run
\* shows; a crash in the next save, which truncates the only copy, breaks it too.
LoadRestoresSave ==
  [][\A a \in Trackers :
       Start(a, TRUE) => /\ saved[a].torrents \subseteq KnownAt(torrents'[a])
                         /\ saved[a].bk \subseteq bk'[a]]_claimVars
===============================================================================
