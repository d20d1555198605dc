------------------------------ MODULE KeyStore ------------------------------
(***************************************************************************)
(* What the dotfile of credentials promises, with no temporary files, no   *)
(* system calls, no lines and no disk: every client takes a snapshot of    *)
(* what it can see and commits the snapshot with one key changed, in one   *)
(* step.  A power cut may take back commits that had not settled, whole    *)
(* ones only.                                                              *)
(***************************************************************************)
CONSTANTS
  Clients, Keys, Values, None,
  Plain,    \* values that are read as they were written
  Long      \* values that make the whole map unreadable

VARIABLES
  now,      \* the map, and whether its readers are shown it
  settled,  \* the one a power cut goes back to
  snap,     \* snap[c]: the snapshot of client c
  fresh     \* clients that have not used or dropped their snapshot

Nothing == [k \in Keys |-> None]

Visible(s) == IF s.shown THEN s.map ELSE Nothing

Maps    == [Keys -> Plain \cup {None}]
Fits(m) == \A k \in Keys : m[k] \notin Long

Init ==
  /\ now \in [map : Maps, shown : BOOLEAN]
  /\ settled = now
  /\ snap = [c \in Clients |-> Nothing]
  /\ fresh = {}

Snapshot(c) ==
  /\ c \notin fresh
  /\ snap' = [snap EXCEPT ![c] = Visible(now)]
  /\ fresh' = fresh \cup {c}
  /\ UNCHANGED <<now, settled>>

Drop(c) ==
  /\ c \in fresh
  /\ snap' = [snap EXCEPT ![c] = Nothing]
  /\ fresh' = fresh \ {c}

(* Each snapshot is used once.  Nothing is promised of a value that is not *)
(* plain.                                                                  *)
Commit(c, k, v) ==
  /\ Drop(c)
  /\ LET m == [snap[c] EXCEPT ![k] = v] IN
       /\ now' \in [map : Maps, shown : {Fits(m)}]
       /\ v \in Plain \cup {None} => now'.map = m
  /\ UNCHANGED settled

GiveUp(c) == Drop(c) /\ UNCHANGED <<now, settled>>

Settle == settled' = now /\ UNCHANGED <<now, snap, fresh>>

PowerCut ==
  /\ now' = settled
  /\ snap' = [c \in Clients |-> Nothing]
  /\ fresh' = {}
  /\ UNCHANGED settled

(* The map is hidden from its readers, or shown to them again.             *)
Show(b) == now' = [now EXCEPT !.shown = b] /\ UNCHANGED <<settled, snap, fresh>>

Next ==
  \/ \E c \in Clients :
       \/ Snapshot(c) \/ GiveUp(c)
       \/ \E k \in Keys, v \in Values \cup {None} : Commit(c, k, v)
  \/ Settle \/ PowerCut
  \/ \E b \in BOOLEAN : Show(b)

Spec == Init /\ [][Next]_<<now, settled, snap, fresh>>
=============================================================================
