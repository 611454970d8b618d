---------------------------- MODULE StateSyncAbs ----------------------------
(***************************************************************************)
(* What a state sync promises its caller (spec sections 7 and 8), with no  *)
(* scheduler, workers, filter or staging in sight: the durable store only  *)
(* ever gains the verified content of nodes reachable from the root; the   *)
(* sync completes only once it holds every reachable node, and aborts     *)
(* only when a reachable account leaf does not decode.                     *)
(***************************************************************************)
CONSTANTS
  Hashes,   \* content hashes
  Root,     \* the state root
  Succ(_),  \* Succ(h): what the content named h references
  Bad       \* the hashes whose content is an undecodable account leaf

VARIABLES
  status,   \* "running", "complete" or "aborted"
  store     \* the durable store: pairs <<key, digest of the stored bytes>>

avars == <<status, store>>

(* The nodes reachable from the root: the least set that holds the root    *)
(* and everything its members reference.                                   *)
Closed(S) == Root \in S /\ \A h \in S : Succ(h) \subseteq S
Reachable == {h \in Hashes : \A S \in SUBSET Hashes : Closed(S) => h \in S}

(* A verified entry: the bytes stored under h hash to h.                   *)
Entries(S) == {<<h, h>> : h \in S}

Init ==
  /\ status = "running"
  /\ store = {}

(* The store gains verified content of reachable nodes, and nothing else. *)
Grow == store \subseteq store' /\ store' \ store \subseteq Entries(Reachable)

Write == Grow /\ UNCHANGED status

Complete ==
  /\ status = "running"
  /\ Grow
  /\ Entries(Reachable) \subseteq store'
  /\ status' = "complete"

Abort ==
  /\ status = "running"
  /\ Reachable \cap Bad # {}
  /\ status' = "aborted"
  /\ UNCHANGED store

Next == Write \/ Complete \/ Abort

Spec == Init /\ [][Next]_avars

=============================================================================
