---------------------------- MODULE MCStateSync ----------------------------
(***************************************************************************)
(* A small state for StateSync: a root branch with two account leaves that *)
(* share one storage trie of two nodes; one account has the "no code"      *)
(* sentinel, the other has a code blob (spec section 8, scenario A).       *)
(***************************************************************************)
EXTENDS StateSync

CONSTANTS r, a1, a2, s1, s2, c1

MCHashes == {r, a1, a2, s1, s2, c1}

MCRefs == [h \in MCHashes |-> IF h = r THEN {a1, a2}
                              ELSE IF h = s1 THEN {s2} ELSE {}]

MCAcct == [h \in MCHashes |->
             IF h = a1 THEN [root |-> s1, code |-> EmptyCode]
             ELSE IF h = a2 THEN [root |-> s1, code |-> c1]
             ELSE NotLeaf]

(* The same trie with the second leaf's bytes undecodable.                 *)
MCAcctBad == [MCAcct EXCEPT ![a2] = Malformed]

MCIsCode == [h \in MCHashes |-> h = c1]

(* The filter wrongly claims the shared storage root.                      *)
MCFalsePos == {s1}
(* Reachable of StateSyncAbs for this trie, written out so that the run   *)
(* does not recompute the least fixpoint at every step: every hash of the  *)
(* instance is reachable from the root.  TLC checks the assumption once.   *)
MCReachable == MCHashes

ASSUME MCReachableAssumption ==
  MCReachable = {h \in Hashes : \A S \in SUBSET Hashes : Abs!Closed(S) => h \in S}
=============================================================================
