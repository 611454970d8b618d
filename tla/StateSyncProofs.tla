-------------------------- MODULE StateSyncProofs --------------------------
(***************************************************************************)
(* Proofs about StateSync for every value of its constants: the type       *)
(* invariant, and that the scheduler never holds two PendingItems for one  *)
(* hash nor a PendingItem for content it has already staged.               *)
(***************************************************************************)
EXTENDS StateSync, TLAPS

(* UniquePending is not inductive alone: a Commit registers what the       *)
(* filter does not claim, so the filter must cover the StagingStore.       *)
StagedInFilter == Keys(staged) \subseteq bloom

IInv == TypeOK /\ UniquePending /\ StagedInFilter

(* What a commit of content d registers is new: typed, not pending, and   *)
(* not claimed by the filter (hence, by StagedInFilter, not staged).       *)
LEMMA DiscoveredFresh ==
  ASSUME TypeOK, NEW d \in Hashes
  PROVE  /\ Discovered(d) \subseteq Hashes
         /\ Discovered(d) \cap Pending = {}
         /\ Discovered(d) \cap bloom = {}
<1>1. Acct[d] \in Accounts => {BytesToHash(Acct[d].code)} \ Sentinels \subseteq Hashes
  BY ContentAssumption DEF Accounts, BytesToHash, Sentinels
<1>2. Acct[d] \in Accounts => Acct[d].root \in Hashes
  BY ContentAssumption DEF Accounts
<1>3. Refs[d] \subseteq Hashes
  BY ContentAssumption
<1>. QED
  BY <1>1, <1>2, <1>3
  DEF Discovered, LeafCallback, AddCodeEntry, AddSubTrie, MightHave

(* The type invariant holds initially and is preserved by every step.      *)
LEMMA InitIInv == Init => IInv
  BY RootAssumption, BoundsAssumption DEF Init, IInv, TypeOK, UniquePending, StagedInFilter,
     Pending, Keys, WState

LEMMA NextIInv == IInv /\ [Next]_vars => IInv'
<1> SUFFICES ASSUME IInv, [Next]_vars PROVE IInv'
  OBVIOUS
<1> USE DEF IInv
<1>1. ASSUME NEW w \in Workers, NextBatch(w) PROVE IInv'
  <2>1. PICK b \in kSubset(IF Cardinality(missing) < MaxBatch
                           THEN Cardinality(missing) ELSE MaxBatch, missing) :
          /\ batch' = [batch EXCEPT ![w] = b]
          /\ missing' = missing \ b
    BY <1>1 DEF NextBatch
  <2>2. b \subseteq missing
    BY <2>1 DEF kSubset
  <2>3. TypeOK'
    BY <1>1, <2>1, <2>2 DEF NextBatch, TypeOK, WState
  <2>4. UniquePending'
    BY <1>1, <2>1, <2>2 DEF NextBatch, TypeOK, UniquePending, Pending
  <2>5. StagedInFilter'
    BY <1>1 DEF NextBatch, StagedInFilter
  <2>. QED  BY <2>3, <2>4, <2>5
<1>2. ASSUME NEW w \in Workers, SendOk(w) PROVE IInv'
  BY <1>2 DEF SendOk, TypeOK, WState, UniquePending, Pending, StagedInFilter
<1>3. ASSUME NEW w \in Workers, SendFail(w) PROVE IInv'
  BY <1>3 DEF SendFail, TypeOK, WState, UniquePending, Pending, StagedInFilter
<1>4. ASSUME NEW w \in Workers, Discard(w) PROVE IInv'
  BY <1>4 DEF Discard, TypeOK, WState, UniquePending, Pending, StagedInFilter
<1>5. ASSUME NEW w \in Workers, NEW h \in Hashes, NEW d \in Digests,
             Commit(w, h, d)
      PROVE IInv'
  <2>. DEFINE rest == batch[w] \ {h}
  <2>1. /\ h \in batch[w]
        /\ batch' = [batch EXCEPT ![w] = rest]
        /\ wstate' = [wstate EXCEPT ![w] = IF rest = {} THEN "idle" ELSE "received"]
        /\ UNCHANGED <<db, pbloom, crashes, cancels>>
    BY <1>5 DEF Commit
  <2>2. h \notin missing /\ \A v \in Workers : v # w => h \notin batch[v]
    BY <2>1 DEF UniquePending
  <2>3. h \notin Keys(staged)
    BY <2>1 DEF UniquePending, Pending
  <2>4. CASE d = h
    <3>1. /\ staged' = staged \cup {<<h, d>>}
          /\ bloom' = bloom \cup {h}
          /\ missing' = missing \cup Discovered(d)
          /\ status' \in {"running", "aborted"}
      BY <1>5, <2>4 DEF Commit
    <3>2. /\ Discovered(d) \subseteq Hashes
          /\ Discovered(d) \cap Pending = {}
          /\ Discovered(d) \cap bloom = {}
      BY <2>4, DiscoveredFresh
    <3>3. TypeOK'
      BY <2>1, <2>4, <3>1, <3>2 DEF TypeOK, WState
    <3>4. Keys(staged') = Keys(staged) \cup {h}
      <4>1. \A p \in staged' : p[1] \in Keys(staged) \cup {h}
        BY <3>1 DEF Keys
      <4>2. \A k \in Keys(staged) : \E p \in staged' : p[1] = k
        BY <3>1 DEF Keys
      <4>3. <<h, d>> \in staged' /\ <<h, d>>[1] = h
        BY <3>1
      <4>. QED  BY <4>1, <4>2, <4>3 DEF Keys
    <3>5. StagedInFilter'
      BY <3>1, <3>4 DEF StagedInFilter
    <3>6. Pending' = (Pending \ {h}) \cup Discovered(d)
      BY <2>1, <2>2, <3>1 DEF Pending, UniquePending, TypeOK
    <3>7. UniquePending'
      <4>1. \A v \in Workers : missing' \cap batch'[v] = {}
        BY <2>1, <2>2, <3>1, <3>2 DEF UniquePending, Pending, TypeOK
      <4>2. \A u, v \in Workers : u # v => batch'[u] \cap batch'[v] = {}
        BY <2>1 DEF UniquePending, TypeOK
      <4>3. Pending' \cap Keys(staged') = {}
        BY <2>1, <2>3, <3>2, <3>4, <3>6 DEF UniquePending, StagedInFilter, Pending
      <4>. QED  BY <4>1, <4>2, <4>3 DEF UniquePending
    <3>. QED  BY <3>3, <3>5, <3>7
  <2>5. CASE d # h
    <3>1. /\ missing' = missing \cup {h}
          /\ UNCHANGED <<staged, bloom, status>>
      BY <1>5, <2>5 DEF Commit
    <3>. QED
      BY <2>1, <2>2, <2>3, <3>1
      DEF TypeOK, WState, UniquePending, Pending, StagedInFilter
  <2>. QED  BY <2>4, <2>5
<1>6. CASE SetHead
  BY <1>6, BoundsAssumption DEF SetHead, TypeOK, WState, UniquePending, Pending, StagedInFilter
<1>7. CASE Flush
  BY <1>7 DEF Flush, TypeOK, UniquePending, Pending, StagedInFilter, Keys
<1>8. CASE Complete
  BY <1>8 DEF Complete, TypeOK, UniquePending, Pending, StagedInFilter, Keys
<1>9. CASE CrashRestart
  <2>1. Keys(staged') = {}
    BY <1>9 DEF CrashRestart, Keys
  <2>. QED
    BY <1>9, <2>1, RootAssumption, FilterAssumption, BoundsAssumption
    DEF CrashRestart, TypeOK, WState, UniquePending, Pending, StagedInFilter
<1>10. CASE UNCHANGED vars
  BY <1>10 DEF vars, TypeOK, UniquePending, Pending, StagedInFilter, Keys
<1>. QED
  BY <1>1, <1>2, <1>3, <1>4, <1>5, <1>6, <1>7, <1>8, <1>9, <1>10 DEF Next

(* The type invariant of the scheduler.                                    *)
THEOREM TypeCorrect == Spec => []TypeOK
<1>1. Spec => []IInv
  BY InitIInv, NextIInv, PTL DEF Spec
<1>. QED  BY <1>1 DEF IInv

(* The scheduler never holds two PendingItems for one hash, nor one for a  *)
(* hash whose content is staged, whatever the interleaving of workers,     *)
(* failed sends, digest mismatches, SetHead cancellations and crashes.     *)
THEOREM UniquePendingHolds == Spec => []UniquePending
<1>1. Spec => []IInv
  BY InitIInv, NextIInv, PTL DEF Spec
<1>. QED  BY <1>1 DEF IInv
-----------------------------------------------------------------------------
(* The durable store, the staging store and the scheduler's pending set    *)
(* hold only reachable hashes, and the stores only verified content.       *)
StoreVerified == staged \cup db \subseteq Abs!Entries(Reachable)
PendingReachable == Pending \subseteq Reachable

RInv == IInv /\ StoreVerified /\ PendingReachable

(* A filter without false positives that does not outlive a crash.         *)
ExactFilter == FalsePos = {} /\ PersistFilter = FALSE

(* What makes the completion test sound: every hash the filter holds is    *)
(* stored, its successors are in the filter or pending, and the root is    *)
(* one or the other.  With no pending hash left, the filter is a closed    *)
(* set holding the root, hence holds everything reachable.                 *)
FilterStored == \A h \in bloom : <<h, h>> \in staged \cup db
FilterClosed == \A h \in bloom : Succ(h) \subseteq bloom \cup Pending
RootCovered == Root \in bloom \cup Pending

(* A worker that is idle or whose Send was abandoned holds no batch.       *)
IdleEmpty == \A w \in Workers : wstate[w] \in {"idle", "abandoned"} => batch[w] = {}

CRest == IdleEmpty /\ FilterStored /\ FilterClosed /\ RootCovered /\ SyncCorrect

CInv == RInv /\ CRest

(* What a node references is a hash of the state.                          *)
LEMMA SuccType ==
  ASSUME NEW h \in Hashes
  PROVE  Succ(h) \subseteq Hashes
BY ContentAssumption DEF Succ, Accounts, BytesToHash, Sentinels

(* The root is reachable.                                                  *)
LEMMA RootReachable == Root \in Reachable
BY RootAssumption DEF Reachable, Abs!Reachable, Abs!Closed

(* Reachable is closed under Succ.                                         *)
LEMMA ReachableClosed ==
  ASSUME NEW h \in Reachable
  PROVE  Succ(h) \subseteq Reachable
<1>1. h \in Hashes
  BY DEF Reachable, Abs!Reachable

<1>2. Succ(h) \subseteq Hashes
  BY <1>1, SuccType
<1>3. \A S \in SUBSET Hashes : Abs!Closed(S) => Succ(h) \subseteq S
  BY DEF Reachable, Abs!Reachable, Abs!Closed
<1>. QED  BY <1>2, <1>3 DEF Reachable, Abs!Reachable

(* Reachable is contained in every closed set of hashes.                   *)
LEMMA ReachableLeast ==
  ASSUME NEW S \in SUBSET Hashes, Abs!Closed(S)
  PROVE  Reachable \subseteq S
BY DEF Reachable, Abs!Reachable

(* What a commit of d registers is among d's successors, and, with no      *)
(* false positives, every successor is registered, in the filter or        *)
(* already pending.                                                        *)
LEMMA DiscoveredSucc ==
  ASSUME NEW d \in Hashes
  PROVE  /\ Discovered(d) \subseteq Succ(d)
         /\ FalsePos = {} => Succ(d) \subseteq Discovered(d) \cup bloom \cup Pending
<1>1. CASE IsCode[d]
  BY <1>1 DEF Discovered, Succ
<1>2. CASE ~IsCode[d]
  <2>1. Discovered(d) = AddSubTrie(Refs[d]) \cup LeafCallback(d)
    BY <1>2 DEF Discovered
  <2>2. Succ(d) = Refs[d] \cup (IF Acct[d] \in Accounts
                                THEN ({Acct[d].root, BytesToHash(Acct[d].code)} \ Sentinels)
                                ELSE {})
    BY <1>2 DEF Succ
  <2>3. Acct[d] \in Accounts => Acct[d].root \notin Sentinels
    BY ContentAssumption DEF Accounts
  <2>4. LeafCallback(d) = IF Acct[d] \in Accounts
                          THEN AddSubTrie({Acct[d].root, BytesToHash(Acct[d].code)} \ Sentinels)
                          ELSE {}
    BY <2>3 DEF LeafCallback, AddCodeEntry, AddSubTrie
  <2>. QED  BY <2>1, <2>2, <2>4 DEF AddSubTrie, MightHave
<1>. QED  BY <1>1, <1>2

(* The stores and the pending set stay within the reachable state, for    *)
(* every filter: what a verified commit registers is reachable.           *)
LEMMA NextRInv == RInv /\ [Next]_vars => RInv'
<1> SUFFICES ASSUME RInv, [Next]_vars PROVE RInv'
  OBVIOUS
<1>1. IInv'
  BY NextIInv DEF RInv
<1> SUFFICES StoreVerified' /\ PendingReachable'
  BY <1>1 DEF RInv
<1> USE DEF RInv, IInv
<1>2. ASSUME NEW w \in Workers, NextBatch(w) PROVE StoreVerified' /\ PendingReachable'
  <2>1. PICK b \in kSubset(IF Cardinality(missing) < MaxBatch
                           THEN Cardinality(missing) ELSE MaxBatch, missing) :
          /\ batch' = [batch EXCEPT ![w] = b]
          /\ missing' = missing \ b
    BY <1>2 DEF NextBatch
  <2>2. b \subseteq missing
    BY <2>1 DEF kSubset
  <2>3. Pending' \subseteq Pending
    BY <2>1, <2>2 DEF Pending, TypeOK
  <2>. QED  BY <1>2, <2>3 DEF NextBatch, StoreVerified, PendingReachable
<1>3. ASSUME NEW w \in Workers, SendOk(w) \/ Discard(w) PROVE StoreVerified' /\ PendingReachable'
  BY <1>3 DEF SendOk, Discard, StoreVerified, PendingReachable, Pending
<1>4. ASSUME NEW w \in Workers, SendFail(w) PROVE StoreVerified' /\ PendingReachable'
  <2>1. Pending' \subseteq Pending
    BY <1>4 DEF SendFail, Pending, TypeOK
  <2>. QED  BY <1>4, <2>1 DEF SendFail, StoreVerified, PendingReachable
<1>5. ASSUME NEW w \in Workers, NEW h \in Hashes, NEW d \in Digests,
             Commit(w, h, d)
      PROVE StoreVerified' /\ PendingReachable'
  <2>1. h \in batch[w] /\ batch' = [batch EXCEPT ![w] = batch[w] \ {h}] /\ db' = db
    BY <1>5 DEF Commit
  <2>2. h \in Reachable
    BY <2>1 DEF PendingReachable, Pending
  <2>3. \A v \in Workers : batch'[v] \subseteq batch[v]
    BY <2>1 DEF TypeOK
  <2>4. CASE d = h
    <3>1. staged' = staged \cup {<<h, h>>} /\ missing' = missing \cup Discovered(h)
      BY <1>5, <2>4 DEF Commit
    <3>2. Discovered(h) \subseteq Reachable
      BY <2>2, DiscoveredSucc, ReachableClosed
    <3>3. StoreVerified'
      BY <2>1, <2>2, <3>1 DEF StoreVerified, Abs!Entries
    <3>4. PendingReachable'
      BY <2>3, <3>1, <3>2 DEF PendingReachable, Pending
    <3>. QED  BY <3>3, <3>4
  <2>5. CASE d # h
    <3>1. staged' = staged /\ missing' = missing \cup {h}
      BY <1>5, <2>5 DEF Commit
    <3>. QED  BY <2>1, <2>2, <2>3, <3>1 DEF StoreVerified, PendingReachable, Pending
  <2>. QED  BY <2>4, <2>5
<1>6. CASE SetHead
  <2>1. Pending' = Pending
    BY <1>6 DEF SetHead, Pending
  <2>. QED  BY <1>6, <2>1 DEF SetHead, StoreVerified, PendingReachable
<1>7. CASE Flush \/ Complete
  BY <1>7 DEF Flush, Complete, StoreVerified, PendingReachable, Pending
<1>8. CASE CrashRestart
  <2>1. UNION {batch'[v] : v \in Workers} = {}
    BY <1>8 DEF CrashRestart
  <2>2. Pending' = {Root}
    BY <1>8, <2>1 DEF CrashRestart, Pending
  <2>. QED  BY <1>8, <2>2, RootReachable DEF CrashRestart, StoreVerified, PendingReachable
<1>9. CASE UNCHANGED vars
  BY <1>9 DEF vars, StoreVerified, PendingReachable, Pending
<1>. QED
  BY <1>1, <1>2, <1>3, <1>4, <1>5, <1>6, <1>7, <1>8, <1>9 DEF Next

(* Growing the durable store keeps what is verified in it.                 *)
LEMMA VerifiedMonotone ==
  ASSUME NEW S, NEW T, S \subseteq T
  PROVE  Verified(S) \subseteq Verified(T)
BY DEF Verified


(* With an exact filter, the filter stays a stored set closed up to the    *)
(* pending hashes, so that Complete finds the whole reachable state.       *)
LEMMA NextCInv ==
  ASSUME ExactFilter
  PROVE  CInv /\ [Next]_vars => CInv'
<1> SUFFICES ASSUME CInv, [Next]_vars PROVE CInv'
  OBVIOUS
<1>1. RInv'
  BY NextRInv DEF CInv
<1> SUFFICES CRest'
  BY <1>1 DEF CInv, CRest
<1> USE DEF CInv, RInv, IInv, CRest
<1>2. ASSUME NEW w \in Workers, NextBatch(w) PROVE CRest'
  <2>1. PICK b \in kSubset(IF Cardinality(missing) < MaxBatch
                           THEN Cardinality(missing) ELSE MaxBatch, missing) :
          /\ batch' = [batch EXCEPT ![w] = b]
          /\ missing' = missing \ b
    BY <1>2 DEF NextBatch
  <2>2. b \subseteq missing
    BY <2>1 DEF kSubset
  <2>3. batch[w] = {}
    BY <1>2 DEF NextBatch, CRest, IdleEmpty
  <2>4. Pending \subseteq Pending'
    BY <2>1, <2>2, <2>3 DEF Pending, TypeOK
  <2>5. IdleEmpty'
    BY <1>2, <2>1 DEF NextBatch, CRest, IdleEmpty, TypeOK
  <2>. QED  BY <1>2, <2>4, <2>5 DEF NextBatch, CRest, FilterStored, FilterClosed, RootCovered, SyncCorrect
<1>3. ASSUME NEW w \in Workers, SendOk(w) \/ Discard(w) \/ SendFail(w) PROVE CRest'
  <2>1. Pending \subseteq Pending'
    BY <1>3 DEF SendOk, Discard, SendFail, Pending, TypeOK
  <2>2. IdleEmpty'
    BY <1>3 DEF SendOk, Discard, SendFail, CRest, IdleEmpty, TypeOK
  <2>. QED  BY <1>3, <2>1, <2>2 DEF SendOk, Discard, SendFail, CRest, FilterStored, FilterClosed,
                             RootCovered, SyncCorrect
<1>4. ASSUME NEW w \in Workers, NEW h \in Hashes, NEW d \in Digests,
             Commit(w, h, d)
      PROVE CRest'
  <2>1. /\ status = "running"
        /\ h \in batch[w] /\ batch' = [batch EXCEPT ![w] = batch[w] \ {h}] /\ db' = db
    BY <1>4 DEF Commit
  <2>2. \A v \in Workers : batch[v] \ {h} \subseteq batch'[v]
    BY <2>1 DEF TypeOK
  <2>0. IdleEmpty'
    BY <1>4, <2>1 DEF Commit, CRest, IdleEmpty, TypeOK
  <2>3. CASE d = h
    <3>1. /\ staged' = staged \cup {<<h, h>>}
          /\ bloom' = bloom \cup {h}
          /\ missing' = missing \cup Discovered(h)
          /\ status' \in {"running", "aborted"}
      BY <1>4, <2>3 DEF Commit
    <3>2. (Pending \ {h}) \cup Discovered(h) \subseteq Pending'
      BY <2>2, <3>1 DEF Pending
    <3>3. Succ(h) \subseteq Discovered(h) \cup bloom \cup Pending
      BY DiscoveredSucc DEF ExactFilter
    <3>4. FilterClosed'
      BY <3>1, <3>2, <3>3 DEF FilterClosed
    <3>5. RootCovered'
      BY <3>1, <3>2 DEF RootCovered
    <3>. QED  BY <2>0, <2>1, <3>1, <3>4, <3>5 DEF CRest, FilterStored, SyncCorrect
  <2>4. CASE d # h
    <3>1. missing' = missing \cup {h} /\ UNCHANGED <<staged, bloom, status>>
      BY <1>4, <2>4 DEF Commit
    <3>2. Pending \subseteq Pending'
      BY <2>2, <3>1 DEF Pending
    <3>. QED  BY <2>0, <2>1, <3>1, <3>2 DEF CRest, FilterStored, FilterClosed, RootCovered, SyncCorrect
  <2>. QED  BY <2>3, <2>4
<1>5. CASE SetHead
  <2>1. Pending' = Pending
    BY <1>5 DEF SetHead, Pending
  <2>. QED  BY <1>5, <2>1 DEF SetHead, CRest, IdleEmpty, FilterStored, FilterClosed, RootCovered, SyncCorrect
<1>6. CASE Flush
  <2>1. Verified(db) \subseteq Verified(db')
    BY <1>6, VerifiedMonotone DEF Flush
  <2>. QED  BY <1>6, <2>1 DEF Flush, CRest, IdleEmpty, FilterStored, FilterClosed, RootCovered, SyncCorrect,
                              Pending
<1>7. CASE Complete
  <2>1. Pending = {}
    BY <1>7 DEF Complete, Pending
  <2>2. Abs!Closed(bloom) /\ bloom \in SUBSET Hashes
    BY <2>1 DEF FilterClosed, RootCovered, Abs!Closed, TypeOK
  <2>3. Reachable \subseteq bloom
    BY <2>2, ReachableLeast
  <2>4. \A h \in bloom : <<h, h>> \in db'
    BY <1>7 DEF Complete, FilterStored
  <2>5. ASSUME NEW h \in bloom PROVE h \in Verified(db')
    <3>1. <<h, h>> \in db' /\ <<h, h>>[1] = h /\ <<h, h>>[2] = h
      BY <2>4
    <3>. QED  BY <3>1 DEF Verified
  <2>6. Reachable \subseteq Verified(db')
    BY <2>3, <2>5
  <2>7. SyncCorrect'
    BY <2>6 DEF SyncCorrect
  <2>. QED  BY <1>7, <2>7 DEF Complete, CRest, IdleEmpty, FilterStored, FilterClosed, RootCovered, Pending
<1>8. CASE CrashRestart
  <2>1. bloom' = {} /\ status' = "running"
    BY <1>8 DEF CrashRestart, ExactFilter
  <2>2. UNION {batch'[v] : v \in Workers} = {}
    BY <1>8 DEF CrashRestart
  <2>3. Root \in Pending'
    BY <1>8, <2>2 DEF CrashRestart, Pending
  <2>. QED  BY <1>8, <2>1, <2>3 DEF CrashRestart, CRest, IdleEmpty, FilterStored, FilterClosed,
                           RootCovered, SyncCorrect
<1>9. CASE UNCHANGED vars
  BY <1>9 DEF vars, CRest, IdleEmpty, FilterStored, FilterClosed, RootCovered, SyncCorrect, Pending
<1>. QED
  BY <1>2, <1>3, <1>4, <1>5, <1>6, <1>7, <1>8, <1>9 DEF Next

LEMMA InitCInv == Init => CInv
<1> SUFFICES ASSUME Init PROVE CInv
  OBVIOUS
<1>1. IInv
  BY InitIInv
<1>2. Pending = {Root}
  BY DEF Init, Pending
<1>. QED
  BY <1>1, <1>2, RootReachable
  DEF Init, CInv, RInv, CRest, StoreVerified, PendingReachable, IdleEmpty, FilterStored,
      FilterClosed, RootCovered, SyncCorrect

(* Complete, taken in a state of CInv, stores every reachable node.        *)
LEMMA CompleteStores ==
  ASSUME CInv, Complete
  PROVE  Abs!Entries(Reachable) \subseteq db'
<1>1. Pending = {}
  BY DEF Complete, Pending
<1>2. Abs!Closed(bloom) /\ bloom \in SUBSET Hashes
  BY <1>1 DEF CInv, CRest, RInv, IInv, FilterClosed, RootCovered, Abs!Closed, TypeOK
<1>3. Reachable \subseteq bloom
  BY <1>2, ReachableLeast
<1>4. \A h \in bloom : <<h, h>> \in db'
  BY DEF Complete, CInv, CRest, FilterStored
<1>. QED  BY <1>3, <1>4 DEF Abs!Entries

(* Under an exact filter, SyncCorrect holds in every state: a sync that    *)
(* reports completion has stored every node and code blob reachable from   *)
(* the root under its own hash, whatever the interleaving of workers,      *)
(* failed sends, digest mismatches, cancellations and crashes.             *)
THEOREM SyncCorrectHolds ==
  ASSUME ExactFilter
  PROVE  Spec => []SyncCorrect
<1>1. Init => CInv
  BY InitCInv
<1>2. CInv /\ [Next]_vars => CInv'
  BY NextCInv
<1>. QED  BY <1>1, <1>2, PTL DEF Spec, CInv, CRest

(* Under an exact filter, the scheduler implements StateSyncAbs: each step *)
(* is a write of verified reachable content to the durable store (Flush),  *)
(* the completion with the whole reachable state stored (Complete), an     *)
(* abort on a reachable undecodable leaf (Commit), or leaves the status    *)
(* and the durable store alone.                                            *)
THEOREM SyncRefinement ==
  ASSUME ExactFilter
  PROVE  Spec => SyncRefines
<1>1. Init => Abs!Init
  BY DEF Init, Abs!Init
<1>2. CInv /\ [Next]_vars => [Abs!Next]_<<status, db>>
  <2> SUFFICES ASSUME CInv, [Next]_vars PROVE [Abs!Next]_<<status, db>>
    OBVIOUS
  <2> USE DEF CInv, RInv
  <2>1. ASSUME NEW w \in Workers, NEW h \in Hashes, NEW d \in Digests,
               Commit(w, h, d)
        PROVE  [Abs!Next]_<<status, db>>
    <3>1. db' = db /\ status = "running" /\ h \in batch[w]
      BY <2>1 DEF Commit
    <3>2. CASE status' = "aborted"
      <4>1. d = h /\ ~IsCode[h] /\ Acct[h] = Malformed
        BY <2>1, <3>2 DEF Commit, LeafCallbackFails
      <4>2. h \in Reachable
        BY <3>1 DEF PendingReachable, Pending
      <4>. QED  BY <3>1, <3>2, <4>1, <4>2 DEF Abs!Next, Abs!Abort, Reachable
    <3>3. CASE status' # "aborted"
      BY <2>1, <3>1, <3>3 DEF Commit
    <3>. QED  BY <3>2, <3>3
  <2>2. CASE Flush
    <3>1. db \subseteq db' /\ db' \ db \subseteq staged
      BY <2>2 DEF Flush
    <3>. QED  BY <2>2, <3>1 DEF Flush, StoreVerified, Abs!Next, Abs!Write, Abs!Grow, Reachable
  <2>3. CASE Complete
    <3>1. Abs!Entries(Reachable) \subseteq db'
      BY <2>3, CompleteStores
    <3>2. db \subseteq db' /\ db' \ db \subseteq staged
      BY <2>3 DEF Complete
    <3>. QED  BY <2>3, <3>1, <3>2 DEF Complete, StoreVerified, Abs!Next, Abs!Complete, Abs!Grow,
                                   Reachable
  <2>4. CASE UNCHANGED <<status, db>>
    BY <2>4
  <2>. QED
    BY <2>1, <2>2, <2>3, <2>4
    DEF Next, vars, NextBatch, SendOk, SendFail, Discard, SetHead, CrashRestart
<1>3. Spec => []CInv
  BY InitCInv, NextCInv, PTL DEF Spec
<1>. QED  BY <1>1, <1>2, <1>3, PTL DEF Spec, SyncRefines, Abs!Spec, Abs!avars

=============================================================================
