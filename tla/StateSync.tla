----------------------------- MODULE StateSync -----------------------------
(***************************************************************************)
(* The state trie download scheduler (trie.Sync, spec section 4.2) driven  *)
(* by concurrent download workers (spec section 5), together with the      *)
(* account-leaf callback that NewStateSync (core/state/sync.go) installs   *)
(* in it, cancellation through SetHead -> downloader.Cancel, the staging   *)
(* store with its flush to the durable store, the skip filter and a crash  *)
(* of the node followed by a restart of the sync from the same root.       *)
(*                                                                         *)
(* Content is abstracted to hashes: a blob is named by the hash of its     *)
(* bytes, so a peer's answer for a requested hash h is the digest d of the *)
(* bytes it sent (d = h when the peer is honest), or NotFound.  What the   *)
(* bytes decode to is given by the constants Refs (child trie nodes of a   *)
(* branch or extension node) and Acct (the account a leaf of the account   *)
(* trie holds).                                                            *)
(***************************************************************************)
EXTENDS Naturals, FiniteSets, FiniteSetsExt

CONSTANTS
  Hashes,        \* content hashes of the state to download (model values)
  Root,          \* the state root handed to NewStateSync
  Refs,          \* Refs[h]: trie nodes that the node with hash h references
  Acct,          \* Acct[h]: the account stored in leaf h, NotLeaf or Malformed
  IsCode,        \* IsCode[h]: h names a contract code blob, not a trie node
  EmptyCode,     \* keccak256 of empty code: the "no code" sentinel
  ZeroHash,      \* the all-zero hash
  EmptyBytes,    \* an account whose CodeHash field holds no bytes
  NotLeaf,       \* Acct value of a node that is not an account leaf
  Malformed,     \* Acct value of a leaf whose RLP does not decode
  NotFound,      \* a peer's "not found" marker for one item of a response
  Workers,       \* the download workers
  MaxBatch,      \* maxItems of NextBatch
  FalsePos,      \* hashes the skip filter claims without having them
  PersistFilter, \* the skip filter survives a restart (checkpoint, sec. 6)
  MaxCrashes,    \* bound on crashes of the node
  MaxCancels     \* bound on SetHead calls cancelling the sync

Sentinels == {EmptyCode, ZeroHash}

(* An account record as rlp.Decode produces it into state.Account.         *)
Accounts == [root : Hashes, code : Hashes \cup Sentinels \cup {EmptyBytes}]

ASSUME RootAssumption == Root \in Hashes
ASSUME ContentAssumption ==
  /\ Refs \in [Hashes -> SUBSET Hashes]
  /\ Acct \in [Hashes -> Accounts \cup {NotLeaf, Malformed}]
  /\ IsCode \in [Hashes -> BOOLEAN]
  /\ Sentinels \cap Hashes = {}
  /\ NotFound \notin Hashes
ASSUME WorkersAssumption == Workers # {} /\ MaxBatch \in Nat \ {0}
ASSUME FilterAssumption == FalsePos \subseteq Hashes /\ PersistFilter \in BOOLEAN
ASSUME BoundsAssumption == MaxCrashes \in Nat /\ MaxCancels \in Nat

VARIABLES
  status,   \* "running", "complete" or "aborted"
  missing,  \* hashes of PendingItems not handed to a worker
  batch,    \* batch[w]: the items worker w is fetching or committing
  wstate,   \* "idle", "sending", "received" or "abandoned"
  staged,   \* StagingStore: pairs <<key, digest of the stored bytes>>
  db,       \* durable store: pairs <<key, digest of the stored bytes>>
  bloom,    \* the in-memory skip filter
  pbloom,   \* the skip filter checkpoint written at each flush
  crashes,  \* crashes so far
  cancels   \* cancellations so far

vars == <<status, missing, batch, wstate, staged, db, bloom, pbloom,
          crashes, cancels>>

WState == {"idle", "sending", "received", "abandoned"}
Digests == Hashes \cup {NotFound}

Keys(store) == {p[1] : p \in store}

(* Every hash with a PendingItem: waiting or in flight.                    *)
Pending == missing \cup UNION {batch[w] : w \in Workers}

(* SkipFilter.MightHave: no false negatives, false positives on FalsePos. *)
MightHave(h) == h \in bloom \cup FalsePos

(* The dedup discipline of AddSubTrie and of child registration: the hashes *)
(* of hs that get a new PendingItem.                                       *)
AddSubTrie(hs) == {h \in hs : ~MightHave(h) /\ h \notin Pending}

(* AddCodeEntry: as AddSubTrie, and the "no code" sentinels are no-ops.    *)
AddCodeEntry(hs) == AddSubTrie(hs \ Sentinels)

(* common.BytesToHash of the CodeHash field: an empty field becomes the    *)
(* all-zero hash, a 32-byte field is that hash.                            *)
BytesToHash(b) == IF b = EmptyBytes THEN ZeroHash ELSE b

(* The callback of NewStateSync on a leaf whose bytes hash to d: decode the *)
(* account, register its storage trie and its code.  A decode failure is   *)
(* returned to the scheduler.                                              *)
LeafCallbackFails(d) == Acct[d] = Malformed

(* Mutant of LeafCallback: the code entry is not registered.             *)
LeafCallbackNoCode(d) ==
  IF Acct[d] \in Accounts THEN AddSubTrie({Acct[d].root}) ELSE {}

LeafCallback(d) ==
  IF Acct[d] \in Accounts
  THEN AddSubTrie({Acct[d].root}) \cup AddCodeEntry({BytesToHash(Acct[d].code)})
  ELSE {}

(* What committing bytes with digest d registers: the node's children, and *)
(* for an account leaf what the callback adds.  Code is stored, not decoded.*)
Discovered(d) ==
  IF IsCode[d] THEN {} ELSE AddSubTrie(Refs[d]) \cup LeafCallback(d)

-----------------------------------------------------------------------------
(* NewStateSync(root, ...): trie.NewSync seeds the missing set with root.  *)
Init ==
  /\ status = "running"
  /\ missing = {Root}
  /\ batch = [w \in Workers |-> {}]
  /\ wstate = [w \in Workers |-> "idle"]
  /\ staged = {}
  /\ db = {}
  /\ bloom = {}
  /\ pbloom = {}
  /\ crashes = 0
  /\ cancels = 0

(* Mutant of NextBatch: only full batches are drawn.                       *)
NextBatchFullOnly(w) ==
  /\ status = "running"
  /\ wstate[w] = "idle"
  /\ Cardinality(missing) >= MaxBatch
  /\ \E b \in kSubset(MaxBatch, missing) :
       /\ batch' = [batch EXCEPT ![w] = b]
       /\ missing' = missing \ b
  /\ wstate' = [wstate EXCEPT ![w] = "sending"]
  /\ UNCHANGED <<status, staged, db, bloom, pbloom, crashes, cancels>>

(* A worker draws NextBatch(MaxBatch) from the scheduler.                  *)
NextBatch(w) ==
  /\ status = "running"
  /\ wstate[w] = "idle"
  /\ missing # {}
  /\ \E b \in kSubset(IF Cardinality(missing) < MaxBatch
                      THEN Cardinality(missing) ELSE MaxBatch, missing) :
       /\ batch' = [batch EXCEPT ![w] = b]
       /\ missing' = missing \ b
  /\ wstate' = [wstate EXCEPT ![w] = "sending"]
  /\ UNCHANGED <<status, staged, db, bloom, pbloom, crashes, cancels>>

(* Send returns the peer's answers.                                        *)
SendOk(w) ==
  /\ wstate[w] = "sending"
  /\ wstate' = [wstate EXCEPT ![w] = "received"]
  /\ UNCHANGED <<status, missing, batch, staged, db, bloom, pbloom,
                 crashes, cancels>>

(* Send fails with RetriesExhausted: the batch returns to Missing.         *)
SendFail(w) ==
  /\ wstate[w] = "sending"
  /\ missing' = missing \cup batch[w]
  /\ batch' = [batch EXCEPT ![w] = {}]
  /\ wstate' = [wstate EXCEPT ![w] = "idle"]
  /\ UNCHANGED <<status, staged, db, bloom, pbloom, crashes, cancels>>

(* Mutant of Commit: the digest of the bytes is not compared with h.       *)
CommitNoVerify(w, h, d) ==
  /\ status = "running"
  /\ wstate[w] = "received"
  /\ h \in batch[w]
  /\ LET rest == batch[w] \ {h} IN
       /\ batch' = [batch EXCEPT ![w] = rest]
       /\ wstate' = [wstate EXCEPT ![w] = IF rest = {} THEN "idle" ELSE "received"]
  /\ IF d # NotFound
     THEN /\ staged' = staged \cup {<<h, d>>}
          /\ bloom' = bloom \cup {h}
          /\ missing' = missing \cup Discovered(d)
          /\ status' = IF ~IsCode[d] /\ LeafCallbackFails(d)
                       THEN "aborted" ELSE "running"
     ELSE /\ missing' = missing \cup {h}
          /\ UNCHANGED <<staged, bloom, status>>
  /\ UNCHANGED <<db, pbloom, crashes, cancels>>

(* Commit(h, bytes) of one answer d of w's batch, under the scheduler lock. *)
(* A digest mismatch or a "not found" returns h to Missing; a match stages  *)
(* the bytes, marks the filter and registers what the bytes reference.     *)
Commit(w, h, d) ==
  /\ status = "running"
  /\ wstate[w] = "received"
  /\ h \in batch[w]
  /\ LET rest == batch[w] \ {h} IN
       /\ batch' = [batch EXCEPT ![w] = rest]
       /\ wstate' = [wstate EXCEPT ![w] = IF rest = {} THEN "idle" ELSE "received"]
  /\ IF d = h
     THEN /\ staged' = staged \cup {<<h, d>>}
          /\ bloom' = bloom \cup {h}
          /\ missing' = missing \cup Discovered(d)
          /\ status' = IF ~IsCode[d] /\ LeafCallbackFails(d)
                       THEN "aborted" ELSE "running"
     ELSE /\ missing' = missing \cup {h}
          /\ UNCHANGED <<staged, bloom, status>>
  /\ UNCHANGED <<db, pbloom, crashes, cancels>>

(* Mutant of SetHead: the in-flight items are requeued but the workers'   *)
(* batches are kept.                                                       *)
SetHeadKeepBatches ==
  /\ status = "running"
  /\ cancels < MaxCancels
  /\ cancels' = cancels + 1
  /\ missing' = Pending
  /\ wstate' = [w \in Workers |->
                  IF wstate[w] \in {"sending", "received"}
                  THEN "abandoned" ELSE wstate[w]]
  /\ UNCHANGED <<status, batch, staged, db, bloom, pbloom, crashes>>

(* SetHead calls downloader.Cancel before rewinding the chain: every batch *)
(* in flight returns to Missing and its worker drops the late answer.      *)
SetHead ==
  /\ status = "running"
  /\ cancels < MaxCancels
  /\ cancels' = cancels + 1
  /\ missing' = Pending
  /\ batch' = [w \in Workers |-> {}]
  /\ wstate' = [w \in Workers |->
                  IF wstate[w] \in {"sending", "received"}
                  THEN "abandoned" ELSE wstate[w]]
  /\ UNCHANGED <<status, staged, db, bloom, pbloom, crashes>>

(* The abandoned Send of w returns and its answer is discarded.           *)
Discard(w) ==
  /\ wstate[w] = "abandoned"
  /\ wstate' = [wstate EXCEPT ![w] = "idle"]
  /\ UNCHANGED <<status, missing, batch, staged, db, bloom, pbloom,
                 crashes, cancels>>

(* The StagingStore is written to the durable store and the filter        *)
(* checkpoint together.                                                    *)
Flush ==
  /\ staged # {}
  /\ db' = db \cup staged
  /\ pbloom' = pbloom \cup Keys(staged)
  /\ staged' = {}
  /\ UNCHANGED <<status, missing, batch, wstate, bloom, crashes, cancels>>

(* Pending() = 0 and InFlight() = 0: the sync completes and the           *)
(* StagingStore is merged into durable storage.                           *)
Complete ==
  /\ status = "running"
  /\ missing = {}
  /\ \A w \in Workers : batch[w] = {}
  /\ status' = "complete"
  /\ db' = db \cup staged
  /\ pbloom' = pbloom \cup Keys(staged)
  /\ staged' = {}
  /\ UNCHANGED <<missing, batch, wstate, bloom, crashes, cancels>>

(* The node crashes: memory is lost, the durable store and the filter      *)
(* checkpoint survive; NewStateSync(root) starts over.                     *)
CrashRestart ==
  /\ status = "running"
  /\ crashes < MaxCrashes
  /\ crashes' = crashes + 1
  /\ missing' = {Root}
  /\ batch' = [w \in Workers |-> {}]
  /\ wstate' = [w \in Workers |-> "idle"]
  /\ staged' = {}
  /\ bloom' = IF PersistFilter THEN pbloom ELSE {}
  /\ UNCHANGED <<status, db, pbloom, cancels>>

Next ==
  \/ \E w \in Workers :
       \/ NextBatch(w) \/ SendOk(w) \/ SendFail(w) \/ Discard(w)
       \/ \E h \in Hashes, d \in Digests : Commit(w, h, d)
  \/ SetHead \/ Flush \/ Complete \/ CrashRestart

Spec == Init /\ [][Next]_vars

(* Fairness the worker loop justifies: an idle worker draws work, a Send   *)
(* returns (the Retrieve Manager's deadline is bounded), a worker holding  *)
(* answers commits them and an abandoned Send is reaped; the network is    *)
(* assumed to deliver, and peers to answer correctly, infinitely often     *)
(* when asked infinitely often (spec section 8: "given a complete,         *)
(* consistent supply of all reachable content").                           *)
Fairness ==
  /\ \A w \in Workers :
       /\ WF_vars(NextBatch(w))
       /\ WF_vars(SendOk(w) \/ SendFail(w))
       /\ SF_vars(SendOk(w))
       /\ WF_vars(\E h \in Hashes, d \in Digests : Commit(w, h, d))
       /\ SF_vars(\E h \in Hashes : Commit(w, h, h))
       /\ WF_vars(Discard(w))
  /\ WF_vars(Complete)

LiveSpec == Spec /\ Fairness

-----------------------------------------------------------------------------
TypeOK ==
  /\ status \in {"running", "complete", "aborted"}
  /\ missing \subseteq Hashes
  /\ batch \in [Workers -> SUBSET Hashes]
  /\ wstate \in [Workers -> WState]
  /\ staged \subseteq Hashes \X Hashes
  /\ db \subseteq Hashes \X Hashes
  /\ bloom \subseteq Hashes
  /\ pbloom \subseteq Hashes
  /\ crashes \in 0..MaxCrashes
  /\ cancels \in 0..MaxCancels

(* What the content named h references: trie children, and for an account *)
(* leaf its storage trie and its (non-sentinel) code.  Code is not decoded. *)
Succ(h) ==
  IF IsCode[h] THEN {}
  ELSE Refs[h] \cup
       (IF Acct[h] \in Accounts
        THEN ({Acct[h].root, BytesToHash(Acct[h].code)} \ Sentinels) ELSE {})

(* What the sync promises (StateSyncAbs), seen through the durable store.   *)
Abs == INSTANCE StateSyncAbs
         WITH Hashes <- Hashes, Root <- Root, Succ <- Succ, status <- status,
              store <- db, Bad <- {h \in Hashes : ~IsCode[h] /\ Acct[h] = Malformed}

(* Everything reachable from the root, storage tries and code included.    *)
Reachable == Abs!Reachable

(* Keys stored with the bytes they name.                                   *)
Verified(store) == {p[1] : p \in {q \in store : q[1] = q[2]}}

(* At most one PendingItem per hash (spec sections 3 and 8): no hash is    *)
(* waiting and in flight, in flight at two workers, or pending while its   *)
(* content sits in the StagingStore.  Breaks when registration, a failed   *)
(* Send, a digest mismatch or SetHead puts back a hash another worker or   *)
(* the store already holds, or when a worker commits after SetHead.        *)
UniquePending ==
  /\ \A w \in Workers : missing \cap batch[w] = {}
  /\ \A v, w \in Workers : v # w => batch[v] \cap batch[w] = {}
  /\ Pending \cap Keys(staged) = {}

(* When the sync reports completion, every node and code blob reachable    *)
(* from the root is stored, under its own hash, in the durable store       *)
(* (spec section 7: "sync either completes with a verified, complete       *)
(* trie").  Commit, the leaf callback, the filter and the completion test  *)
(* all have to be right for this to hold.                                  *)
SyncCorrect == status = "complete" => Reachable \subseteq Verified(db)

(* With peers that eventually answer correctly, the sync ends: it          *)
(* completes or aborts on a malformed leaf (spec section 8, liveness).     *)
Termination == <>(status # "running")

(* The scheduler, its workers, the filter, staging, cancellation and      *)
(* crashes together implement the abstract sync: every write to the        *)
(* durable store (Flush, or Complete's merge) is verified content of a     *)
(* reachable node, completion comes only with the whole reachable state    *)
(* stored, and an abort only from a reachable undecodable leaf.            *)
SyncRefines == Abs!Spec

=============================================================================
