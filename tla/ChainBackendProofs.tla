------------------------- MODULE ChainBackendProofs -------------------------
(***************************************************************************)
(* Proofs about the RPC backends' block resolution: ResolvesRequest holds  *)
(* for every chain (blocks, numbering, height) and every set of callers.   *)
(***************************************************************************)
EXTENDS ChainBackend, TLAPS

(* The chain's shape the calls rely on: genesis at 0, every canonical      *)
(* block at its own number, no gap below a canonical block, and a head.    *)
CanonNumbered ==
  /\ canon[0] = Genesis
  /\ \A n \in Nums : canon[n] # NoBlock => Number[canon[n]] = n
Contiguous ==
  \A n, m \in Nums : m <= n /\ canon[n] # NoBlock => canon[m] # NoBlock
HeadExists ==
  \E n \in Nums : canon[n] # NoBlock /\ \A m \in n + 1 .. MaxNum : canon[m] = NoBlock

(* A call in progress has seen the chain as it is now.                     *)
SeenCurrent ==
  \A c \in Callers : pc[c] # "idle" =>
    req[c].by # "none" /\ CanonPairs(canon) \subseteq seen[c]

(* A number path is taken for a number, latest or pending, the hash and    *)
(* canonical-check steps only for a hash; receipts are asked by hash alone. *)
PcMatchesReq ==
  \A c \in Callers :
    /\ pc[c] = "num" => req[c].by \in {"num", "latest", "pending"}
    /\ pc[c] \in {"hash", "canon"} => req[c].by = "hash"
    /\ pc[c] # "idle" /\ fn[c] = "Receipts" => req[c].by = "hash" /\ ~req[c].rc
    /\ pc[c] = "body" /\ kind = "full" => req[c].by = "hash"

(* Header h, resolved for request r and held at step p, was resolved as r  *)
(* says, against the canonical pairs s seen so far.                        *)
HdrOK(r, p, h, s) ==
  /\ r.by = "num" => <<r.n, h>> \in s
  /\ r.by \in {"latest", "pending"} => <<Number[h], h>> \in s
  /\ r.by = "hash" => h = r.h /\ (r.rc /\ p # "canon" => <<Number[h], h>> \in s)

(* The header a call in progress holds was resolved as its request says.   *)
HdrSeen ==
  \A c \in Callers : pc[c] \in {"canon", "body", "state"} =>
    HdrOK(req[c], pc[c], hdr[c], seen[c])

(* Block b, returned for request r, is what r asks for (the consequent of  *)
(* ResolvesRequest).                                                       *)
Resolved(r, b, s) ==
  CASE r.by = "num" -> <<r.n, b>> \in s
    [] r.by \in {"latest", "pending"} -> <<Number[b], b>> \in s
    [] r.by = "hash" -> b = r.h /\ (r.rc => <<Number[r.h], r.h>> \in s)
    [] OTHER -> FALSE

(* The inductive invariant behind ResolvesRequest.                         *)
BInv ==
  /\ TypeOK /\ CanonNumbered /\ Contiguous /\ HeadExists
  /\ SeenCurrent /\ PcMatchesReq /\ HdrSeen /\ ResolvesRequest

-----------------------------------------------------------------------------
(* The head is a height, its block is stored and nothing is above it.      *)
LEMMA HeadInNums ==
  ASSUME TypeOK, HeadExists
  PROVE  /\ Head \in Nums
         /\ canon[Head] # NoBlock
         /\ \A m \in Head + 1 .. MaxNum : canon[m] = NoBlock
BY DEF Head, HeadExists

(* The canonical block at a height is seen by every call in progress.      *)
LEMMA CanonSeen ==
  ASSUME BInv, NEW c \in Callers, pc[c] # "idle", NEW n \in Nums, canon[n] \in Blocks
  PROVE  /\ <<n, canon[n]>> \in seen[c]
         /\ <<Number[canon[n]], canon[n]>> \in seen[c]
<1>1. Number[canon[n]] = n
  BY BackendAssumption DEF BInv, CanonNumbered
<1>2. <<n, canon[n]>> \in CanonPairs(canon)
  BY BackendAssumption DEF CanonPairs
<1>3. CanonPairs(canon) \subseteq seen[c]
  BY DEF BInv, SeenCurrent
<1> QED BY <1>1, <1>2, <1>3

(* ResolvesRequest, with its consequent named.                             *)
LEMMA ResolvesRequestDef ==
  ResolvesRequest <=>
    \A c \in Callers : (pc[c] = "idle" /\ out[c] = "ok" /\ val[c] \in Blocks) =>
      Resolved(req[c], val[c], seen[c])
BY DEF ResolvesRequest, Resolved

(* The invariant holds in the initial state.                               *)
THEOREM InitBInv == Init => BInv
<1> SUFFICES ASSUME Init PROVE BInv
  OBVIOUS
<1>1. TypeOK
  BY BackendAssumption DEF Init, TypeOK, Requests, NoRequest, Nums, Steps, Fns
<1>2. CanonNumbered /\ Contiguous /\ HeadExists
  BY BackendAssumption DEF Init, CanonNumbered, Contiguous, HeadExists, Nums
<1>3. SeenCurrent /\ PcMatchesReq /\ HdrSeen /\ ResolvesRequest
  BY DEF Init, SeenCurrent, PcMatchesReq, HdrSeen, ResolvesRequest
<1> QED BY <1>1, <1>2, <1>3 DEF BInv

-----------------------------------------------------------------------------
(* A step of the chain that callers only observe through SeeCanon keeps   *)
(* the callers' conjuncts.                                                 *)
LEMMA EnvCallers ==
  ASSUME BInv, TypeOK', canon' \in [Nums -> Blocks \cup {NoBlock}],
         SeeCanon(canon'), UNCHANGED callers, UNCHANGED kind
  PROVE  SeenCurrent' /\ PcMatchesReq' /\ HdrSeen' /\ ResolvesRequest'
<1>1. \A c \in Callers : seen[c] \subseteq seen'[c]
  BY DEF SeeCanon
<1>2. SeenCurrent'
  BY DEF SeeCanon, SeenCurrent, BInv, callers
<1>3. PcMatchesReq'
  BY DEF PcMatchesReq, BInv, callers
<1>4. HdrSeen'
  BY <1>1 DEF HdrSeen, HdrOK, BInv, callers
<1>5. ResolvesRequest'
  BY DEF SeeCanon, ResolvesRequest, BInv, callers
<1> QED BY <1>2, <1>3, <1>4, <1>5

(* Seen pairs stay pairs of a height and a block.                          *)
LEMMA CanonPairsType ==
  ASSUME NEW cn \in [Nums -> Blocks \cup {NoBlock}]
  PROVE  CanonPairs(cn) \subseteq Nums \X Blocks
BY DEF CanonPairs

(* The canonical map after Insert(b) made b the head, height by height.    *)
LEMMA InsertCanon ==
  ASSUME NEW b \in Blocks, NEW cn,
         cn = [n \in Nums |-> CASE n = Number[b] -> b
                                [] n > Number[b] -> NoBlock
                                [] OTHER -> canon[n]],
         NEW n \in Nums, Number[b] \in Nums
  PROVE  /\ n = Number[b] => cn[n] = b
         /\ n > Number[b] => cn[n] = NoBlock
         /\ n < Number[b] => cn[n] = canon[n]
<1>1. n = Number[b] => cn[n] = b
  <2>1. n = Number[b] => ~(n > Number[b])
    BY DEF Nums
  <2> QED BY <2>1, Zenon
<1>2. n > Number[b] => cn[n] = NoBlock
  <2>1. n > Number[b] => n # Number[b]
    BY DEF Nums
  <2> QED BY <2>1, Zenon
<1>3. n < Number[b] => ~(n > Number[b]) /\ n # Number[b]
  BY DEF Nums
<1> QED BY <1>1, <1>2, <1>3, Zenon

(* Importing a block, as head or side block, keeps the invariant.          *)
LEMMA InsertBInv ==
  ASSUME BInv, NEW b \in Blocks, Insert(b)
  PROVE  BInv'
<1> USE DEF BInv
<1>1. Head \in Nums /\ canon[Head] # NoBlock
  BY HeadInNums
<1>2. Number[b] \in Nums /\ 1 <= Number[b] /\ Number[b] <= Head + 1
  BY BackendAssumption DEF Insert, Nums
<1>3. \A m \in Nums : m < Number[b] => canon[m] # NoBlock
  BY <1>1, <1>2 DEF Contiguous, Nums
<1> DEFINE New == [n \in Nums |-> CASE n = Number[b] -> b
                                    [] n > Number[b] -> NoBlock
                                    [] OTHER -> canon[n]]
<1>4. \A n \in Nums : /\ n = Number[b] => New[n] = b
                      /\ n > Number[b] => New[n] = NoBlock
                      /\ n < Number[b] => New[n] = canon[n]
  BY <1>2, InsertCanon
<1>5. canon' = New \/ canon' = canon
  BY DEF Insert
<1>6. canon' \in [Nums -> Blocks \cup {NoBlock}] /\ CanonNumbered' /\ Contiguous' /\ HeadExists'
  <2>1. CASE canon' = canon
    BY <2>1 DEF CanonNumbered, Contiguous, HeadExists, TypeOK
  <2>2. CASE canon' = New
    <3>1. canon' \in [Nums -> Blocks \cup {NoBlock}]
      BY <2>2, <1>4 DEF TypeOK, Nums
    <3>2. CanonNumbered'
      <4>1. canon'[0] = Genesis
        BY <2>2, <1>2, <1>4, BackendAssumption DEF CanonNumbered, Nums
      <4>2. \A n \in Nums : canon'[n] # NoBlock => Number[canon'[n]] = n
        BY <2>2, <1>2, <1>4 DEF CanonNumbered, Nums
      <4> QED BY <4>1, <4>2 DEF CanonNumbered
    <3>3. Contiguous'
      BY <2>2, <1>2, <1>3, <1>4 DEF Contiguous, Nums
    <3>4. HeadExists'
      BY <2>2, <1>2, <1>4, BackendAssumption DEF HeadExists, Nums
    <3> QED BY <3>1, <3>2, <3>3, <3>4
  <2> QED BY <1>5, <2>1, <2>2
<1>7. TypeOK'
  <2>1. CanonPairs(canon') \subseteq Nums \X Blocks
    BY <1>6, CanonPairsType
  <2> QED BY <1>6, <2>1 DEF Insert, TypeOK, SeeCanon, callers
<1>8. SeenCurrent' /\ PcMatchesReq' /\ HdrSeen' /\ ResolvesRequest'
  BY <1>6, <1>7, EnvCallers DEF Insert
<1> QED BY <1>6, <1>7, <1>8

(* Rewinding the chain with SetHead keeps the invariant.                   *)
LEMMA SetHeadBInv ==
  ASSUME BInv, NEW n \in Nums, SetHead(n)
  PROVE  BInv'
<1> USE DEF BInv
<1>1. Head \in Nums /\ canon[Head] # NoBlock /\ n < Head
  BY HeadInNums DEF SetHead
<1>2. canon' = [m \in Nums |-> IF m > n THEN NoBlock ELSE canon[m]]
  BY DEF SetHead
<1>3. canon' \in [Nums -> Blocks \cup {NoBlock}]
  BY <1>2 DEF TypeOK
<1>4. TypeOK'
  <2>1. CanonPairs(canon') \subseteq Nums \X Blocks
    BY <1>3, CanonPairsType
  <2> QED BY <1>3, <2>1 DEF SetHead, TypeOK, SeeCanon, callers
<1>5. CanonNumbered'
  BY <1>2, BackendAssumption DEF CanonNumbered, Nums
<1>6. canon[n] # NoBlock
  BY <1>1, BackendAssumption DEF Contiguous, Nums
<1>7. Contiguous'
  BY <1>2 DEF Contiguous, Nums
<1>8. HeadExists'
  BY <1>2, <1>6 DEF HeadExists, Nums
<1>9. SeenCurrent' /\ PcMatchesReq' /\ HdrSeen' /\ ResolvesRequest'
  BY <1>3, <1>4, EnvCallers DEF SetHead
<1> QED BY <1>4, <1>5, <1>7, <1>8, <1>9

-----------------------------------------------------------------------------
(* What each kind of request accepts as its answer.                        *)
LEMMA ResolvedNum ==
  ASSUME NEW r, NEW b, NEW s, r.by = "num", <<r.n, b>> \in s
  PROVE  Resolved(r, b, s)
BY Zenon DEF Resolved

(* The latest or pending block is answered by a block seen canonical.      *)
LEMMA ResolvedLatest ==
  ASSUME NEW r, NEW b, NEW s, r.by \in {"latest", "pending"}, <<Number[b], b>> \in s
  PROVE  Resolved(r, b, s)
<1>1. r.by # "num"
  OBVIOUS
<1> QED BY <1>1, Zenon DEF Resolved

(* A hash is answered by its block, seen canonical if so required.         *)
LEMMA ResolvedHash ==
  ASSUME NEW r, NEW s, r.by = "hash", r.rc => <<Number[r.h], r.h>> \in s
  PROVE  Resolved(r, r.h, s)
BY Zenon DEF Resolved

(* A caller's step that returns b with outcome o keeps the invariant when  *)
(* b, if a block returned without error, is what the request asks for.     *)
LEMMA ReturnStep ==
  ASSUME BInv, NEW c \in Callers, pc[c] # "idle",
         NEW o \in {"ok", "err", "panic"}, NEW b \in Blocks \cup {NoBlock, PendingBlk},
         Return(c, o, b), UNCHANGED <<chain, seen>>,
         o = "ok" /\ b \in Blocks => Resolved(req[c], b, seen[c])
  PROVE  BInv'
<1> USE DEF BInv
<1>1. TypeOK'
  BY DEF TypeOK, Return, chain, Steps
<1>2. CanonNumbered' /\ Contiguous' /\ HeadExists'
  BY DEF CanonNumbered, Contiguous, HeadExists, chain
<1>3. SeenCurrent' /\ PcMatchesReq' /\ HdrSeen'
  BY DEF SeenCurrent, PcMatchesReq, HdrSeen, HdrOK, Return, chain, TypeOK
<1>4. ResolvesRequest'
  <2>1. \A d \in Callers : (pc'[d] = "idle" /\ out'[d] = "ok" /\ val'[d] \in Blocks) =>
           Resolved(req'[d], val'[d], seen'[d])
    BY ResolvesRequestDef DEF Return, TypeOK
  <2> QED BY <2>1, Zenon DEF ResolvesRequest, Resolved
<1> QED BY <1>1, <1>2, <1>3, <1>4

(* A caller's step to p holding header h keeps the invariant when h was    *)
(* resolved as the request says.                                           *)
LEMMA GotoStep ==
  ASSUME BInv, NEW c \in Callers, pc[c] # "idle",
         NEW p \in {"canon", "body", "state"}, NEW h \in Blocks,
         Goto(c, p, h), UNCHANGED <<chain, seen>>,
         HdrOK(req[c], p, h, seen[c]), p = "canon" => req[c].by = "hash",
         p = "body" /\ kind = "full" => req[c].by = "hash"
  PROVE  BInv'
<1> USE DEF BInv
<1>1. TypeOK'
  BY DEF TypeOK, Goto, chain, Steps
<1>2. CanonNumbered' /\ Contiguous' /\ HeadExists'
  BY DEF CanonNumbered, Contiguous, HeadExists, chain
<1>3. SeenCurrent'
  BY DEF SeenCurrent, Goto, TypeOK, chain
<1>5. PcMatchesReq'
  BY DEF PcMatchesReq, Goto, TypeOK, chain
<1>6. HdrSeen'
  BY DEF HdrSeen, Goto, TypeOK
<1>4. ResolvesRequest'
  BY DEF ResolvesRequest, Goto, TypeOK
<1> QED BY <1>1, <1>2, <1>3, <1>4, <1>5, <1>6

(* A block canonical now is seen by every call in progress.                *)
LEMMA CanonicalSeen ==
  ASSUME BInv, NEW c \in Callers, pc[c] # "idle", NEW h \in Blocks, IsCanonical(h)
  PROVE  <<Number[h], h>> \in seen[c]
<1>1. Number[h] \in Nums /\ canon[Number[h]] = h
  BY BackendAssumption DEF IsCanonical, Nums
<1> QED BY <1>1, CanonSeen

(* The header held at a "body" or "state" step is an answer to the request. *)
LEMMA HdrResolved ==
  ASSUME BInv, NEW c \in Callers, pc[c] \in {"body", "state"}
  PROVE  Resolved(req[c], hdr[c], seen[c])
<1>1. HdrOK(req[c], pc[c], hdr[c], seen[c]) /\ req[c].by # "none"
  BY DEF BInv, HdrSeen, SeenCurrent
<1>2. req[c].by \in {"num", "latest", "pending", "hash", "none"}
  BY DEF BInv, TypeOK, Requests
<1>3. CASE req[c].by = "num"
  BY <1>1, <1>3, ResolvedNum DEF HdrOK
<1>4. CASE req[c].by \in {"latest", "pending"}
  BY <1>1, <1>4, ResolvedLatest DEF HdrOK
<1>5. CASE req[c].by = "hash"
  <2>1. hdr[c] = req[c].h /\ (req[c].rc => <<Number[req[c].h], req[c].h>> \in seen[c])
    BY <1>1, <1>5 DEF HdrOK
  <2> QED BY <1>5, <2>1, ResolvedHash
<1> QED BY <1>1, <1>2, <1>3, <1>4, <1>5

(* The canonical block at height x, for a request by number (x its number) *)
(* or for the latest or pending block, is a resolved header.               *)
LEMMA CanonAnswer ==
  ASSUME BInv, NEW c \in Callers, pc[c] # "idle",
         req[c].by \in {"num", "latest", "pending"},
         NEW x \in Nums, req[c].by = "num" => x = req[c].n, canon[x] \in Blocks
  PROVE  /\ Resolved(req[c], canon[x], seen[c])
         /\ \A p \in {"canon", "body", "state"} : HdrOK(req[c], p, canon[x], seen[c])
<1>1. <<x, canon[x]>> \in seen[c] /\ <<Number[canon[x]], canon[x]>> \in seen[c]
  BY CanonSeen
<1>2. Resolved(req[c], canon[x], seen[c])
  <2>1. CASE req[c].by = "num"
    BY <1>1, <2>1, ResolvedNum
  <2>2. CASE req[c].by \in {"latest", "pending"}
    BY <1>1, <2>2, ResolvedLatest
  <2> QED BY <2>1, <2>2
<1>3. \A p \in {"canon", "body", "state"} : HdrOK(req[c], p, canon[x], seen[c])
  BY <1>1 DEF HdrOK
<1> QED BY <1>2, <1>3

-----------------------------------------------------------------------------
(* Entering an RPC call keeps the invariant.                               *)
LEMMA CallBInv ==
  ASSUME BInv, NEW c \in Callers, NEW f \in Fns, NEW r \in Requests,
         f = "Receipts" => r.by = "hash" /\ ~r.rc, Call(c, f, r)
  PROVE  BInv'
<1> USE DEF BInv
<1>1. CanonPairs(canon) \subseteq Nums \X Blocks
  BY CanonPairsType DEF TypeOK
<1>2. r.by \in {"num", "latest", "pending", "none", "hash"}
  BY DEF Requests
<1>3. TypeOK'
  BY <1>1, <1>2 DEF TypeOK, Call, chain, Steps
<1>4. CanonNumbered' /\ Contiguous' /\ HeadExists'
  BY DEF CanonNumbered, Contiguous, HeadExists, Call, chain
<1>5. SeenCurrent'
  BY DEF SeenCurrent, Call, TypeOK, chain
<1>6. PcMatchesReq'
  BY <1>2 DEF PcMatchesReq, Call, TypeOK, chain
<1>7. HdrSeen'
  BY DEF HdrSeen, Call, TypeOK
<1>8. ResolvesRequest'
  <2>1. \A d \in Callers : (pc'[d] = "idle" /\ out'[d] = "ok" /\ val'[d] \in Blocks) =>
           Resolved(req'[d], val'[d], seen'[d])
    BY ResolvesRequestDef DEF Call, TypeOK
  <2> QED BY <2>1, Zenon DEF ResolvesRequest, Resolved
<1> QED BY <1>3, <1>4, <1>5, <1>6, <1>7, <1>8

(* The miner's first pending snapshot keeps the invariant.                 *)
LEMMA MinerCommitBInv ==
  ASSUME BInv, MinerCommit
  PROVE  BInv'
BY DEF BInv, MinerCommit, TypeOK, CanonNumbered, Contiguous, HeadExists,
       SeenCurrent, PcMatchesReq, HdrSeen, HdrOK, ResolvesRequest, Head, CanonPairs, callers

(* A step of a number path that returns the canonical block at height x.   *)
LEMMA ReturnCanon ==
  ASSUME BInv, NEW c \in Callers, pc[c] # "idle",
         req[c].by \in {"num", "latest", "pending"},
         NEW x \in Nums, req[c].by = "num" => x = req[c].n,
         NEW o \in {"ok", "err"}, Return(c, o, canon[x]), UNCHANGED <<chain, seen>>
  PROVE  BInv'
<1>1. canon[x] \in Blocks \cup {NoBlock}
  BY DEF BInv, TypeOK
<1>2. canon[x] \in Blocks => Resolved(req[c], canon[x], seen[c])
  BY CanonAnswer
<1> QED BY <1>1, <1>2, ReturnStep

(* The height a number path reads: the head for latest and pending.        *)
LEMMA NumTarget ==
  ASSUME BInv, NEW c \in Callers, req[c].by \in {"num", "latest", "pending"}
  PROVE  /\ Head \in Nums /\ canon[Head] \in Blocks
         /\ req[c].n \in Nums
<1>1. Head \in Nums /\ canon[Head] # NoBlock
  BY HeadInNums DEF BInv
<1>2. req[c].n \in Nums
  BY BackendAssumption DEF BInv, TypeOK, Requests, Nums
<1> QED BY <1>1, <1>2 DEF BInv, TypeOK

(* The pending block is never a chain block: returning it is unchecked.    *)
LEMMA ReturnPending ==
  ASSUME BInv, NEW c \in Callers, pc[c] # "idle", NEW o \in {"ok", "panic"},
         Return(c, o, pending), UNCHANGED <<chain, seen>>
  PROVE  BInv'
<1>1. pending \in {NoBlock, PendingBlk} /\ pending \notin Blocks
  BY BackendAssumption DEF BInv, TypeOK
<1> QED BY <1>1, ReturnStep

(* A step of HykAPIBackend's HeaderByNumber keeps the invariant.           *)
LEMMA FullHeaderByNumberBInv ==
  ASSUME BInv, NEW c \in Callers, FullHeaderByNumber(c)
  PROVE  BInv'
<1>1. pc[c] = "num" /\ UNCHANGED <<chain, seen>>
  BY DEF FullHeaderByNumber, Read
<1>2. req[c].by \in {"num", "latest", "pending"}
  BY <1>1 DEF BInv, PcMatchesReq
<1>3. Head \in Nums /\ req[c].n \in Nums
  BY <1>2, NumTarget
<1>4. CASE req[c].by = "pending"
  <2>1. Return(c, "panic", NoBlock) \/ Return(c, "ok", pending)
    BY <1>4, Zenon DEF FullHeaderByNumber
  <2>2. pending \in {NoBlock, PendingBlk}
    BY DEF BInv, TypeOK
  <2> QED BY <1>1, <2>1, <2>2, ReturnStep, ReturnPending
<1>5. CASE req[c].by = "latest"
  <2>1. Return(c, "ok", canon[Head])
    BY <1>5, Zenon DEF FullHeaderByNumber
  <2> QED BY <1>1, <1>2, <1>3, <1>5, <2>1, ReturnCanon
<1>6. CASE req[c].by = "num"
  <2>1. Return(c, "ok", canon[req[c].n])
    BY <1>6, Zenon DEF FullHeaderByNumber
  <2> QED BY <1>1, <1>2, <1>3, <1>6, <2>1, ReturnCanon
<1> QED BY <1>2, <1>4, <1>5, <1>6

(* A step of HykAPIBackend's BlockByNumber keeps the invariant.            *)
LEMMA FullBlockByNumberBInv ==
  ASSUME BInv, NEW c \in Callers, FullBlockByNumber(c)
  PROVE  BInv'
<1>1. pc[c] = "num" /\ UNCHANGED <<chain, seen>>
  BY DEF FullBlockByNumber, Read
<1>2. req[c].by \in {"num", "latest", "pending"}
  BY <1>1 DEF BInv, PcMatchesReq
<1>3. Head \in Nums /\ req[c].n \in Nums
  BY <1>2, NumTarget
<1>4. CASE req[c].by = "pending"
  <2>1. Return(c, "ok", pending)
    BY <1>4, Zenon DEF FullBlockByNumber
  <2> QED BY <1>1, <2>1, ReturnPending
<1>5. CASE req[c].by = "latest"
  <2>1. Return(c, "ok", canon[Head])
    BY <1>5, Zenon DEF FullBlockByNumber
  <2> QED BY <1>1, <1>2, <1>3, <1>5, <2>1, ReturnCanon
<1>6. CASE req[c].by = "num"
  <2>1. Return(c, "ok", IF canon[req[c].n] \in bodies THEN canon[req[c].n] ELSE NoBlock)
    BY <1>6, Zenon DEF FullBlockByNumber
  <2>2. CASE canon[req[c].n] \in bodies
    BY <1>1, <1>2, <1>3, <1>6, <2>1, <2>2, ReturnCanon
  <2>3. CASE canon[req[c].n] \notin bodies
    BY <1>1, <2>1, <2>3, BackendAssumption, ReturnStep
  <2> QED BY <2>2, <2>3
<1> QED BY <1>2, <1>4, <1>5, <1>6

(* A step of a hash path that holds the requested block at step p, its    *)
(* canonicity seen once p is past the check.                               *)
LEMMA HashGoto ==
  ASSUME BInv, NEW c \in Callers, pc[c] # "idle", req[c].by = "hash",
         NEW p \in {"canon", "body", "state"},
         req[c].rc /\ p # "canon" => <<Number[req[c].h], req[c].h>> \in seen[c],
         Goto(c, p, req[c].h), UNCHANGED <<chain, seen>>
  PROVE  BInv'
<1>1. req[c].h \in Blocks
  BY DEF BInv, TypeOK, Requests
<1>2. HdrOK(req[c], p, req[c].h, seen[c])
  BY DEF HdrOK
<1> QED BY <1>1, <1>2, GotoStep

(* A step of a hash path that returns the requested block.                 *)
LEMMA ReturnHash ==
  ASSUME BInv, NEW c \in Callers, pc[c] # "idle", req[c].by = "hash",
         req[c].rc => <<Number[req[c].h], req[c].h>> \in seen[c],
         Return(c, "ok", req[c].h), UNCHANGED <<chain, seen>>
  PROVE  BInv'
<1>1. req[c].h \in Blocks
  BY DEF BInv, TypeOK, Requests
<1>2. Resolved(req[c], req[c].h, seen[c])
  BY ResolvedHash
<1> QED BY <1>1, <1>2, ReturnStep

(* A step that fails, returning nil.                                       *)
LEMMA ReturnErr ==
  ASSUME BInv, NEW c \in Callers, pc[c] # "idle", NEW o \in {"ok", "err"},
         Return(c, o, NoBlock), UNCHANGED <<chain, seen>>
  PROVE  BInv'
BY BackendAssumption, ReturnStep

(* The canonical check passed: the block's canonicity is seen.            *)
LEMMA CheckedSeen ==
  ASSUME BInv, NEW c \in Callers, pc[c] # "idle", req[c].by = "hash",
         IsCanonical(req[c].h)
  PROVE  <<Number[req[c].h], req[c].h>> \in seen[c]
<1>1. req[c].h \in Blocks
  BY DEF BInv, TypeOK, Requests
<1> QED BY <1>1, CanonicalSeen

(* The block held at a "body" or "state" step of a hash path.              *)
LEMMA HeldHash ==
  ASSUME BInv, NEW c \in Callers, pc[c] \in {"body", "state"}, req[c].by = "hash"
  PROVE  /\ hdr[c] = req[c].h
         /\ req[c].rc => <<Number[req[c].h], req[c].h>> \in seen[c]
BY DEF BInv, HdrSeen, HdrOK

(* A step of HykAPIBackend's StateAndHeaderByNumber keeps the invariant.   *)
LEMMA FullStateAndHeaderByNumberBInv ==
  ASSUME BInv, NEW c \in Callers, FullStateAndHeaderByNumber(c)
  PROVE  BInv'
<1>1. pc[c] # "idle" /\ UNCHANGED <<chain, seen>>
  BY DEF FullStateAndHeaderByNumber, Read
<1>2. CASE pc[c] = "num" /\ req[c].by = "pending"
  <2>1. Return(c, "panic", NoBlock) \/ Return(c, "ok", pending)
    BY <1>2, Zenon DEF FullStateAndHeaderByNumber
  <2>2. pending \in {NoBlock, PendingBlk}
    BY DEF BInv, TypeOK
  <2> QED BY <1>1, <2>1, <2>2, ReturnStep, ReturnPending
<1>3. CASE pc[c] = "num" /\ req[c].by \in {"latest", "num"}
  <2> DEFINE x == IF req[c].by = "latest" THEN Head ELSE req[c].n
  <2>1. x \in Nums /\ (req[c].by = "num" => x = req[c].n)
    BY <1>3, NumTarget
  <2>2. IF canon[x] = NoBlock THEN Return(c, "err", NoBlock) ELSE Goto(c, "state", canon[x])
    BY <1>3, Zenon DEF FullStateAndHeaderByNumber
  <2>3. canon[x] \in Blocks \cup {NoBlock}
    BY <2>1 DEF BInv, TypeOK
  <2>4. CASE canon[x] \in Blocks
    <3>1. HdrOK(req[c], "state", canon[x], seen[c])
      BY <1>1, <1>3, <2>1, <2>4, CanonAnswer
    <3> QED BY <1>1, <2>2, <2>4, <3>1, BackendAssumption, GotoStep
  <2>5. CASE canon[x] = NoBlock
    BY <1>1, <2>2, <2>5, ReturnErr
  <2> QED BY <2>3, <2>4, <2>5
<1>4. CASE pc[c] = "state"
  <2>1. PICK ok \in BOOLEAN : Return(c, IF ok THEN "ok" ELSE "err", hdr[c])
    BY <1>4, Zenon DEF FullStateAndHeaderByNumber
  <2>2. hdr[c] \in Blocks /\ Resolved(req[c], hdr[c], seen[c])
    BY <1>4, HdrResolved DEF BInv, TypeOK
  <2> QED BY <1>1, <2>1, <2>2, ReturnStep
<1> QED BY <1>2, <1>3, <1>4 DEF FullStateAndHeaderByNumber

(* A step of HykAPIBackend's HeaderByNumberOrHash keeps the invariant.     *)
LEMMA FullHeaderByNumberOrHashBInv ==
  ASSUME BInv, NEW c \in Callers, FullHeaderByNumberOrHash(c)
  PROVE  BInv'
<1>1. pc[c] \in {"hash", "canon"} /\ UNCHANGED <<chain, seen>>
  BY DEF FullHeaderByNumberOrHash, Read
<1>2. req[c].by = "hash"
  BY <1>1 DEF BInv, PcMatchesReq
<1>3. CASE pc[c] = "hash"
  <2>1. CASE req[c].h \notin headers
    <3>1. Return(c, "err", NoBlock)
      BY <1>3, <2>1, Zenon DEF FullHeaderByNumberOrHash
    <3> QED BY <1>1, <3>1, ReturnErr
  <2>2. CASE req[c].h \in headers /\ req[c].rc
    <3>1. Goto(c, "canon", req[c].h)
      BY <1>3, <2>2, Zenon DEF FullHeaderByNumberOrHash
    <3> QED BY <1>1, <1>2, <3>1, HashGoto
  <2>3. CASE req[c].h \in headers /\ ~req[c].rc
    <3>1. Return(c, "ok", req[c].h)
      BY <1>3, <2>3, Zenon DEF FullHeaderByNumberOrHash
    <3> QED BY <1>1, <1>2, <2>3, <3>1, ReturnHash
  <2> QED BY <2>1, <2>2, <2>3
<1>4. CASE pc[c] = "canon"
  <2>1. CASE IsCanonical(req[c].h)
    <3>1. Return(c, "ok", req[c].h)
      BY <1>4, <2>1, Zenon DEF FullHeaderByNumberOrHash
    <3> QED BY <1>1, <1>2, <2>1, <3>1, CheckedSeen, ReturnHash
  <2>2. CASE ~IsCanonical(req[c].h)
    <3>1. Return(c, "err", NoBlock)
      BY <1>4, <2>2, Zenon DEF FullHeaderByNumberOrHash
    <3> QED BY <1>1, <3>1, ReturnErr
  <2> QED BY <2>1, <2>2
<1> QED BY <1>1, <1>3, <1>4

(* A step of HykAPIBackend's BlockByNumberOrHash keeps the invariant.      *)
LEMMA FullBlockByNumberOrHashBInv ==
  ASSUME BInv, NEW c \in Callers, FullBlockByNumberOrHash(c)
  PROVE  BInv'
<1>1. pc[c] \in {"hash", "canon", "body"} /\ UNCHANGED <<chain, seen>>
  BY DEF FullBlockByNumberOrHash, Read
<1>2. pc[c] # "idle" /\ req[c].by = "hash"
  <2>1. CASE pc[c] \in {"hash", "canon"}
    BY <1>1, <2>1 DEF BInv, PcMatchesReq
  <2>2. CASE pc[c] = "body"
    BY <1>1, <2>2 DEF FullBlockByNumberOrHash, BInv, PcMatchesReq
  <2> QED BY <1>1, <2>1, <2>2
<1>3. CASE pc[c] = "hash"
  <2>1. CASE req[c].h \notin headers
    <3>1. Return(c, "err", NoBlock)
      BY <1>3, <2>1, Zenon DEF FullBlockByNumberOrHash
    <3> QED BY <1>1, <1>2, <3>1, ReturnErr
  <2>2. CASE req[c].h \in headers /\ req[c].rc
    <3>1. Goto(c, "canon", req[c].h)
      BY <1>3, <2>2, Zenon DEF FullBlockByNumberOrHash
    <3> QED BY <1>1, <1>2, <3>1, HashGoto
  <2>3. CASE req[c].h \in headers /\ ~req[c].rc
    <3>1. Goto(c, "body", req[c].h)
      BY <1>3, <2>3, Zenon DEF FullBlockByNumberOrHash
    <3> QED BY <1>1, <1>2, <2>3, <3>1, HashGoto
  <2> QED BY <2>1, <2>2, <2>3
<1>4. CASE pc[c] = "canon"
  <2>1. CASE IsCanonical(req[c].h)
    <3>1. Goto(c, "body", req[c].h)
      BY <1>4, <2>1, Zenon DEF FullBlockByNumberOrHash
    <3> QED BY <1>1, <1>2, <2>1, <3>1, CheckedSeen, HashGoto
  <2>2. CASE ~IsCanonical(req[c].h)
    <3>1. Return(c, "err", NoBlock)
      BY <1>4, <2>2, Zenon DEF FullBlockByNumberOrHash
    <3> QED BY <1>1, <1>2, <3>1, ReturnErr
  <2> QED BY <2>1, <2>2
<1>5. CASE pc[c] = "body"
  <2>1. hdr[c] = req[c].h /\ (req[c].rc => <<Number[req[c].h], req[c].h>> \in seen[c])
    BY <1>2, <1>5, HeldHash
  <2>2. CASE req[c].h \in bodies
    <3>1. Return(c, "ok", req[c].h)
      BY <1>5, <2>2, Zenon DEF FullBlockByNumberOrHash
    <3> QED BY <1>1, <1>2, <2>1, <3>1, ReturnHash
  <2>3. CASE req[c].h \notin bodies
    <3>1. Return(c, "err", NoBlock)
      BY <1>5, <2>3, Zenon DEF FullBlockByNumberOrHash
    <3> QED BY <1>1, <1>2, <3>1, ReturnErr
  <2> QED BY <2>2, <2>3
<1> QED BY <1>1, <1>3, <1>4, <1>5

(* A step of HykAPIBackend's StateAndHeaderByNumberOrHash keeps the invariant. *)
LEMMA FullStateAndHeaderByNumberOrHashBInv ==
  ASSUME BInv, NEW c \in Callers, FullStateAndHeaderByNumberOrHash(c)
  PROVE  BInv'
<1>1. pc[c] \in {"hash", "canon"} /\ UNCHANGED <<chain, seen>>
  BY DEF FullStateAndHeaderByNumberOrHash, Read
<1>2. pc[c] # "idle" /\ req[c].by = "hash"
  <2>1. CASE pc[c] \in {"hash", "canon"}
    BY <1>1, <2>1 DEF BInv, PcMatchesReq
  <2> QED BY <1>1, <2>1
<1>3. CASE pc[c] = "hash"
  <2>1. CASE req[c].h \notin headers
    <3>1. Return(c, "err", NoBlock)
      BY <1>3, <2>1, Zenon DEF FullStateAndHeaderByNumberOrHash
    <3> QED BY <1>1, <1>2, <3>1, ReturnErr
  <2>2. CASE req[c].h \in headers /\ req[c].rc
    <3>1. Goto(c, "canon", req[c].h)
      BY <1>3, <2>2, Zenon DEF FullStateAndHeaderByNumberOrHash
    <3> QED BY <1>1, <1>2, <3>1, HashGoto
  <2>3. CASE req[c].h \in headers /\ ~req[c].rc
    <3>1. Goto(c, "state", req[c].h)
      BY <1>3, <2>3, Zenon DEF FullStateAndHeaderByNumberOrHash
    <3> QED BY <1>1, <1>2, <2>3, <3>1, HashGoto
  <2> QED BY <2>1, <2>2, <2>3
<1>4. CASE pc[c] = "canon"
  <2>1. CASE IsCanonical(req[c].h)
    <3>1. Goto(c, "state", req[c].h)
      BY <1>4, <2>1, Zenon DEF FullStateAndHeaderByNumberOrHash
    <3> QED BY <1>1, <1>2, <2>1, <3>1, CheckedSeen, HashGoto
  <2>2. CASE ~IsCanonical(req[c].h)
    <3>1. Return(c, "err", NoBlock)
      BY <1>4, <2>2, Zenon DEF FullStateAndHeaderByNumberOrHash
    <3> QED BY <1>1, <1>2, <3>1, ReturnErr
  <2> QED BY <2>1, <2>2
<1> QED BY <1>1, <1>3, <1>4

(* A step of HykAPIBackend's Receipts keeps the invariant.                 *)
LEMMA FullReceiptsBInv ==
  ASSUME BInv, NEW c \in Callers, FullReceipts(c)
  PROVE  BInv'
<1>1. pc[c] = "hash" /\ fn[c] = "Receipts" /\ UNCHANGED <<chain, seen>>
  BY DEF FullReceipts, Read
<1>2. req[c].by = "hash" /\ ~req[c].rc
  BY <1>1 DEF BInv, PcMatchesReq
<1>3. CASE req[c].h \in bodies
  <2>1. Return(c, "ok", req[c].h)
    BY <1>3, Zenon DEF FullReceipts
  <2> QED BY <1>1, <1>2, <2>1, ReturnHash
<1>4. CASE req[c].h \notin bodies
  <2>1. Return(c, "ok", NoBlock)
    BY <1>4, Zenon DEF FullReceipts
  <2> QED BY <1>1, <2>1, ReturnErr
<1> QED BY <1>3, <1>4

(* What the light client's header lookup by number can answer.           *)
LEMMA LightHeaderAnswer ==
  ASSUME BInv, NEW c \in Callers, pc[c] # "idle",
         req[c].by \in {"num", "latest", "pending"},
         NEW res \in LightHeaderResults(req[c])
  PROVE  /\ res[1] \in {"ok", "err"} /\ res[2] \in Blocks \cup {NoBlock}
         /\ res[2] \in Blocks =>
              /\ Resolved(req[c], res[2], seen[c])
              /\ HdrOK(req[c], "body", res[2], seen[c])
<1>1. Head \in Nums /\ canon[Head] \in Blocks /\ req[c].n \in Nums
  BY NumTarget
<1>2. CASE req[c].by \in {"latest", "pending"}
  <2>1. res = <<"ok", canon[Head]>>
    BY <1>2 DEF LightHeaderResults
  <2> QED BY <1>1, <1>2, <2>1, CanonAnswer
<1>3. CASE req[c].by = "num" /\ canon[req[c].n] # NoBlock
  <2>1. res = <<"ok", canon[req[c].n]>>
    BY <1>3 DEF LightHeaderResults
  <2>2. canon[req[c].n] \in Blocks
    BY <1>1, <1>3 DEF BInv, TypeOK
  <2> QED BY <1>1, <1>3, <2>1, <2>2, CanonAnswer
<1>4. CASE req[c].by = "num" /\ canon[req[c].n] = NoBlock
  <2>1. res \in {<<"ok", NoBlock>>, <<"err", NoBlock>>}
    BY <1>4 DEF LightHeaderResults
  <2> QED BY <2>1, BackendAssumption
<1> QED BY <1>2, <1>3, <1>4

(* What the light client's block retrieval by hash can answer.             *)
LEMMA LightBlockAnswer ==
  ASSUME NEW h, NEW res \in LightBlockResults(h)
  PROVE  res = <<"ok", h>> \/ res = <<"err", NoBlock>>
BY DEF LightBlockResults

(* A step of LesApiBackend's HeaderByNumber keeps the invariant.           *)
LEMMA LightHeaderByNumberBInv ==
  ASSUME BInv, NEW c \in Callers, LightHeaderByNumber(c)
  PROVE  BInv'
<1>1. pc[c] = "num" /\ UNCHANGED <<chain, seen>>
  BY DEF LightHeaderByNumber, Read
<1>2. req[c].by \in {"num", "latest", "pending"}
  BY <1>1 DEF BInv, PcMatchesReq
<1>3. PICK res \in LightHeaderResults(req[c]) : Return(c, res[1], res[2])
  BY DEF LightHeaderByNumber
<1>4. res[1] \in {"ok", "err"} /\ res[2] \in Blocks \cup {NoBlock}
      /\ (res[2] \in Blocks => Resolved(req[c], res[2], seen[c]))
  BY <1>1, <1>2, LightHeaderAnswer
<1> QED BY <1>1, <1>3, <1>4, ReturnStep

(* A step of LesApiBackend's BlockByNumber keeps the invariant.            *)
LEMMA LightBlockByNumberBInv ==
  ASSUME BInv, NEW c \in Callers, LightBlockByNumber(c)
  PROVE  BInv'
<1>1. pc[c] \in {"num", "body"} /\ kind = "light" /\ UNCHANGED <<chain, seen>>
  BY DEF LightBlockByNumber, Read
<1>2. CASE pc[c] = "num"
  <2>1. req[c].by \in {"num", "latest", "pending"}
    BY <1>2 DEF BInv, PcMatchesReq
  <2>2. PICK res \in LightHeaderResults(req[c]) :
          IF res[1] = "err" \/ res[2] = NoBlock THEN Return(c, res[1], NoBlock)
          ELSE Goto(c, "body", res[2])
    BY <1>2 DEF LightBlockByNumber
  <2>3. res[1] \in {"ok", "err"} /\ res[2] \in Blocks \cup {NoBlock}
        /\ (res[2] \in Blocks => HdrOK(req[c], "body", res[2], seen[c]))
    BY <1>1, <1>2, <2>1, LightHeaderAnswer
  <2>4. CASE res[1] = "err" \/ res[2] = NoBlock
    BY <1>1, <1>2, <2>2, <2>3, <2>4, ReturnErr
  <2>5. CASE ~(res[1] = "err" \/ res[2] = NoBlock)
    BY <1>1, <1>2, <2>2, <2>3, <2>5, GotoStep
  <2> QED BY <2>4, <2>5
<1>3. CASE pc[c] = "body"
  <2>1. PICK res \in LightBlockResults(hdr[c]) : Return(c, res[1], res[2])
    BY <1>3 DEF LightBlockByNumber
  <2>2. res = <<"ok", hdr[c]>> \/ res = <<"err", NoBlock>>
    BY LightBlockAnswer
  <2>3. hdr[c] \in Blocks /\ Resolved(req[c], hdr[c], seen[c])
    BY <1>3, HdrResolved DEF BInv, TypeOK
  <2> QED BY <1>1, <2>1, <2>2, <2>3, BackendAssumption, ReturnStep
<1> QED BY <1>1, <1>2, <1>3

(* A step of LesApiBackend's StateAndHeaderByNumber keeps the invariant.   *)
LEMMA LightStateAndHeaderByNumberBInv ==
  ASSUME BInv, NEW c \in Callers, LightStateAndHeaderByNumber(c)
  PROVE  BInv'
<1>1. pc[c] = "num" /\ UNCHANGED <<chain, seen>>
  BY DEF LightStateAndHeaderByNumber, Read
<1>2. req[c].by \in {"num", "latest", "pending"}
  BY <1>1 DEF BInv, PcMatchesReq
<1>3. PICK res \in LightHeaderResults(req[c]) :
        IF res[1] = "err" \/ res[2] = NoBlock THEN Return(c, "err", NoBlock)
        ELSE Return(c, "ok", res[2])
  BY DEF LightStateAndHeaderByNumber
<1>4. res[1] \in {"ok", "err"} /\ res[2] \in Blocks \cup {NoBlock}
      /\ (res[2] \in Blocks => Resolved(req[c], res[2], seen[c]))
  BY <1>1, <1>2, LightHeaderAnswer
<1> QED BY <1>1, <1>3, <1>4, ReturnStep, ReturnErr

(* A step of LesApiBackend's HeaderByNumberOrHash keeps the invariant.     *)
LEMMA LightHeaderByNumberOrHashBInv ==
  ASSUME BInv, NEW c \in Callers, LightHeaderByNumberOrHash(c)
  PROVE  BInv'
<1>1. pc[c] \in {"hash", "canon"} /\ UNCHANGED <<chain, seen>>
  BY DEF LightHeaderByNumberOrHash, Read
<1>2. req[c].by = "hash"
  BY <1>1 DEF BInv, PcMatchesReq
<1>3. CASE pc[c] = "hash"
  <2>1. CASE req[c].h \notin headers
    <3>1. Return(c, "err", NoBlock)
      BY <1>3, <2>1, Zenon DEF LightHeaderByNumberOrHash
    <3> QED BY <1>1, <3>1, ReturnErr
  <2>2. CASE req[c].h \in headers /\ req[c].rc
    <3>1. Goto(c, "canon", req[c].h)
      BY <1>3, <2>2, Zenon DEF LightHeaderByNumberOrHash
    <3> QED BY <1>1, <1>2, <3>1, HashGoto
  <2>3. CASE req[c].h \in headers /\ ~req[c].rc
    <3>1. Return(c, "ok", req[c].h)
      BY <1>3, <2>3, Zenon DEF LightHeaderByNumberOrHash
    <3> QED BY <1>1, <1>2, <2>3, <3>1, ReturnHash
  <2> QED BY <2>1, <2>2, <2>3
<1>4. CASE pc[c] = "canon"
  <2>1. CASE IsCanonical(req[c].h)
    <3>1. Return(c, "ok", req[c].h)
      BY <1>4, <2>1, Zenon DEF LightHeaderByNumberOrHash
    <3> QED BY <1>1, <1>2, <2>1, <3>1, CheckedSeen, ReturnHash
  <2>2. CASE ~IsCanonical(req[c].h)
    <3>1. Return(c, "err", NoBlock)
      BY <1>4, <2>2, Zenon DEF LightHeaderByNumberOrHash
    <3> QED BY <1>1, <3>1, ReturnErr
  <2> QED BY <2>1, <2>2
<1> QED BY <1>1, <1>3, <1>4

(* A step of LesApiBackend's StateAndHeaderByNumberOrHash keeps the invariant. *)
LEMMA LightStateAndHeaderByNumberOrHashBInv ==
  ASSUME BInv, NEW c \in Callers, LightStateAndHeaderByNumberOrHash(c)
  PROVE  BInv'
<1>1. pc[c] \in {"hash", "canon"} /\ UNCHANGED <<chain, seen>>
  BY DEF LightStateAndHeaderByNumberOrHash, Read
<1>2. req[c].by = "hash"
  BY <1>1 DEF BInv, PcMatchesReq
<1>3. CASE pc[c] = "hash"
  <2>1. CASE req[c].h \notin headers
    <3>1. Return(c, "err", NoBlock)
      BY <1>3, <2>1, Zenon DEF LightStateAndHeaderByNumberOrHash
    <3> QED BY <1>1, <3>1, ReturnErr
  <2>2. CASE req[c].h \in headers /\ req[c].rc
    <3>1. Goto(c, "canon", req[c].h)
      BY <1>3, <2>2, Zenon DEF LightStateAndHeaderByNumberOrHash
    <3> QED BY <1>1, <1>2, <3>1, HashGoto
  <2>3. CASE req[c].h \in headers /\ ~req[c].rc
    <3>1. Return(c, "ok", req[c].h)
      BY <1>3, <2>3, Zenon DEF LightStateAndHeaderByNumberOrHash
    <3> QED BY <1>1, <1>2, <2>3, <3>1, ReturnHash
  <2> QED BY <2>1, <2>2, <2>3
<1>4. CASE pc[c] = "canon"
  <2>1. CASE IsCanonical(req[c].h)
    <3>1. Return(c, "ok", req[c].h)
      BY <1>4, <2>1, Zenon DEF LightStateAndHeaderByNumberOrHash
    <3> QED BY <1>1, <1>2, <2>1, <3>1, CheckedSeen, ReturnHash
  <2>2. CASE ~IsCanonical(req[c].h)
    <3>1. Return(c, "err", NoBlock)
      BY <1>4, <2>2, Zenon DEF LightStateAndHeaderByNumberOrHash
    <3> QED BY <1>1, <3>1, ReturnErr
  <2> QED BY <2>1, <2>2
<1> QED BY <1>1, <1>3, <1>4

(* A step of LesApiBackend's BlockByNumberOrHash keeps the invariant.      *)
LEMMA LightBlockByNumberOrHashBInv ==
  ASSUME BInv, NEW c \in Callers, LightBlockByNumberOrHash(c)
  PROVE  BInv'
<1>1. pc[c] \in {"hash", "canon"} /\ UNCHANGED <<chain, seen>>
  BY DEF LightBlockByNumberOrHash, Read
<1>2. req[c].by = "hash"
  BY <1>1 DEF BInv, PcMatchesReq
<1>3. CASE pc[c] = "hash"
  <2>1. PICK res \in LightBlockResults(req[c].h) :
          IF res[1] = "err" \/ res[2] = NoBlock THEN Return(c, "err", NoBlock)
          ELSE IF req[c].rc THEN Goto(c, "canon", req[c].h)
          ELSE Return(c, "ok", req[c].h)
    BY <1>3, Zenon DEF LightBlockByNumberOrHash
  <2>2. CASE res[1] = "err" \/ res[2] = NoBlock
    BY <1>1, <2>1, <2>2, ReturnErr
  <2>3. CASE ~(res[1] = "err" \/ res[2] = NoBlock) /\ req[c].rc
    BY <1>1, <1>2, <2>1, <2>3, HashGoto
  <2>4. CASE ~(res[1] = "err" \/ res[2] = NoBlock) /\ ~req[c].rc
    BY <1>1, <1>2, <2>1, <2>4, ReturnHash
  <2> QED BY <2>2, <2>3, <2>4
<1>4. CASE pc[c] = "canon"
  <2>1. CASE IsCanonical(req[c].h)
    <3>1. Return(c, "ok", req[c].h)
      BY <1>4, <2>1, Zenon DEF LightBlockByNumberOrHash
    <3> QED BY <1>1, <1>2, <2>1, <3>1, CheckedSeen, ReturnHash
  <2>2. CASE ~IsCanonical(req[c].h)
    <3>1. Return(c, "err", NoBlock)
      BY <1>4, <2>2, Zenon DEF LightBlockByNumberOrHash
    <3> QED BY <1>1, <3>1, ReturnErr
  <2> QED BY <2>1, <2>2
<1> QED BY <1>1, <1>3, <1>4

(* A step of LesApiBackend's Receipts keeps the invariant.                 *)
LEMMA LightReceiptsBInv ==
  ASSUME BInv, NEW c \in Callers, LightReceipts(c)
  PROVE  BInv'
<1>1. pc[c] \in {"hash", "body"} /\ fn[c] = "Receipts" /\ UNCHANGED <<chain, seen>>
  BY DEF LightReceipts, Read
<1>2. req[c].by = "hash" /\ ~req[c].rc
  BY <1>1 DEF BInv, PcMatchesReq
<1>3. CASE pc[c] = "hash"
  <2>1. CASE req[c].h \in headers
    <3>1. Goto(c, "body", req[c].h)
      BY <1>3, <2>1, Zenon DEF LightReceipts
    <3> QED BY <1>1, <1>2, <3>1, HashGoto
  <2>2. CASE req[c].h \notin headers
    <3>1. Return(c, "ok", NoBlock)
      BY <1>3, <2>2, Zenon DEF LightReceipts
    <3> QED BY <1>1, <3>1, ReturnErr
  <2> QED BY <2>1, <2>2
<1>4. CASE pc[c] = "body"
  <2>1. PICK ok \in BOOLEAN :
          IF ok THEN Return(c, "ok", hdr[c]) ELSE Return(c, "err", NoBlock)
    BY <1>4, Zenon DEF LightReceipts
  <2>2. hdr[c] \in Blocks /\ Resolved(req[c], hdr[c], seen[c])
    BY <1>4, HdrResolved DEF BInv, TypeOK
  <2> QED BY <1>1, <2>1, <2>2, ReturnStep, ReturnErr
<1> QED BY <1>1, <1>3, <1>4

-----------------------------------------------------------------------------
(* Every step of the system keeps the inductive invariant.                 *)
THEOREM NextBInv == BInv /\ [Next]_vars => BInv'
<1> SUFFICES ASSUME BInv, [Next]_vars PROVE BInv'
  OBVIOUS
<1>1. CASE \E c \in Callers : \E f \in Fns, r \in Requests :
             /\ f = "Receipts" => r.by = "hash" /\ ~r.rc
             /\ Call(c, f, r)
  BY <1>1, CallBInv
<1>2. CASE \E c \in Callers : Resolve(c)
  <2>1. PICK c \in Callers : Resolve(c)
    BY <1>2
  <2> QED
    BY <2>1, FullHeaderByNumberBInv, FullBlockByNumberBInv,
       FullStateAndHeaderByNumberBInv, FullHeaderByNumberOrHashBInv,
       FullBlockByNumberOrHashBInv, FullStateAndHeaderByNumberOrHashBInv,
       LightHeaderByNumberBInv, LightBlockByNumberBInv,
       LightStateAndHeaderByNumberBInv, LightHeaderByNumberOrHashBInv,
       LightBlockByNumberOrHashBInv, LightStateAndHeaderByNumberOrHashBInv,
       FullReceiptsBInv, LightReceiptsBInv
    DEF Resolve
<1>3. CASE \E b \in Blocks : Insert(b)
  BY <1>3, InsertBInv
<1>4. CASE MinerCommit
  BY <1>4, MinerCommitBInv
<1>5. CASE \E n \in Nums : SetHead(n)
  BY <1>5, SetHeadBInv
<1>6. CASE UNCHANGED vars
  BY <1>6 DEF vars, chain, callers, BInv, TypeOK, CanonNumbered, Contiguous,
             HeadExists, SeenCurrent, PcMatchesReq, HdrSeen, HdrOK,
             ResolvesRequest, CanonPairs
<1> QED BY <1>1, <1>2, <1>3, <1>4, <1>5, <1>6 DEF Next

(* The RPC backends are type-correct on every chain.                       *)
THEOREM BackendTypeCorrect == Spec => []TypeOK
<1>1. BInv => TypeOK
  BY DEF BInv
<1> QED BY <1>1, InitBInv, NextBInv, PTL DEF Spec

(* Every block, header, state or receipts an RPC backend returns is the one *)
(* the request asked for, and was canonical while the call ran, across     *)
(* reorganisations and SetHead rewinds between the call's chain reads.     *)
THEOREM ResolvesRequestHolds == Spec => []ResolvesRequest
<1>1. BInv => ResolvesRequest
  BY DEF BInv
<1> QED BY <1>1, InitBInv, NextBInv, PTL DEF Spec

=============================================================================
