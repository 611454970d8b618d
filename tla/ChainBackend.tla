---------------------------- MODULE ChainBackend ----------------------------
(***************************************************************************)
(* Block, header and state resolution of the RPC backends: HykAPIBackend   *)
(* (hyk/api_backend.go, full node) and LesApiBackend (les/api_backend.go,  *)
(* light client).  An RPC goroutine resolves a BlockNumberOrHash through a *)
(* sequence of chain reads, each one call of the blockchain and atomic on  *)
(* its own; between two reads the chain may import a block, reorganise or  *)
(* be rewound by SetHead, and the miner may publish its pending block.    *)
(* The chain and the miner are the environment (their code is not in this *)
(* repository): the chain is its canonical number-to-block map, the set of *)
(* blocks whose header is stored and the set whose body is stored.         *)
(*                                                                         *)
(* A request is a record: by "num" (a block number n), "latest",           *)
(* "pending", "hash" (block h, rc = RequireCanonical) or "none" (neither   *)
(* set).  A call's outcome is "ok", "err" or "panic" (a method called on a *)
(* nil *types.Block) with the block it returned, NoBlock for nil.          *)
(***************************************************************************)
EXTENDS Naturals, FiniteSets

CONSTANTS
  Kinds,       \* the backends to check: "full" (HykAPIBackend), "light" (LesApiBackend)
  Blocks,      \* block hashes
  Number,      \* Number[b]: the block number in b's header
  Genesis,     \* the genesis block
  MaxNum,      \* highest block number
  Callers,     \* RPC goroutines
  NoBlock,     \* nil
  PendingBlk   \* the miner's pending block

ASSUME BackendAssumption ==
  /\ Kinds \subseteq {"full", "light"} /\ Kinds # {}
  /\ MaxNum \in Nat
  /\ Number \in [Blocks -> 0 .. MaxNum]
  /\ Genesis \in Blocks /\ Number[Genesis] = 0
  /\ NoBlock \notin Blocks /\ PendingBlk \notin Blocks \cup {NoBlock}
  /\ Callers # {}

Nums == 0 .. MaxNum
Fns == {"Header", "Block", "State", "Receipts"}
Requests ==
       [by : {"num"}, n : Nums, h : {NoBlock}, rc : {FALSE}]
  \cup [by : {"latest", "pending", "none"}, n : {0}, h : {NoBlock}, rc : {FALSE}]
  \cup [by : {"hash"}, n : {0}, h : Blocks, rc : BOOLEAN]
Steps == {"idle", "num", "hash", "canon", "body", "state"}

VARIABLES
  kind,     \* the node's backend, one of Kinds, fixed for a behaviour
  canon,    \* canon[n]: the canonical block at height n, or NoBlock
  headers,  \* blocks whose header the chain stores
  bodies,   \* blocks whose body the chain stores (full node)
  pending,  \* miner.PendingBlock(): NoBlock until the worker's first snapshot
  pc,       \* pc[c]: the read caller c does next, "idle" outside a call
  fn,       \* fn[c]: HeaderByNumberOrHash, BlockByNumberOrHash or StateAnd...
  req,      \* req[c]: the BlockNumberOrHash of c's call
  hdr,      \* hdr[c]: the header c has resolved so far
  out,      \* out[c]: the outcome of c's last call, "none" before the first
  val,      \* val[c]: the block or header c's last call returned
  seen      \* seen[c]: <<n, b>> pairs canonical at some instant of c's call

chain == <<kind, canon, headers, bodies, pending>>
callers == <<pc, fn, req, hdr, out, val>>
vars == <<chain, callers, seen>>

CanonPairs(cn) == {<<n, cn[n]>> : n \in {m \in Nums : cn[m] # NoBlock}}
Head == CHOOSE n \in Nums :
          canon[n] # NoBlock /\ \A m \in n + 1 .. MaxNum : canon[m] = NoBlock
IsCanonical(b) == canon[Number[b]] = b

-----------------------------------------------------------------------------
(* Steps of a call.                                                        *)
Goto(c, p, h) ==
  /\ pc' = [pc EXCEPT ![c] = p]
  /\ hdr' = [hdr EXCEPT ![c] = h]
  /\ UNCHANGED <<fn, req, out, val>>

Return(c, o, b) ==
  /\ pc' = [pc EXCEPT ![c] = "idle"]
  /\ out' = [out EXCEPT ![c] = o]
  /\ val' = [val EXCEPT ![c] = b]
  /\ UNCHANGED <<fn, req, hdr>>

(* A step of the caller reads the chain and leaves it alone.               *)
Read(c) == pc[c] # "idle" /\ UNCHANGED <<chain, seen>>

(* Entering X...ByNumberOrHash(blockNrOrHash): a number goes to the        *)
(* ...ByNumber function, a hash to the hash path, neither is an error.     *)
Call(c, f, r) ==
  /\ pc[c] = "idle"
  /\ fn' = [fn EXCEPT ![c] = f]
  /\ req' = [req EXCEPT ![c] = r]
  /\ hdr' = [hdr EXCEPT ![c] = NoBlock]
  /\ seen' = [seen EXCEPT ![c] = CanonPairs(canon)]
  /\ IF r.by = "none"
     THEN /\ out' = [out EXCEPT ![c] = "err"]
          /\ val' = [val EXCEPT ![c] = NoBlock]
          /\ UNCHANGED pc
     ELSE /\ pc' = [pc EXCEPT ![c] = IF r.by = "hash" THEN "hash" ELSE "num"]
          /\ UNCHANGED <<out, val>>
  /\ UNCHANGED chain

-----------------------------------------------------------------------------
(* HykAPIBackend.  HeaderByNumber: the pending block's header (the block  *)
(* may be nil), the current block's header, or the canonical header.       *)
FullHeaderByNumber(c) ==
  /\ Read(c) /\ kind = "full" /\ fn[c] = "Header" /\ pc[c] = "num"
  /\ CASE req[c].by = "pending" ->
            IF pending = NoBlock THEN Return(c, "panic", NoBlock)
                                 ELSE Return(c, "ok", pending)
       [] req[c].by = "latest" -> Return(c, "ok", canon[Head])
       [] req[c].by = "num" -> Return(c, "ok", canon[req[c].n])

(* BlockByNumber: the pending block, the current block, or the canonical   *)
(* block with its body (GetBlockByNumber).                                 *)
FullBlockByNumber(c) ==
  /\ Read(c) /\ kind = "full" /\ fn[c] = "Block" /\ pc[c] = "num"
  /\ CASE req[c].by = "pending" -> Return(c, "ok", pending)
       [] req[c].by = "latest" -> Return(c, "ok", canon[Head])
       [] req[c].by = "num" ->
            LET b == canon[req[c].n]
            IN Return(c, "ok", IF b \in bodies THEN b ELSE NoBlock)

(* Mutant of FullStateAndHeaderByNumber: a nil header is not checked.     *)
FullStateAndHeaderByNumberNoNilCheck(c) ==
  /\ Read(c) /\ kind = "full" /\ fn[c] = "State"
  /\ \/ /\ pc[c] = "num" /\ req[c].by = "pending"
        /\ IF pending = NoBlock THEN Return(c, "panic", NoBlock)
                                ELSE Return(c, "ok", pending)
     \/ /\ pc[c] = "num" /\ req[c].by \in {"latest", "num"}
        /\ Goto(c, "state", IF req[c].by = "latest" THEN canon[Head] ELSE canon[req[c].n])
     \/ /\ pc[c] = "state"
        /\ \E ok \in BOOLEAN : Return(c, IF ok THEN "ok" ELSE "err", hdr[c])

(* StateAndHeaderByNumber: miner.Pending() for the pending block, else     *)
(* HeaderByNumber then StateAt(header.Root), which may fail.               *)
FullStateAndHeaderByNumber(c) ==
  /\ Read(c) /\ kind = "full" /\ fn[c] = "State"
  /\ \/ /\ pc[c] = "num" /\ req[c].by = "pending"
        /\ IF pending = NoBlock THEN Return(c, "panic", NoBlock)
                                ELSE Return(c, "ok", pending)
     \/ /\ pc[c] = "num" /\ req[c].by \in {"latest", "num"}
        /\ LET h == IF req[c].by = "latest" THEN canon[Head] ELSE canon[req[c].n]
           IN IF h = NoBlock THEN Return(c, "err", NoBlock) ELSE Goto(c, "state", h)
     \/ /\ pc[c] = "state"
        /\ \E ok \in BOOLEAN : Return(c, IF ok THEN "ok" ELSE "err", hdr[c])

(* Mutant of FullBlockByNumberOrHash: RequireCanonical is not checked.     *)
FullBlockByNumberOrHashNoCanonCheck(c) ==
  /\ Read(c) /\ kind = "full" /\ fn[c] = "Block"
  /\ LET h == req[c].h IN
     \/ /\ pc[c] = "hash"
        /\ IF h \notin headers THEN Return(c, "err", NoBlock) ELSE Goto(c, "body", h)
     \/ /\ pc[c] = "canon"
        /\ Goto(c, "body", h)
     \/ /\ pc[c] = "body"
        /\ IF h \in bodies THEN Return(c, "ok", h) ELSE Return(c, "err", NoBlock)

(* HeaderByNumberOrHash, hash path: GetHeaderByHash, then if required the  *)
(* canonical hash at the header's number.                                  *)
FullHeaderByNumberOrHash(c) ==
  /\ Read(c) /\ kind = "full" /\ fn[c] = "Header"
  /\ LET h == req[c].h IN
     \/ /\ pc[c] = "hash"
        /\ IF h \notin headers THEN Return(c, "err", NoBlock)
           ELSE IF req[c].rc THEN Goto(c, "canon", h)
           ELSE Return(c, "ok", h)
     \/ /\ pc[c] = "canon"
        /\ IF IsCanonical(h) THEN Return(c, "ok", h) ELSE Return(c, "err", NoBlock)

(* BlockByNumberOrHash, hash path: GetHeaderByHash, the canonical check,   *)
(* then GetBlock, whose body may be gone by then.                          *)
FullBlockByNumberOrHash(c) ==
  /\ Read(c) /\ kind = "full" /\ fn[c] = "Block"
  /\ LET h == req[c].h IN
     \/ /\ pc[c] = "hash"
        /\ IF h \notin headers THEN Return(c, "err", NoBlock)
           ELSE IF req[c].rc THEN Goto(c, "canon", h)
           ELSE Goto(c, "body", h)
     \/ /\ pc[c] = "canon"
        /\ IF IsCanonical(h) THEN Goto(c, "body", h) ELSE Return(c, "err", NoBlock)
     \/ /\ pc[c] = "body"
        /\ IF h \in bodies THEN Return(c, "ok", h) ELSE Return(c, "err", NoBlock)

(* StateAndHeaderByNumberOrHash, hash path: HeaderByHash, the canonical    *)
(* check, then StateAt (the "state" step of FullStateAndHeaderByNumber).   *)
FullStateAndHeaderByNumberOrHash(c) ==
  /\ Read(c) /\ kind = "full" /\ fn[c] = "State"
  /\ LET h == req[c].h IN
     \/ /\ pc[c] = "hash"
        /\ IF h \notin headers THEN Return(c, "err", NoBlock)
           ELSE IF req[c].rc THEN Goto(c, "canon", h)
           ELSE Goto(c, "state", h)
     \/ /\ pc[c] = "canon"
        /\ IF IsCanonical(h) THEN Goto(c, "state", h) ELSE Return(c, "err", NoBlock)

(* GetReceipts, GetLogs and GetTd by block hash: one read of the chain     *)
(* (GetReceiptsByHash, GetTdByHash), nil with no error for a block whose   *)
(* data is not stored, canonical or not.                                   *)
FullReceipts(c) ==
  /\ Read(c) /\ kind = "full" /\ fn[c] = "Receipts" /\ pc[c] = "hash"
  /\ Return(c, "ok", IF req[c].h \in bodies THEN req[c].h ELSE NoBlock)

-----------------------------------------------------------------------------
(* LesApiBackend.  HeaderByNumber: the current header for latest and       *)
(* pending, else GetHeaderByNumberOdr: the local canonical header, or an   *)
(* on-demand retrieval that returns nil or fails.                          *)
LightHeaderResults(r) ==
  IF r.by \in {"latest", "pending"} THEN {<<"ok", canon[Head]>>}
  ELSE IF canon[r.n] # NoBlock THEN {<<"ok", canon[r.n]>>}
  ELSE {<<"ok", NoBlock>>, <<"err", NoBlock>>}

(* BlockByHash: GetBlockByHash, an error for an unknown hash, else the     *)
(* body retrieved on demand, which may fail.                               *)
LightBlockResults(h) ==
  IF h \notin headers THEN {<<"err", NoBlock>>}
  ELSE {<<"ok", h>>, <<"err", NoBlock>>}

LightHeaderByNumber(c) ==
  /\ Read(c) /\ kind = "light" /\ fn[c] = "Header" /\ pc[c] = "num"
  /\ \E res \in LightHeaderResults(req[c]) : Return(c, res[1], res[2])

(* BlockByNumber: HeaderByNumber, then BlockByHash(header.Hash()); a nil   *)
(* header or an error is returned as it is.                                *)
LightBlockByNumber(c) ==
  /\ Read(c) /\ kind = "light" /\ fn[c] = "Block"
  /\ \/ /\ pc[c] = "num"
        /\ \E res \in LightHeaderResults(req[c]) :
             IF res[1] = "err" \/ res[2] = NoBlock THEN Return(c, res[1], NoBlock)
             ELSE Goto(c, "body", res[2])
     \/ /\ pc[c] = "body"
        /\ \E res \in LightBlockResults(hdr[c]) : Return(c, res[1], res[2])

(* StateAndHeaderByNumber: HeaderByNumber; an error or a nil header is an  *)
(* error, else an ODR-backed state for the header.                         *)
LightStateAndHeaderByNumber(c) ==
  /\ Read(c) /\ kind = "light" /\ fn[c] = "State" /\ pc[c] = "num"
  /\ \E res \in LightHeaderResults(req[c]) :
       IF res[1] = "err" \/ res[2] = NoBlock THEN Return(c, "err", NoBlock)
       ELSE Return(c, "ok", res[2])

(* HeaderByNumberOrHash, hash path: HeaderByHash, then the canonical check. *)
LightHeaderByNumberOrHash(c) ==
  /\ Read(c) /\ kind = "light" /\ fn[c] = "Header"
  /\ LET h == req[c].h IN
     \/ /\ pc[c] = "hash"
        /\ IF h \notin headers THEN Return(c, "err", NoBlock)
           ELSE IF req[c].rc THEN Goto(c, "canon", h)
           ELSE Return(c, "ok", h)
     \/ /\ pc[c] = "canon"
        /\ IF IsCanonical(h) THEN Return(c, "ok", h) ELSE Return(c, "err", NoBlock)

(* Mutant of LightBlockByNumberOrHash: RequireCanonical is not checked.   *)
LightBlockByNumberOrHashNoCanonCheck(c) ==
  /\ Read(c) /\ kind = "light" /\ fn[c] = "Block"
  /\ LET h == req[c].h IN
     \/ /\ pc[c] = "hash"
        /\ \E res \in LightBlockResults(h) :
             IF res[1] = "err" THEN Return(c, "err", NoBlock) ELSE Return(c, "ok", h)
     \/ /\ pc[c] = "canon"
        /\ Return(c, "ok", h)

(* BlockByNumberOrHash, hash path: BlockByHash first, then the canonical   *)
(* check on the block's number.                                            *)
LightBlockByNumberOrHash(c) ==
  /\ Read(c) /\ kind = "light" /\ fn[c] = "Block"
  /\ LET h == req[c].h IN
     \/ /\ pc[c] = "hash"
        /\ \E res \in LightBlockResults(h) :
             IF res[1] = "err" \/ res[2] = NoBlock THEN Return(c, "err", NoBlock)
             ELSE IF req[c].rc THEN Goto(c, "canon", h)
             ELSE Return(c, "ok", h)
     \/ /\ pc[c] = "canon"
        /\ IF IsCanonical(h) THEN Return(c, "ok", h) ELSE Return(c, "err", NoBlock)

(* StateAndHeaderByNumberOrHash, hash path: GetHeaderByHash, the canonical *)
(* check, then an ODR-backed state for the header.                         *)
LightStateAndHeaderByNumberOrHash(c) ==
  /\ Read(c) /\ kind = "light" /\ fn[c] = "State"
  /\ LET h == req[c].h IN
     \/ /\ pc[c] = "hash"
        /\ IF h \notin headers THEN Return(c, "err", NoBlock)
           ELSE IF req[c].rc THEN Goto(c, "canon", h)
           ELSE Return(c, "ok", h)
     \/ /\ pc[c] = "canon"
        /\ IF IsCanonical(h) THEN Return(c, "ok", h) ELSE Return(c, "err", NoBlock)

(* GetReceipts, GetLogs and GetTd by block hash: ReadHeaderNumber, nil    *)
(* with no error for an unknown hash; then the on-demand retrieval by hash *)
(* and that number, which may fail.                                        *)
LightReceipts(c) ==
  /\ Read(c) /\ kind = "light" /\ fn[c] = "Receipts"
  /\ \/ /\ pc[c] = "hash"
        /\ IF req[c].h \in headers THEN Goto(c, "body", req[c].h)
           ELSE Return(c, "ok", NoBlock)
     \/ /\ pc[c] = "body"
        /\ \E ok \in BOOLEAN : IF ok THEN Return(c, "ok", hdr[c]) ELSE Return(c, "err", NoBlock)

-----------------------------------------------------------------------------
(* The environment.  Every change of the chain is seen by the calls in    *)
(* progress.                                                               *)
SeeCanon(cn) ==
  seen' = [c \in Callers |-> IF pc[c] # "idle" THEN seen[c] \cup CanonPairs(cn)
                                                ELSE seen[c]]

(* The chain imports block b, as the new head (dropping the canonical      *)
(* blocks above it: a reorganisation) or as a side block.                  *)
Insert(b) ==
  /\ b \notin headers
  /\ 1 <= Number[b] /\ Number[b] <= Head + 1
  /\ headers' = headers \cup {b}
  /\ bodies' = bodies \cup {b}
  /\ \/ canon' = [n \in Nums |-> CASE n = Number[b] -> b
                                   [] n > Number[b] -> NoBlock
                                   [] OTHER -> canon[n]]
     \/ /\ Number[b] <= Head
        /\ UNCHANGED canon
  /\ SeeCanon(canon')
  /\ UNCHANGED <<kind, pending, callers>>

(* The miner's worker publishes its first pending snapshot.                *)
MinerCommit ==
  /\ kind = "full"
  /\ pending = NoBlock
  /\ pending' = PendingBlk
  /\ UNCHANGED <<kind, canon, headers, bodies, callers, seen>>

(* The backend's SetHead: downloader.Cancel(), then blockchain.SetHead(n), *)
(* which rewinds the canonical chain to n and deletes the blocks above.    *)
SetHead(n) ==
  /\ n < Head
  /\ LET rewound == {canon[m] : m \in n + 1 .. Head}
     IN /\ canon' = [m \in Nums |-> IF m > n THEN NoBlock ELSE canon[m]]
        /\ headers' = headers \ rewound
        /\ bodies' = bodies \ rewound
  /\ SeeCanon(canon')
  /\ UNCHANGED <<kind, pending, callers>>

-----------------------------------------------------------------------------
NoRequest == [by |-> "none", n |-> 0, h |-> NoBlock, rc |-> FALSE]

Init ==
  /\ kind \in Kinds
  /\ canon = [n \in Nums |-> IF n = 0 THEN Genesis ELSE NoBlock]
  /\ headers = {Genesis}
  /\ bodies = {Genesis}
  /\ pending = NoBlock
  /\ pc = [c \in Callers |-> "idle"]
  /\ fn = [c \in Callers |-> "Header"]
  /\ req = [c \in Callers |-> NoRequest]
  /\ hdr = [c \in Callers |-> NoBlock]
  /\ out = [c \in Callers |-> "none"]
  /\ val = [c \in Callers |-> NoBlock]
  /\ seen = [c \in Callers |-> {}]

Resolve(c) ==
  \/ FullHeaderByNumber(c) \/ FullBlockByNumber(c) \/ FullStateAndHeaderByNumber(c)
  \/ FullHeaderByNumberOrHash(c) \/ FullBlockByNumberOrHash(c)
  \/ FullStateAndHeaderByNumberOrHash(c)
  \/ LightHeaderByNumber(c) \/ LightBlockByNumber(c) \/ LightStateAndHeaderByNumber(c)
  \/ LightHeaderByNumberOrHash(c) \/ LightBlockByNumberOrHash(c)
  \/ LightStateAndHeaderByNumberOrHash(c)
  \/ FullReceipts(c) \/ LightReceipts(c)

Next ==
  \/ \E c \in Callers :
       \/ \E f \in Fns, r \in Requests :
            /\ f = "Receipts" => r.by = "hash" /\ ~r.rc
            /\ Call(c, f, r)
       \/ Resolve(c)
  \/ \E b \in Blocks : Insert(b)
  \/ MinerCommit
  \/ \E n \in Nums : SetHead(n)

Spec == Init /\ [][Next]_vars

-----------------------------------------------------------------------------
TypeOK ==
  /\ kind \in Kinds
  /\ canon \in [Nums -> Blocks \cup {NoBlock}]
  /\ headers \subseteq Blocks /\ bodies \subseteq Blocks
  /\ pending \in {NoBlock, PendingBlk}
  /\ pc \in [Callers -> Steps]
  /\ fn \in [Callers -> Fns]
  /\ req \in [Callers -> Requests]
  /\ hdr \in [Callers -> Blocks \cup {NoBlock}]
  /\ \A c \in Callers : pc[c] \in {"canon", "body", "state"} => hdr[c] \in Blocks
  /\ out \in [Callers -> {"none", "ok", "err", "panic"}]
  /\ val \in [Callers -> Blocks \cup {NoBlock, PendingBlk}]
  /\ seen \in [Callers -> SUBSET (Nums \X Blocks)]

(* A block or header a backend returns without error is the one asked for, *)
(* and one the chain really held there while the call ran: for a number,  *)
(* the canonical block at that number at some instant of the call; for a  *)
(* hash with RequireCanonical, that block while it was canonical; for the *)
(* latest block (and the light client's pending one, its current header), *)
(* a block that was canonical.  The calls read the chain in several steps *)
(* while SetHead and reorganisations run between them.                     *)
ResolvesRequest ==
  \A c \in Callers :
    (pc[c] = "idle" /\ out[c] = "ok" /\ val[c] \in Blocks) =>
      LET r == req[c] IN
      CASE r.by = "num" -> <<r.n, val[c]>> \in seen[c]
        [] r.by \in {"latest", "pending"} -> <<Number[val[c]], val[c]>> \in seen[c]
        [] r.by = "hash" -> val[c] = r.h /\ (r.rc => <<Number[r.h], r.h>> \in seen[c])
        [] OTHER -> FALSE

(* No RPC call dereferences a nil block: the pending block is asked of the *)
(* miner and its header taken (HeaderByNumber, StateAndHeaderByNumber).    *)
NoNilDereference == \A c \in Callers : out[c] # "panic"

=============================================================================
