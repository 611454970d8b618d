# TLA+ models of go-hayekchain (HayekNetwork mainnet)

This directory holds TLA+ models of the parts of `src/go-hayekchain` whose
behaviour depends on interleavings, failures or boundary values. Each part has
its TLC runs. TLAPS proves the following:

- the state-sync scheduler's invariants;
- that the scheduler refines an abstract sync;
- the light client's configuration invariant;
- that the RPC backends resolve requests correctly. `PROJECT.json`
lists these items by name:

- the components;
- the runs;
- the mutants, each a plausible bug that a property must catch;
- the map from each model definition to the source lines it translates;
- the findings;
- the hazards;
- the theorems.

## The system and its parts

The source tree in this repository is a slice of a go-ethereum derivative. It
has the following parts:

| Part | Source | What it does |
|---|---|---|
| State sync wiring | `core/state/sync.go` | `NewStateSync` builds a `trie.Sync` scheduler for a state root. Its leaf callback decodes each account. It then schedules the account's storage trie (`AddSubTrie`) and its code (`AddCodeEntry(BytesToHash(CodeHash))`). |
| Sync scheduler, skip filter, distributor, retrieve manager | not in the sources; described by `spec.md` | The scheduler keeps a set of missing hashes. Workers draw batches, send them to peers and commit verified results into a staging store. A Bloom-style skip filter avoids refetching content. Cancellation abandons the batches in flight. |
| Remote sealer API | `consensus/hykash/api.go` | RPC methods `GetWork`, `SubmitWork` and `SubmitHashRate`. Each method talks to the remote sealer's loop over channels, and the loop may be shutting down. |
| RPC backends | `hyk/api_backend.go` (full node), `les/api_backend.go` (light client) | They resolve a block number, `latest`, `pending` or a hash (optionally required canonical) to a header, block or state. Each does this through several chain reads. `SetHead` cancels the downloader and rewinds the chain. |
| Light client lifecycle | `les/client.go` | `New` opens the databases, sets up the genesis and chain configuration, builds the components and, after an incompatible configuration upgrade, rewinds the chain and then stores the new configuration. `Start` launches the bloom request handlers; `Stop` shuts the components down in a fixed order, closes the chain database and waits for the handlers. |
| ghyk configuration | `cmd/ghyk/config.go` | `makeConfigNode` layers defaults, the `--config` TOML file and the flags; `makeFullNode` registers the services; `dumpconfig` prints the configuration. |
| Light client integration test | `cmd/ghyk/les_test.go` | `TestPriorityClient` starts a light server and two clients as processes and checks, over RPC, that a client with a balance displaces a free one. |
| Hex helpers | `tests/decode.go` | `FromHex`, `Hex2Bytes`, `SetBytes`, `BytesToHash` and `HexToHash`, plus a `main` that prints a hash. |
| Other | `cmd/devp2p`, `cmd/hykkey`, `hyk/discovery.go`, `les/enr_entry.go`, `internal/hykapi/backend.go`, `hyk/downloader/metrics.go`, `tests/difficulty_test_util.go` | Command-line tools, ENR entries, an interface definition, metrics and test runners. |

The parts interact as follows:

- `SetHead` (RPC backend) cancels the downloader that runs the state sync.
- The light client's retrieve manager is what serves the sync's and the light backend's on-demand requests.
- The leaf decoder feeds new work back into the scheduler.
- The light client's `New` builds the light backend, and its bloom handlers serve the filters the backend starts; `Stop` closes the chain database both read.

## Modules

### `StateSync` (scheduler, skip filter, leaf decoder)

**State:**

- `status`: running, complete or aborted.
- `missing`: hashes waiting to be drawn.
- `batch[w]` and `wstate[w]`: each worker's batch in flight, and whether it is idle, sending, answered or abandoned.
- `staged`: the staging store, as `<<hash, content digest>>` pairs.
- `db`: the durable store.
- `bloom`: the skip filter.
- `pbloom`: its persisted checkpoint.
- `crashes` and `cancels`: bounded counters.

Content is abstracted to its digest: a node's children (`Refs`), an account leaf's decoded record (`Acct`) and whether it is code (`IsCode`).

**Actions:**

- `NextBatch`: draws up to `MaxBatch` missing hashes.
- `SendOk` and `SendFail`: a peer answers, or the request fails and the batch returns to `missing`.
- `Commit(w, h, d)`: the worker delivers content with digest `d` for hash `h`. A wrong digest or "not found" requeues `h`. A verified node is staged and marked in the filter. Its children and its leaf callback's sub-trie and code go through `AddSubTrie` and `AddCodeEntry`, which skip what the filter or the pending set already has. A leaf that fails to decode aborts the sync.
- `SetHead`: cancellation. Every in-flight hash returns to `missing`, and late answers are discarded (`Discard`).
- `Flush`: the staging store is written to the durable store and the checkpoint.
- `Complete`.
- `CrashRestart`: the staging store and filter are lost, unless the checkpoint is persisted.

Of these, the following are translated from `core/state/sync.go`:

- `Init`;
- `LeafCallback` and `LeafCallbackFails`;
- `BytesToHash` (an empty code hash becomes the zero hash, and the zero hash is a sentinel that `AddCodeEntry` skips).

`SetHead` is translated from `hyk/api_backend.go:58-61`. The rest is modelled from `spec.md`, because `trie.Sync` is not part of this repository.

### `StateSyncAbs` (what a sync promises)

`StateSyncAbs` is the abstract sync, with no scheduler, workers, filter or staging store.

- **State:** `status` and the durable `store`.
- **`Reachable`:** the least set of hashes that holds the root and is closed under `Succ`. It is defined without recursion, as the intersection of all closed sets.
- **`Write`:** the store gains verified entries of reachable nodes, and nothing else.
- **`Complete`:** allowed only once the store holds every reachable node.
- **`Abort`:** allowed only when a reachable account leaf does not decode.

`StateSync` instantiates `StateSyncAbs` as `Abs`:

- `db` is the abstract `store`.
- `Succ(h)` is a node's children, plus, for an account leaf, its storage root and code hash minus the sentinels.
- `Bad` is the set of malformed leaves.

`SyncRefines == Abs!Spec` says that every behaviour of the scheduler is a behaviour of the abstract sync. `StateSync.Reachable` is `Abs!Reachable`.

### `SealerAPI` (remote sealer RPC)

- **Per caller:** `pc` (idle, first select, waiting for the reply), `op`, `reply` and `ret`.
- **Sealer:** `sealer` (running, exiting, exited), `hasWork` and `rates`.
- **Calls:** `GetWork`, `SubmitWork` and `SubmitHashRate` are each one action with a send disjunct and a wait disjunct, as in the two selects of the code. `Stopped` is the `exitCh` case of the first select, and `Call` is the `remote == nil` check.
- **Environment:** the sealer loop is modelled by its channel contract: an accepted request is answered in the same iteration. Its shutdown is two steps, `RequestExit` (the loop returns) and `CloseExit` (the deferred `close(exitCh)`).

### `ChainBackend` (full and light RPC backends)

- **Chain state:** `canon` (number to canonical block), `headers` and `bodies` (stored blocks), and `pending` (the miner's pending block, nil until the worker's first snapshot).
- **Per caller:** `pc` (the next chain read), `fn`, `req` (the `BlockNumberOrHash`), `hdr`, and the outcome `out` and `val`.
- **History:** `seen[c]` holds every `<<number, block>>` pair that was canonical at some instant of `c`'s call.
- **Calls:** each backend function is one action, and its disjuncts are its chain reads in the code's order. `Kind` selects the full or the light backend.
- **Environment:** `Insert` imports a block, as the new head (a reorganisation) or as a side block. `MinerCommit` publishes the pending block. `SetHead` rewinds the chain and deletes the rewound blocks.
- **Light reads:** every on-demand (ODR) retrieval of the light client may fail.
- **By hash:** `GetReceipts`, `GetLogs` and `GetTd` have the same control and are one function, `Receipts`: one read on the full node; `ReadHeaderNumber` then a retrieval on the light client.
- **Backends:** the constant `Kinds` is the set of backends a run covers; `kind` is chosen in `Init` and never changes, so one run checks both.

### `LightClient` (light client lifecycle)

- **State:** `phase` (down, in `New`, `New` failed, built, running, stopping, stopped), `step` (`New`'s next step), `compat` (`SetupGenesisBlock` reported a `ConfigCompatError`), `open` (the components built and not yet stopped), `handlers` (each bloom handler off, idle in its select, busy serving, or exited), `spc` (`Stop`'s position in `StopOrder`), and the durable `cfg` (stored chain configuration) and `head` (beyond the fork where the configurations differ, or rewound).
- **New:** one action per step of `New`, in the code's order; each step that can fail goes to `failed`. `SetupGenesis` reports the compat error when an old configuration is stored and the head is past the fork, and otherwise writes the new configuration. `Rewind` is two durable writes, `SetHead` then `WriteChainConfig`.
- **Start / Stop:** `Start` launches the handlers. `Stop` closes `closeCh`, then each component of `StopOrder` (the chain database last), then waits until every handler has exited.
- **Handlers:** modelled by their select loop (`startBloomHandlers` is not in the sources): while idle a handler may take a request, also after `closeCh` is closed, because Go's select picks among ready cases at random.
- **Crash / Restart:** the process dies at any point of `New`, `Start` or `Stop`; only `cfg` and `head` survive, and the node runs `New` again.

### `GhykConfig` (configuration)

A configuration is one value per section (`Hyk`, its `Genesis`, `Node`, `Hykstats.URL`, the deprecated `Shh`). `LoadConfig`, `MakeConfigNode`, `MakeFullNode` and `DumpConfig` are operators; the single variable `in` ranges over every invocation: `--config` given or not, every file (each section present or not, an unknown key or not), every flag setting and `dumpconfig`'s output path. The flag handlers of `cmd/utils` are not in the sources and are modelled as overriding the sections their flags set. `MakeConfigNode` is written as `LoadFile` (the file over the defaults, or the load error) followed by `ApplyFlags` (one `Override` per section), the two steps of `makeConfigNode` in `config.go`. `DumpConfig` marshals each section with the TOML encoder, which skips an `omitempty` field set to its zero value; fields such as `TxLookupLimit`, `LightPeers`, `HTTPPort` and `HTTPVirtualHosts` have non-zero defaults, so zeroing one and dumping it loses the setting: reloaded, the field takes its default again. The values `hz` and `nz` stand for the `Hyk` and `Node` sections with such a field zeroed, and `OmitZero` is what the dump keeps of them.

### `LesTest` (TestPriorityClient)

The test goroutine is `pc`, one step per RPC or wait of the test and its helpers `startGhykWithIpc` and `addPeer`. The three ghyk processes are the environment: an IPC endpoint comes up some time after its process starts; `admin_addPeer` makes the server a static peer, dialled and redialled after a drop; a connection raises an `add` event at the client; the server, which serves one light peer, evicts the free client for the client with a balance (`Evict`). The server is correct by construction, so a failed peer check is a fault of the test, not of the server.

### `HexToHash` (hex helpers)

The functions of `tests/decode.go`, over strings from the alphabet `0 1 f x X g`. `g` is not a hex digit. The reference `RefHexToHash` reads the longest run of valid leading digits, cut to an even length, as a number modulo `256^HashLength`, written big-endian. It is defined independently of the code.

## Runs

| Run | Checks | Shows |
|---|---|---|
| `statesync_safety` | `UniquePending`, `SyncCorrect`, `Termination`, `SyncRefines` | No hash is pending twice (missing, in two batches, or pending while staged). A completed sync holds every node reachable from the root, including storage tries and code, and each one verified. Under the fairness below, the sync completes or aborts. Every step implements a step of `StateSyncAbs`, or leaves its state alone: a peer that answers with wrong bytes never gets them into `db` (`SyncRefines`). |
| `statesync_filter_falsepos` (violation) | `SyncCorrect` | A false positive of the skip filter makes `AddSubTrie`, as specified, drop a sub-trie. |
| `statesync_persisted_filter_crash` (violation) | `SyncCorrect` | A persisted filter checkpoint, plus a crash after a parent is flushed but before its children are, makes the restarted sync skip the children. |
| `sealer_api` | `CallsReturn` | Every API call returns, whatever point of the sealer's shutdown it meets: a call that passed its first select is answered, and one that did not sees `exitCh` closed. |
| `hex_to_hash` | `HexToHashIsNumeric` | `HexToHash` agrees with the numeric reference on all 55,987 strings of length at most 6. |
| `hex_main_literal` (violation) | `MainPrintsLiteral` | `main` hashes the ASCII bytes of its literal. |
| `backend` | `TypeOK`, `ResolvesRequest` | For both backends, a returned block, header, state or receipts is the one asked for, and it was canonical while the call ran, even though the chain is reorganised and rewound between the call's reads. |
| `backend_pending_nil` (violation) | `NoNilDereference` | A pending-block request before the miner's first snapshot dereferences nil. |
| `light_lifecycle` | `ConfigRewound`, `StopReturns` | With up to two crashes anywhere, the new chain configuration is never stored over a chain that was not rewound, and `New` never returns without it. `Stop`'s `wg.Wait()` returns. |
| `light_db_close_order` (violation) | `DbOutlivesReaders` | `Stop` closes the chain database while a bloom handler still serves a request from it. |
| `ghyk_config` | `FlagsOverFile`, `DumpRoundTrip` | Flags override the file and the file the defaults; ghyk restarted from `dumpconfig`'s output with the same flags builds the same node as from the original file without its genesis and without the zeroed `omitempty` fields the dump drops. |
| `les_priority_client` (violation) | `PeerChecksSound` | Against a correct server, `TestPriorityClient` still fails: its one-second sleep does not wait for the eviction of the free client. |

**Bounds.**

- **StateSync.** The instance has six hashes:
  - a root with two account leaves, `a1` and `a2`;
  - one storage trie of two nodes, shared by both accounts;
  - one code blob, used by `a2` only (`a1` has the empty code hash).

  This instance exercises all of the following:
  - children, leaf callbacks and the empty-code sentinel;
  - two discoveries of the same storage root;
  - a batch holding two hashes;
  - a crash and a cancellation that both hit in-flight work.

  A larger trie adds no new shape of interaction.

  `Reachable` quantifies over `SUBSET Hashes`, and TLC does not cache it through the instance. The three StateSync cfgs therefore replace it with the literal `MCReachable` (all six hashes). `ASSUME MCReachableAssumption` in `MCStateSync` checks on every run that `MCReachable` equals the definition.
- **SealerAPI.** Two callers, so that two calls can race the shutdown.
- **ChainBackend.**
  - The chain is three heights (genesis, `a1`, `a2`) plus a side block `x1` at height 1. This is enough for a reorganisation, for a `SetHead` below a block in use, and for a hash that is stored but not canonical.
  - There is one caller: calls do not interact with each other, only with the chain.
- **LightClient.** Two handlers, so that one can be busy while the other exits; two crashes, enough for a crash between the rewind and the configuration write followed by a crash in the next `New`. The stored configuration starts old and the head past the fork, the case that needs the rewind.
- **GhykConfig.** Every section has one file value and one flag value different from the default (two for the stats URL, whose empty value is special to `omitempty`): the `Hyk` and `Node` sections also have a value with an `omitempty` field zeroed (`hz`, `nz`) in the file and in the flags: 186,624 invocations, which cover every precedence and every omission.
- **LesTest.** Unbounded: the state space is finite (about 20 steps of the test, two connections).
- **HexToHash.** `HashLength = 2`, so strings of 6 characters overflow it and exercise the truncation in `SetBytes`.

**Fairness.**

- **Termination** assumes:
  - weak fairness on each worker's steps;
  - strong fairness on a successful answer (`SendOk`, and `Commit` of correct content), meaning peers that keep being asked eventually answer correctly. spec.md §7 makes transient failures "invisible to the caller", which this assumption encodes.
- **CallsReturn** assumes:
  - weak fairness of each RPC goroutine inside a call;
  - weak fairness of the sealer's deferred close of `exitCh`.

  Nothing forces the sealer to be scheduled otherwise.
- **StopReturns** assumes weak fairness of `Stop` and of a busy handler's serving, and strong fairness of each handler's exit: while `closeCh` is closed and requests keep arriving, the exit case is enabled each time the handler is back in its select, and Go's select chooses uniformly among ready cases.
- **Deadlock checking.** It is off for `sealer_api`, where a caller stuck forever violates `CallsReturn`. It is also off for the StateSync runs, where a finished sync stops by design.

## Proofs (`StateSyncProofs`)

The following theorems are proved by TLAPS for every instance that satisfies the module's `ASSUME`s:

- `TypeCorrect`: `Spec => []TypeOK`.
- `UniquePendingHolds`: `Spec => []UniquePending`.
- `SyncCorrectHolds`: `ExactFilter => (Spec => []SyncCorrect)`.
- `SyncRefinement`: `ExactFilter => (Spec => SyncRefines)`.

`UniquePending` is not inductive on its own. A commit adds the node to `staged`, and the hashes it discovers must avoid everything pending. That is only guaranteed if every staged hash is also in the filter, because `AddSubTrie` skips what the filter has. The inductive invariant is therefore

    IInv == TypeOK /\ UniquePending /\ StagedInFilter

and `LEMMA DiscoveredFresh` states that `Discovered(d)` is disjoint from the pending set and from the filter. `NextIInv` has one step per action. `Commit` is split on whether the digest matches. `UniquePending'` is split into its three conjuncts.

`SyncCorrectHolds` and `SyncRefinement` hold under the hypothesis `ExactFilter`: no false positives (`FalsePos = {}`) and no persisted filter checkpoint. The two violation runs show that `SyncCorrect` fails without it. A sync that completes without a reachable node is no `Abs!Complete` step either. Their strengthening is

    CInv == RInv /\ IdleEmpty /\ FilterStored /\ FilterClosed /\ RootCovered /\ SyncCorrect
    RInv == IInv /\ StoreVerified /\ PendingReachable

- `StoreVerified`: everything staged or stored is a verified entry of a reachable node.
- `PendingReachable`: every pending hash is reachable.
- `FilterStored`: every hash in the filter has a verified entry in the staging or durable store.
- `FilterClosed`: the successors of a filtered node are filtered or pending.
- `RootCovered`: the root is filtered or pending.
- `IdleEmpty`: an idle worker holds no batch.

The argument runs as follows:

- `Reachable` is the least closed set, so `ReachableClosed` and `ReachableLeast` need no induction.
- At `Complete`, nothing is pending. By `FilterClosed` and `RootCovered`, the filter is then a closed set, so it contains `Reachable`. By `FilterStored`, every reachable node is therefore stored.

The refinement proof maps each step as follows:

- `Flush` is `Abs!Write`.
- `Complete` is `Abs!Complete`.
- A `Commit` that aborts is `Abs!Abort`.
- Every other step is a stutter of `<<status, db>>`.

## Proofs (`ChainBackendProofs`)

- `BackendTypeCorrect`: `Spec => []TypeOK`.
- `ResolvesRequestHolds`: `Spec => []ResolvesRequest`.

Both hold for every chain, block numbering, height and set of concurrent callers, and for both backends. The inductive invariant is

    BInv == TypeOK /\ CanonNumbered /\ Contiguous /\ HeadExists
            /\ SeenCurrent /\ PcMatchesReq /\ HdrSeen /\ ResolvesRequest

It is needed for these reasons:

- A call that returns the canonical block at `n` has that pair in `seen` only because every chain change is added to the `seen` of every call in progress (`SeenCurrent`).
- `latest` needs the head to exist and to be numbered (`CanonNumbered`, `HeadExists`). `SetHead` keeps a head only because the chain has no gaps (`Contiguous`).
- A call that returns at a later read what it resolved earlier needs the header it holds to have been resolved as asked (`HdrSeen`).
- The hash and receipt paths are taken only for hashes (`PcMatchesReq`).

The proof has one lemma per backend function. Each is split on the step (`pc`) and then on the branch of the code. They rest on `ReturnStep` and `GotoStep`: a return or a move to the next read keeps `BInv`.

Writing this proof turned up a problem in the model. The hash paths were first written as `CASE h \notin headers -> ... [] req.rc -> ...`, whose arms overlap. TLC takes the first true arm, but TLA+ leaves the choice between overlapping arms open. They are now `IF`/`ELSE IF` chains, in the code's order.

## Proofs (`LightClientProofs`)

- `LightTypeCorrect`: `Spec => []TypeOK`.
- `ConfigRewoundHolds`: `Spec => []ConfigRewound`, for every handler set, stored configuration and crash bound.

`ConfigRewound` is not inductive: at `NewHandler` the new configuration must already be stored, which depends on what the genesis and rewind steps did in this run of `New`. The strengthening `NewConfigWritten` says that inside `New`, past the genesis step and without a compat error, the new configuration is stored, and that at the last step it is stored in any case. A crash or a restart resets `phase`, so neither conjunct survives into the next `New`. The proof has one step per action; `Stop` is split into its three disjuncts. The type invariant also needs `ExitReady` (once `Stop` is past its first step, `closeCh` is no longer open), which rests on one fact about `StopOrder`: `closeCh` is its first element.

## Proofs (`SealerAPIProofs`)

- `SealerTypeCorrect`: `Spec => []TypeOK`.

`TypeOK` is not inductive on its own: a goroutine waiting after its first select must find a reply its own receive takes, or its receive would assign a value outside the type. The inductive invariant is `TypeOK /\ ReplyReady`, where `ReplyReady` says exactly that (`Receives[op]`). `HandlersAnswer` states that the loop's answers to a fetch and to a submission are among what `GetWork` and `SubmitWork` receive, whatever the loop's state. The proof has one lemma per action, and each call's lemma is split into its send and its wait disjunct.

## Proofs (`GhykConfigProofs`)

- `FlagsOverFileHolds`: `Spec => []FlagsOverFile`.
- `DumpRoundTripHolds`: `Spec => []DumpRoundTrip`.

The module has no constants, so these theorems confirm by deduction what the `ghyk_config` run enumerates. `MakeConfigNodeLayered` is the lemma both rest on: when the file loads, `MakeConfigNode` is, section by section, the flag over the file value over the default (`Layered`). The round trip then compares two `Layered` functions section by section. The dumped file holds every section of the node's configuration, except that the original file's genesis is dropped and a zeroed `omitempty` field is not written, so it reloads as its default: the right-hand side is `Kept(in)`, the original file without those. The `Hyk` and `Node` cases are split in the proof, one for a zeroed value and one for any other.

Writing these proofs changed the model twice, without changing what it computes:
- `FlagsOverFile` was a `CASE` with overlapping arms, and is now an `IF`/`ELSE IF` chain.
- `MakeConfigNode` applied `EXCEPT` to an `IF` expression, which the SMT backend cannot read. It is now split into the `LoadFile` and `ApplyFlags` operators.

## Proofs (`HexToHashProofs`)

- `SetBytesCropsLeft`: for every `HashLength` and every byte string `b`, `SetBytes(b)` has `HashLength` bytes. Its byte `i` is `0` when `i <= HashLength - Len(b)` and `b[Len(b) - HashLength + i]` otherwise. So a long string is cropped from the left and a short one is zero-padded on the left. The lemmas `KeptLong` and `KeptShort` give the two cases of the kept bytes.
- `PaddedEven`: for every string, `PadOdd(StripPrefix(s))` has even length and is no shorter than the stripped string.

`HexToHashIsNumeric` relates the bytes to the number the digits spell. That is a statement about every digit string, proved by induction over the string, and it stays with TLC (see below).

## Findings

Each violation run shows one:

- **Skip-filter false positive** (`core/state/sync.go:36`): `AddSubTrie` drops a sub-trie when the filter answers "maybe", so a completed sync can miss storage (`statesync_filter_falsepos`).
- **Persisted filter after a crash** (`core/state/sync.go:40`): a parent flushed before its children, plus a reloaded filter, makes the restarted sync skip the children (`statesync_persisted_filter_crash`).
- **`main` of `tests/decode.go:47`** hashes the ASCII bytes of its hex literal (`hex_main_literal`).
- **Pending block before the first snapshot** (`hyk/api_backend.go:67`): `block.Header()` on a nil block (`backend_pending_nil`).
- **Database closed under a reader** (`les/client.go:316`): `Stop` closes `chainDb` before `wg.Wait()`, while a bloom handler may still serve a request (`light_db_close_order`).
- **Sleep as synchronisation** (`cmd/ghyk/les_test.go:208`): the server's peers are checked one second after the prioritised client connects, whether or not the eviction has happened (`les_priority_client`).

## Only model-checked

- **Out of TLAPS's reach:**
  - `Termination` and `CallsReturn` (liveness);
  - `SyncCorrect` with a false-positive or persisted filter (the invariant is then false, as the violation runs show);
  - the liveness half of the refinement: `StateSyncAbs` has no fairness, because TLC cannot evaluate `ENABLED` of the abstract actions under the `store <- db` substitution. `Termination` is checked on its own instead;
  - `StopReturns` (liveness). `ExitReady`, which makes each handler's exit case ready, is a conjunct of the proved inductive invariant, and `ReplyReady`, which makes a waiting receive succeed, of the sealer's;
  - `HexToHashIsNumeric`. It says what `HexToHash` computes as a number for every digit string. That needs induction over the string, and the library's induction theorems take an operator parameter that the installed provers cannot instantiate. The per-byte layout of `SetBytes` and the even-length padding are proved instead.

## Not modelled

- The RPC pass-through methods.
- The CLI tools other than ghyk's configuration (`cmd/devp2p`, `cmd/hykkey`).
- The rlpx command.
- Metrics, and the tests other than `TestPriorityClient` and `tests/decode.go` (see `PROJECT.json` components).
- The ENR updater (`hyk/discovery.go`): its behaviour rests on which chain events `core.BlockChain` sends, which is not in the sources.
- The light client's value-tracker subscription (`vtSubscription`) and its API list.
- `waitSynced` in `les_test.go`, which no test calls; `callRPC` and `getNodeInfo` are taken to succeed.

## Plan

1. Model the value tracker's peer registration against `Stop`'s order (`valueTracker.Stop` before `peers.close`).
2. Model the ENR updater (`hyk/discovery.go`) against chain head events and `SetHead`.
3. Model the Retrieve Manager and Distributor from spec.md §4.4-4.5 (peers, one request per peer, deadlines, retries). Show that they refine the `SendOk`/`SendFail` abstraction of `StateSync`.
