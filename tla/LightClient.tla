----------------------------- MODULE LightClient -----------------------------
(***************************************************************************)
(* The light client's lifecycle (les/client.go): New, which opens the      *)
(* databases, sets up the genesis and chain configuration, builds the      *)
(* components and, when the stored chain configuration is incompatible    *)
(* with the new one, rewinds the chain before writing the new              *)
(* configuration; Start; and Stop, which shuts the components down in a    *)
(* fixed order and then waits for the bloom request handlers.  The process *)
(* may crash at any point: the chain database (its head and its stored     *)
(* configuration) survives, everything else is lost.                       *)
(*                                                                         *)
(* The called components are the environment.  core.SetupGenesisBlock     *)
(* reports a ConfigCompatError when the stored configuration differs from *)
(* the new one at a fork the head has passed, and otherwise writes the     *)
(* new configuration; the bloom handlers (startBloomHandlers) loop on a    *)
(* select of closeCh and bloomRequests and read the chain database while  *)
(* serving a request.                                                      *)
(***************************************************************************)
EXTENDS Naturals, Sequences

CONSTANTS
  Handlers,    \* the bloomServiceThreads bloom request handlers
  InitCfg,     \* the chain configuration stored before this release: "old" or "new"
  MaxCrashes   \* crashes in a behaviour

ASSUME LightClientAssumption ==
  /\ Handlers # {}
  /\ InitCfg \in {"old", "new"}
  /\ MaxCrashes \in Nat

(* Mutant of StopOrder: Stop never closes closeCh.                          *)
StopOrderNoClose == <<"serverPool", "valueTracker", "peers", "reqDist", "odr",
               "relay", "bloomIndexer", "chtIndexer", "blockchain", "handler",
               "txPool", "engine", "pruner", "eventMux", "chainDb">>

(* Components in the order Stop shuts them down; "chainDb" is closed last, *)
(* before s.wg.Wait().                                                      *)
StopOrder == <<"closeCh", "serverPool", "valueTracker", "peers", "reqDist", "odr",
               "relay", "bloomIndexer", "chtIndexer", "blockchain", "handler",
               "txPool", "engine", "pruner", "eventMux", "chainDb">>
Components == {"closeCh", "serverPool", "valueTracker", "peers", "reqDist", "odr", "relay",
               "bloomIndexer", "chtIndexer", "bloomTrieIndexer", "blockchain", "handler",
               "txPool", "engine", "pruner", "eventMux", "chainDb", "lespayDb"}
Phases == {"down", "new", "failed", "built", "running", "stopping", "stopped"}
NewSteps == {"chainDb", "lespayDb", "genesis", "construct", "discovery", "retrieval",
             "lightchain", "indexers", "rewind", "handler"}

VARIABLES
  phase,     \* the process: down, in New, New failed, built, running, in Stop, stopped
  step,      \* the next step of New
  compat,    \* New's genesisErr is a ConfigCompatError
  open,      \* the components that exist and have not been stopped
  handlers,  \* handlers[h]: "off", "idle" (in the select), "busy" (serving), "exited"
  spc,       \* the index in StopOrder of Stop's next step
  cfg,       \* durable: the chain configuration stored in the chain database
  head,      \* durable: "beyond" the fork where the configurations differ, or "rewound"
  crashes

vars == <<phase, step, compat, open, handlers, spc, cfg, head, crashes>>
volatile == <<step, compat, open, handlers, spc>>

-----------------------------------------------------------------------------
(* The steps of New.  Each one that can fail returns nil and the error,    *)
(* leaving whatever it had already opened.                                 *)
Advance(next, opened) ==
  /\ step' = next
  /\ open' = open \cup opened

Fail == phase' = "failed" /\ UNCHANGED <<step, open>>

(* stack.OpenDatabase("lightchaindata", ...).                              *)
OpenChainDb ==
  /\ phase = "new" /\ step = "chainDb"
  /\ \/ Advance("lespayDb", {"chainDb"}) /\ UNCHANGED phase
     \/ Fail
  /\ UNCHANGED <<compat, handlers, spc, cfg, head, crashes>>

(* stack.OpenDatabase("lespay", ...).                                      *)
OpenLespayDb ==
  /\ phase = "new" /\ step = "lespayDb"
  /\ \/ Advance("genesis", {"lespayDb"}) /\ UNCHANGED phase
     \/ Fail
  /\ UNCHANGED <<compat, handlers, spc, cfg, head, crashes>>

(* core.SetupGenesisBlock: a stored configuration incompatible at the head *)
(* is reported as a ConfigCompatError and New goes on; a compatible one is *)
(* replaced by the new configuration; any other error is returned.         *)
SetupGenesis ==
  /\ phase = "new" /\ step = "genesis"
  /\ \/ /\ cfg = "old" /\ head = "beyond"
        /\ compat' = TRUE
        /\ Advance("construct", {}) /\ UNCHANGED <<phase, cfg>>
     \/ /\ ~(cfg = "old" /\ head = "beyond")
        /\ cfg' = "new"
        /\ compat' = FALSE
        /\ Advance("construct", {}) /\ UNCHANGED phase
     \/ Fail /\ UNCHANGED <<compat, cfg>>
  /\ UNCHANGED <<handlers, spc, head, crashes>>

(* The LightHayekChain literal: peer set, request distributor, engine,     *)
(* bloom indexer and value tracker; the value tracker subscribes to peers. *)
Construct ==
  /\ phase = "new" /\ step = "construct"
  /\ Advance("discovery", {"closeCh", "peers", "reqDist", "engine", "eventMux",
                           "bloomIndexer", "valueTracker"})
  /\ UNCHANGED <<phase, compat, handlers, spc, cfg, head, crashes>>

(* setupDiscovery: a DNS discovery iterator, which may fail.               *)
SetupDiscovery ==
  /\ phase = "new" /\ step = "discovery"
  /\ \/ Advance("retrieval", {}) /\ UNCHANGED phase
     \/ Fail
  /\ UNCHANGED <<compat, handlers, spc, cfg, head, crashes>>

(* Server pool, retriever, relay, ODR and the CHT and bloom trie indexers. *)
SetupRetrieval ==
  /\ phase = "new" /\ step = "retrieval"
  /\ Advance("lightchain", {"serverPool", "relay", "odr", "chtIndexer", "bloomTrieIndexer"})
  /\ UNCHANGED <<phase, compat, handlers, spc, cfg, head, crashes>>

(* light.NewLightChain with the trusted checkpoint, then the tx pool.      *)
NewLightChain ==
  /\ phase = "new" /\ step = "lightchain"
  /\ \/ Advance("indexers", {"blockchain", "txPool"}) /\ UNCHANGED phase
     \/ Fail
  /\ UNCHANGED <<compat, handlers, spc, cfg, head, crashes>>

(* The checkpoint oracle, the indexers started on the chain, the pruner.   *)
StartIndexers ==
  /\ phase = "new" /\ step = "indexers"
  /\ Advance("rewind", {"pruner"})
  /\ UNCHANGED <<phase, compat, handlers, spc, cfg, head, crashes>>

(* Mutant of Rewind: the new configuration is written before the rewind,  *)
(* in two steps a crash can separate.                                     *)
RewindWriteFirst ==
  /\ phase = "new" /\ step = "rewind"
  /\ IF compat /\ cfg = "old"
     THEN /\ cfg' = "new"
          /\ UNCHANGED <<step, head>>
     ELSE /\ head' = IF compat THEN "rewound" ELSE head
          /\ step' = "handler"
          /\ UNCHANGED cfg
  /\ UNCHANGED <<phase, compat, open, handlers, spc, crashes>>

(* On a ConfigCompatError: blockchain.SetHead(compat.RewindTo), then       *)
(* rawdb.WriteChainConfig, each a durable write a crash can separate.      *)
Rewind ==
  /\ phase = "new" /\ step = "rewind"
  /\ IF compat /\ head = "beyond"
     THEN /\ head' = "rewound"
          /\ UNCHANGED <<step, cfg>>
     ELSE /\ cfg' = IF compat THEN "new" ELSE cfg
          /\ step' = "handler"
          /\ UNCHANGED head
  /\ UNCHANGED <<phase, compat, open, handlers, spc, crashes>>

(* The API backend, gas price oracle, client handler and net API; the     *)
(* APIs, protocols and lifecycle are registered and New returns.           *)
NewHandler ==
  /\ phase = "new" /\ step = "handler"
  /\ open' = open \cup {"handler"}
  /\ phase' = "built"
  /\ UNCHANGED <<step, compat, handlers, spc, cfg, head, crashes>>

-----------------------------------------------------------------------------
(* Start: the server pool, bloomServiceThreads bloom handlers, the client  *)
(* handler.                                                                *)
Start ==
  /\ phase = "built"
  /\ phase' = "running"
  /\ handlers' = [h \in Handlers |-> "idle"]
  /\ UNCHANGED <<step, compat, open, spc, cfg, head, crashes>>

(* A bloom handler's select: a request, while there are any (also after   *)
(* closeCh is closed, as select picks among ready cases at random); the   *)
(* request is served from the chain database; or closeCh, and it exits.   *)
HandlerTake(h) ==
  /\ handlers[h] = "idle"
  /\ handlers' = [handlers EXCEPT ![h] = "busy"]
  /\ UNCHANGED <<phase, step, compat, open, spc, cfg, head, crashes>>

HandlerServe(h) ==
  /\ handlers[h] = "busy"
  /\ handlers' = [handlers EXCEPT ![h] = "idle"]
  /\ UNCHANGED <<phase, step, compat, open, spc, cfg, head, crashes>>

HandlerExit(h) ==
  /\ handlers[h] = "idle"
  /\ "closeCh" \notin open
  /\ handlers' = [handlers EXCEPT ![h] = "exited"]
  /\ UNCHANGED <<phase, step, compat, open, spc, cfg, head, crashes>>

(* Stop: close(closeCh), then each component in StopOrder, chainDb last;   *)
(* then s.wg.Wait() for the bloom handlers.                                *)
Stop ==
  \/ /\ phase = "running"
     /\ phase' = "stopping"
     /\ spc' = 1
     /\ UNCHANGED <<open, handlers>>
  \/ /\ phase = "stopping"
     /\ spc <= Len(StopOrder)
     /\ open' = open \ {StopOrder[spc]}
     /\ spc' = spc + 1
     /\ UNCHANGED <<phase, handlers>>
  \/ /\ phase = "stopping"
     /\ spc > Len(StopOrder)
     /\ \A h \in Handlers : handlers[h] \in {"off", "exited"}
     /\ phase' = "stopped"
     /\ UNCHANGED <<open, handlers, spc>>
  /\ UNCHANGED <<step, compat, cfg, head, crashes>>

(* The process dies; the chain database keeps its head and configuration. *)
Crash ==
  /\ phase \in {"new", "built", "running", "stopping"}
  /\ crashes < MaxCrashes
  /\ crashes' = crashes + 1
  /\ phase' = "down"
  /\ open' = {}
  /\ handlers' = [h \in Handlers |-> "off"]
  /\ UNCHANGED <<step, compat, spc, cfg, head>>

(* The node is started again and calls New.                               *)
Restart ==
  /\ phase \in {"down", "failed", "stopped"}
  /\ phase' = "new"
  /\ step' = "chainDb"
  /\ compat' = FALSE
  /\ open' = {}
  /\ handlers' = [h \in Handlers |-> "off"]
  /\ spc' = 1
  /\ UNCHANGED <<cfg, head, crashes>>

Init ==
  /\ phase = "new"
  /\ step = "chainDb"
  /\ compat = FALSE
  /\ open = {}
  /\ handlers = [h \in Handlers |-> "off"]
  /\ spc = 1
  /\ cfg = InitCfg
  /\ head = "beyond"
  /\ crashes = 0

NewStep ==
  \/ OpenChainDb \/ OpenLespayDb \/ SetupGenesis \/ Construct \/ SetupDiscovery
  \/ SetupRetrieval \/ NewLightChain \/ StartIndexers \/ Rewind \/ NewHandler

Next ==
  \/ NewStep \/ Start \/ Stop \/ Crash \/ Restart
  \/ \E h \in Handlers : HandlerTake(h) \/ HandlerServe(h) \/ HandlerExit(h)

(* The bloom handlers run while scheduled and Go's select picks closeCh   *)
(* with positive probability each time both cases are ready.               *)
Fairness ==
  /\ WF_vars(Stop)
  /\ \A h \in Handlers : WF_vars(HandlerServe(h)) /\ SF_vars(HandlerExit(h))

Spec == Init /\ [][Next]_vars
LiveSpec == Spec /\ Fairness

-----------------------------------------------------------------------------
TypeOK ==
  /\ phase \in Phases
  /\ step \in NewSteps
  /\ compat \in BOOLEAN
  /\ open \subseteq Components
  /\ handlers \in [Handlers -> {"off", "idle", "busy", "exited"}]
  /\ spc \in 1 .. Len(StopOrder) + 1
  /\ cfg \in {"old", "new"} /\ head \in {"beyond", "rewound"}
  /\ crashes \in 0 .. MaxCrashes

(* A light client that New has returned never runs with the new chain     *)
(* configuration on a chain that was not rewound below the fork where the *)
(* old and new configurations differ, whatever crash interrupts New's     *)
(* rewind and configuration write; and the durable state never records    *)
(* the new configuration over an unrewound chain that had the old one.     *)
ConfigRewound ==
  /\ (InitCfg = "old" /\ cfg = "new") => head = "rewound"
  /\ phase \in {"built", "running"} => cfg = "new"

(* The chain database is closed only after every bloom handler, which     *)
(* reads it while serving a request, has stopped serving.                  *)
DbOutlivesReaders ==
  "chainDb" \notin open /\ phase = "stopping" => \A h \in Handlers : handlers[h] # "busy"

(* Stop returns unless the process dies first: every bloom handler leaves  *)
(* its select once closeCh is closed, so s.wg.Wait() is not stuck.        *)
StopReturns == (phase = "stopping") ~> (phase \in {"stopped", "down"})

=============================================================================
