------------------------- MODULE LightClientProofs -------------------------
(***************************************************************************)
(* Proofs about the light client's lifecycle for every set of bloom       *)
(* handlers, stored configuration and crash bound: the type invariant, and *)
(* that no crash during New leaves the new chain configuration stored over *)
(* a chain that was not rewound, nor lets New return without it.           *)
(***************************************************************************)
EXTENDS LightClient, TLAPS

(* The steps of New after SetupGenesisBlock has succeeded.                 *)
AfterGenesis == {"construct", "discovery", "retrieval", "lightchain", "indexers",
                 "rewind", "handler"}

(* ConfigRewound is not inductive alone: inside New the configuration the *)
(* genesis step chose must still be the one New acts on.  Without a       *)
(* ConfigCompatError the new configuration was written by the genesis     *)
(* step; once the rewind step is done it has been written either way.     *)
NewConfigWritten ==
  /\ (phase = "new" /\ step \in AfterGenesis /\ ~compat) => cfg = "new"
  /\ (phase = "new" /\ step = "handler") => cfg = "new"

(* Once Stop has taken its first step, closeCh is closed until the        *)
(* process dies or New runs again; kept in the invariant for the Stop      *)
(* steps' type facts.                                                      *)
ExitReady == (phase \in {"stopping", "stopped"} /\ spc > 1) => "closeCh" \notin open

IInv == TypeOK /\ ConfigRewound /\ NewConfigWritten /\ ExitReady

LEMMA StopOrderLen ==
  /\ Len(StopOrder) = 16 /\ \A i \in 1 .. 16 : StopOrder[i] \in Components
  /\ StopOrder[1] = "closeCh"
  BY DEF StopOrder, Components

LEMMA InitIInv == Init => IInv
<1> SUFFICES ASSUME Init PROVE IInv
  OBVIOUS
<1>1. TypeOK
  <2>1. spc \in 1 .. Len(StopOrder) + 1
    BY StopOrderLen DEF Init
  <2>2. handlers \in [Handlers -> {"off", "idle", "busy", "exited"}]
    BY DEF Init
  <2>3. crashes \in 0 .. MaxCrashes
    BY LightClientAssumption DEF Init
  <2>4. phase \in Phases /\ step \in NewSteps /\ compat \in BOOLEAN /\ open \subseteq Components
    BY DEF Init, Phases, NewSteps
  <2>5. cfg \in {"old", "new"} /\ head \in {"beyond", "rewound"}
    BY LightClientAssumption DEF Init
  <2>. QED
    BY <2>1, <2>2, <2>3, <2>4, <2>5 DEF TypeOK
<1>2. ConfigRewound
  BY DEF Init, ConfigRewound
<1>3. NewConfigWritten
  BY DEF Init, NewConfigWritten, AfterGenesis
<1>4. ExitReady
  BY DEF Init, ExitReady
<1>. QED
  BY <1>1, <1>2, <1>3, <1>4 DEF IInv

LEMMA NextIInv == IInv /\ [Next]_vars => IInv'
<1> SUFFICES ASSUME IInv, [Next]_vars PROVE IInv'
  OBVIOUS
<1> USE DEF IInv
<1>1. CASE OpenChainDb
  BY <1>1 DEF OpenChainDb, Advance, Fail, TypeOK, Phases, NewSteps, Components,
     ConfigRewound, NewConfigWritten, ExitReady, AfterGenesis
<1>2. CASE OpenLespayDb
  BY <1>2 DEF OpenLespayDb, Advance, Fail, TypeOK, Phases, NewSteps, Components,
     ConfigRewound, NewConfigWritten, ExitReady, AfterGenesis
<1>3. CASE SetupGenesis
  BY <1>3 DEF SetupGenesis, Advance, Fail, TypeOK, Phases, NewSteps, ConfigRewound,
     NewConfigWritten, ExitReady, AfterGenesis
<1>4. CASE Construct
  BY <1>4 DEF Construct, Advance, TypeOK, Phases, NewSteps, Components, ConfigRewound,
     NewConfigWritten, ExitReady, AfterGenesis
<1>5. CASE SetupDiscovery
  BY <1>5 DEF SetupDiscovery, Advance, Fail, TypeOK, Phases, NewSteps, ConfigRewound,
     NewConfigWritten, ExitReady, AfterGenesis
<1>6. CASE SetupRetrieval
  BY <1>6 DEF SetupRetrieval, Advance, TypeOK, Phases, NewSteps, Components, ConfigRewound,
     NewConfigWritten, ExitReady, AfterGenesis
<1>7. CASE NewLightChain
  BY <1>7 DEF NewLightChain, Advance, Fail, TypeOK, Phases, NewSteps, Components,
     ConfigRewound, NewConfigWritten, ExitReady, AfterGenesis
<1>8. CASE StartIndexers
  BY <1>8 DEF StartIndexers, Advance, TypeOK, Phases, NewSteps, Components, ConfigRewound,
     NewConfigWritten, ExitReady, AfterGenesis
<1>9. CASE Rewind
  BY <1>9 DEF Rewind, TypeOK, Phases, NewSteps, ConfigRewound, NewConfigWritten, ExitReady, AfterGenesis
<1>10. CASE NewHandler
  BY <1>10 DEF NewHandler, TypeOK, Phases, NewSteps, Components, ConfigRewound,
     NewConfigWritten, ExitReady, AfterGenesis
<1>11. CASE Start
  BY <1>11 DEF Start, TypeOK, Phases, ConfigRewound, NewConfigWritten, ExitReady
<1>12. CASE Stop
  <2>1. CASE phase = "running" /\ phase' = "stopping"
    BY <1>12, <2>1, StopOrderLen DEF Stop, TypeOK, Phases, ConfigRewound, NewConfigWritten, ExitReady
  <2>2. CASE phase = "stopping" /\ spc <= Len(StopOrder)
             /\ open' = open \ {StopOrder[spc]} /\ spc' = spc + 1
             /\ UNCHANGED <<phase, handlers, step, compat, cfg, head, crashes>>
    BY <2>2, StopOrderLen DEF TypeOK, Phases, ConfigRewound, NewConfigWritten, ExitReady
  <2>3. CASE phase = "stopping" /\ phase' = "stopped"
             /\ UNCHANGED <<open, handlers, spc, step, compat, cfg, head, crashes>>
    BY <2>3 DEF TypeOK, Phases, ConfigRewound, NewConfigWritten, ExitReady
  <2>. QED
    BY <1>12, <2>1, <2>2, <2>3 DEF Stop
<1>13. CASE Crash
  BY <1>13, LightClientAssumption DEF Crash, TypeOK, Phases, ConfigRewound, NewConfigWritten, ExitReady
<1>14. CASE Restart
  <2>1. spc' \in 1 .. Len(StopOrder) + 1
    BY <1>14, StopOrderLen DEF Restart
  <2>2. TypeOK'
    BY <1>14, <2>1 DEF Restart, TypeOK, Phases, NewSteps
  <2>3. ConfigRewound' /\ NewConfigWritten' /\ ExitReady'
    BY <1>14 DEF Restart, ConfigRewound, NewConfigWritten, ExitReady, AfterGenesis
  <2>. QED
    BY <2>2, <2>3
<1>15. ASSUME NEW h \in Handlers, HandlerTake(h) \/ HandlerServe(h) \/ HandlerExit(h)
       PROVE IInv'
  BY <1>15 DEF HandlerTake, HandlerServe, HandlerExit, TypeOK, ConfigRewound,
     NewConfigWritten, ExitReady
<1>16. CASE UNCHANGED vars
  BY <1>16 DEF vars, TypeOK, ConfigRewound, NewConfigWritten, ExitReady
<1>. QED
  BY <1>1, <1>2, <1>3, <1>4, <1>5, <1>6, <1>7, <1>8, <1>9, <1>10, <1>11, <1>12,
     <1>13, <1>14, <1>15, <1>16 DEF Next, NewStep

(* The type invariant holds in every reachable state.                      *)
THEOREM LightTypeCorrect == Spec => []TypeOK
<1>1. IInv => TypeOK
  BY DEF IInv
<1>. QED
  BY InitIInv, NextIInv, <1>1, PTL DEF Spec

(* SetHead(compat.RewindTo) comes before WriteChainConfig in New: whatever *)
(* crash interrupts New, the new configuration is never stored over the   *)
(* unrewound chain, and New never returns without having stored it.       *)
THEOREM ConfigRewoundHolds == Spec => []ConfigRewound
<1>1. IInv => ConfigRewound
  BY DEF IInv
<1>. QED
  BY InitIInv, NextIInv, <1>1, PTL DEF Spec

=============================================================================
