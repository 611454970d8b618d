----------------------------- MODULE SealerAPI -----------------------------
(***************************************************************************)
(* The hykash RPC API (consensus/hykash/api.go): GetWork, SubmitWork and   *)
(* SubmitHashRate, called by concurrent RPC goroutines, each a rendezvous  *)
(* on an unbuffered channel with the remote sealer's loop followed by a    *)
(* wait on a reply channel of capacity one.  The loop and its shutdown     *)
(* (remoteSealer.loop, requestExit, then close(exitCh) in a deferred       *)
(* function) are the environment: their code is not in this repository's  *)
(* sources, and they are modelled by the channel contract the API relies   *)
(* on: a request received is answered in the same loop iteration.         *)
(***************************************************************************)
EXTENDS Naturals

CONSTANTS
  Callers,   \* RPC goroutines calling the API
  Remote     \* api.hykash.remote != nil

ASSUME CallersAssumption == Callers # {} /\ Remote \in BOOLEAN

Ops == {"GetWork", "SubmitWork", "SubmitHashRate"}

VARIABLES
  pc,       \* pc[c]: "idle", "send" (first select) or "wait" (reply)
  op,       \* op[c]: the API function c is in
  reply,    \* reply[c]: what the loop put in c's reply channel, or "none"
  ret,      \* ret[c]: what c's last call returned: "ok", "fail" or "none"
  sealer,   \* the loop: "running", "exiting" (returned) or "exited"
  hasWork,  \* the loop's currentBlock != nil
  rates     \* ids whose hash rate the loop holds

vars == <<pc, op, reply, ret, sealer, hasWork, rates>>

Replies == {"none", "work", "err", "nil", "done"}

-----------------------------------------------------------------------------
(* The loop's branches for the three requests (environment).               *)
HandleFetchWork == IF hasWork THEN "work" ELSE "err"
HandleSubmitWork(valid) == IF hasWork /\ valid THEN "nil" ELSE "err"

(* Mutant of Receives: GetWork's second select has no errc case.        *)
ReceivesNoErrCase ==
  [GetWork |-> {"work"}, SubmitWork |-> {"nil", "err"}, SubmitHashRate |-> {"done"}]

(* What each function's wait after its first select takes: GetWork's      *)
(* second select on workCh and errc, SubmitWork's <-errc (nil or an        *)
(* error) and SubmitHashRate's <-done.                                     *)
Receives ==
  [GetWork |-> {"work", "err"}, SubmitWork |-> {"nil", "err"}, SubmitHashRate |-> {"done"}]

Init ==
  /\ pc = [c \in Callers |-> "idle"]
  /\ op = [c \in Callers |-> "GetWork"]
  /\ reply = [c \in Callers |-> "none"]
  /\ ret = [c \in Callers |-> "none"]
  /\ sealer = "running"
  /\ hasWork = FALSE
  /\ rates = {}

(* Entering one of the API functions: without a remote sealer it returns  *)
(* "not supported" / false at once.                                       *)
Call(c, o) ==
  /\ pc[c] = "idle"
  /\ op' = [op EXCEPT ![c] = o]
  /\ IF Remote
     THEN /\ pc' = [pc EXCEPT ![c] = "send"]
          /\ reply' = [reply EXCEPT ![c] = "none"]
          /\ UNCHANGED ret
     ELSE /\ ret' = [ret EXCEPT ![c] = "fail"]
          /\ UNCHANGED <<pc, reply>>
  /\ UNCHANGED <<sealer, hasWork, rates>>

(* The first select lost to a closed exitCh: errHayekashStopped / false.  *)
Stopped(c) ==
  /\ pc[c] = "send"
  /\ sealer = "exited"
  /\ pc' = [pc EXCEPT ![c] = "idle"]
  /\ ret' = [ret EXCEPT ![c] = "fail"]
  /\ UNCHANGED <<op, reply, sealer, hasWork, rates>>

(* GetWork: the request reaches fetchWorkCh and the loop answers on workCh *)
(* or errc; then the second select returns the work or the error.         *)
GetWork(c) ==
  /\ op[c] = "GetWork"
  /\ \/ /\ pc[c] = "send"
        /\ sealer = "running"
        /\ pc' = [pc EXCEPT ![c] = "wait"]
        /\ reply' = [reply EXCEPT ![c] = HandleFetchWork]
        /\ UNCHANGED ret
     \/ /\ pc[c] = "wait"
        /\ reply[c] \in Receives["GetWork"]
        /\ pc' = [pc EXCEPT ![c] = "idle"]
        /\ ret' = [ret EXCEPT ![c] = IF reply[c] = "work" THEN "ok" ELSE "fail"]
        /\ UNCHANGED reply
  /\ UNCHANGED <<op, sealer, hasWork, rates>>

(* SubmitWork: the result reaches submitWorkCh, the loop checks it and     *)
(* answers on errc; the caller blocks on errc and reports err == nil.      *)
SubmitWork(c) ==
  /\ op[c] = "SubmitWork"
  /\ \/ /\ pc[c] = "send"
        /\ sealer = "running"
        /\ \E valid \in BOOLEAN :
             reply' = [reply EXCEPT ![c] = HandleSubmitWork(valid)]
        /\ pc' = [pc EXCEPT ![c] = "wait"]
        /\ UNCHANGED ret
     \/ /\ pc[c] = "wait"
        /\ reply[c] \in Receives["SubmitWork"]
        /\ pc' = [pc EXCEPT ![c] = "idle"]
        /\ ret' = [ret EXCEPT ![c] = IF reply[c] = "nil" THEN "ok" ELSE "fail"]
        /\ UNCHANGED reply
  /\ UNCHANGED <<op, sealer, hasWork, rates>>

(* SubmitHashRate: the rate reaches submitRateCh, the loop records it and  *)
(* closes done; the caller blocks on done and returns true.               *)
SubmitHashRate(c) ==
  /\ op[c] = "SubmitHashRate"
  /\ \/ /\ pc[c] = "send"
        /\ sealer = "running"
        /\ rates' = rates \cup {c}
        /\ pc' = [pc EXCEPT ![c] = "wait"]
        /\ reply' = [reply EXCEPT ![c] = "done"]
        /\ UNCHANGED ret
     \/ /\ pc[c] = "wait"
        /\ reply[c] \in Receives["SubmitHashRate"]
        /\ pc' = [pc EXCEPT ![c] = "idle"]
        /\ ret' = [ret EXCEPT ![c] = "ok"]
        /\ UNCHANGED <<reply, rates>>
  /\ UNCHANGED <<op, sealer, hasWork>>

(* The loop takes a new sealing task from workCh, or drops it.            *)
NewWork ==
  /\ sealer = "running"
  /\ hasWork' \in BOOLEAN
  /\ UNCHANGED <<pc, op, reply, ret, sealer, rates>>

(* The loop's ticker drops stale hash rates.                              *)
DropStaleRates ==
  /\ sealer = "running"
  /\ rates # {}
  /\ \E keep \in SUBSET rates : keep # rates /\ rates' = keep
  /\ UNCHANGED <<pc, op, reply, ret, sealer, hasWork>>

(* Close: requestExit is answered and the loop returns; its deferred      *)
(* cleanup then closes exitCh.                                            *)
RequestExit ==
  /\ sealer = "running"
  /\ sealer' = "exiting"
  /\ UNCHANGED <<pc, op, reply, ret, hasWork, rates>>

CloseExit ==
  /\ sealer = "exiting"
  /\ sealer' = "exited"
  /\ UNCHANGED <<pc, op, reply, ret, hasWork, rates>>

InCall(c) ==
  \/ Stopped(c) \/ GetWork(c) \/ SubmitWork(c) \/ SubmitHashRate(c)

Next ==
  \/ \E c \in Callers :
       \/ \E o \in Ops : Call(c, o)
       \/ InCall(c)
  \/ NewWork \/ DropStaleRates \/ RequestExit \/ CloseExit

(* Each RPC goroutine is scheduled while it is inside a call; the loop     *)
(* serves its channels while running and finishes its deferred cleanup.    *)
Fairness ==
  /\ \A c \in Callers : WF_vars(InCall(c))
  /\ WF_vars(CloseExit)

Spec == Init /\ [][Next]_vars /\ Fairness

-----------------------------------------------------------------------------
TypeOK ==
  /\ pc \in [Callers -> {"idle", "send", "wait"}]
  /\ op \in [Callers -> Ops]
  /\ reply \in [Callers -> Replies]
  /\ ret \in [Callers -> {"none", "ok", "fail"}]
  /\ sealer \in {"running", "exiting", "exited"}
  /\ hasWork \in BOOLEAN
  /\ rates \subseteq Callers

(* No RPC goroutine is left blocked: every call of GetWork, SubmitWork or  *)
(* SubmitHashRate returns, whether the sealer is running, shutting down    *)
(* between requestExit and close(exitCh), or gone.                         *)
CallsReturn == \A c \in Callers : pc[c] # "idle" ~> pc[c] = "idle"

=============================================================================
