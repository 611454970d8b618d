-------------------------- MODULE SealerAPIProofs --------------------------
(***************************************************************************)
(* Proofs about the hykash RPC API for every set of RPC goroutines and     *)
(* either value of remote: the type invariant.                             *)
(***************************************************************************)
EXTENDS SealerAPI, TLAPS

(* A goroutine past its first select has in its reply channel a message   *)
(* its own function's receive takes; with the type invariant it is        *)
(* inductive.                                                              *)
ReplyReady == \A c \in Callers : pc[c] = "wait" => reply[c] \in Receives[op[c]]

IInv == TypeOK /\ ReplyReady

(* The loop's two answers to a request are among what the receiving      *)
(* function takes: the work or an error for GetWork, nil or an error for  *)
(* SubmitWork, whatever state the loop is in.                             *)
LEMMA HandlersAnswer ==
  /\ HandleFetchWork \in Receives["GetWork"]
  /\ \A valid \in BOOLEAN : HandleSubmitWork(valid) \in Receives["SubmitWork"]
  BY DEF HandleFetchWork, HandleSubmitWork, Receives

(* Every function's receive takes only replies of the channel's type.     *)
LEMMA ReceivesType == \A o \in Ops : Receives[o] \subseteq Replies
  BY DEF Receives, Ops, Replies

(* The initial state: no goroutine is in a call, so none waits.           *)
LEMMA InitIInv == Init => IInv
  BY CallersAssumption DEF Init, IInv, TypeOK, ReplyReady, Ops, Replies

(* A call's entry either fails at once or moves to the first select with  *)
(* an empty reply channel; no goroutine starts waiting.                   *)
LEMMA CallIInv ==
  ASSUME IInv, NEW c \in Callers, NEW o \in Ops, Call(c, o)
  PROVE  IInv'
  BY CallersAssumption DEF IInv, Call, TypeOK, ReplyReady, Ops, Replies

(* The first select lost to exitCh: the goroutine returns without waiting. *)
LEMMA StoppedIInv ==
  ASSUME IInv, NEW c \in Callers, Stopped(c)
  PROVE  IInv'
  BY DEF IInv, Stopped, TypeOK, ReplyReady

(* GetWork: the request accepted puts the loop's answer in the caller's    *)
(* channels; the second select returns it.                                 *)
LEMMA GetWorkIInv ==
  ASSUME IInv, NEW c \in Callers, GetWork(c)
  PROVE  IInv'
<1>1. CASE pc[c] = "send" /\ sealer = "running"
          /\ pc' = [pc EXCEPT ![c] = "wait"]
          /\ reply' = [reply EXCEPT ![c] = HandleFetchWork]
          /\ UNCHANGED ret
  BY <1>1, HandlersAnswer, ReceivesType DEF IInv, GetWork, TypeOK, ReplyReady, Ops
<1>2. CASE pc[c] = "wait" /\ reply[c] \in Receives["GetWork"]
          /\ pc' = [pc EXCEPT ![c] = "idle"]
          /\ ret' = [ret EXCEPT ![c] = IF reply[c] = "work" THEN "ok" ELSE "fail"]
          /\ UNCHANGED reply
  BY <1>2 DEF IInv, GetWork, TypeOK, ReplyReady
<1>. QED
  BY <1>1, <1>2 DEF GetWork

(* SubmitWork: the loop checks the result and answers on errc, which the   *)
(* caller then reads.                                                      *)
LEMMA SubmitWorkIInv ==
  ASSUME IInv, NEW c \in Callers, SubmitWork(c)
  PROVE  IInv'
<1>1. CASE pc[c] = "send" /\ sealer = "running"
          /\ \E valid \in BOOLEAN : reply' = [reply EXCEPT ![c] = HandleSubmitWork(valid)]
          /\ pc' = [pc EXCEPT ![c] = "wait"]
          /\ UNCHANGED ret
  <2>1. PICK valid \in BOOLEAN : reply' = [reply EXCEPT ![c] = HandleSubmitWork(valid)]
    BY <1>1
  <2>. QED
    BY <1>1, <2>1, HandlersAnswer, ReceivesType DEF IInv, SubmitWork, TypeOK, ReplyReady, Ops
<1>2. CASE pc[c] = "wait" /\ reply[c] \in Receives["SubmitWork"]
          /\ pc' = [pc EXCEPT ![c] = "idle"]
          /\ ret' = [ret EXCEPT ![c] = IF reply[c] = "nil" THEN "ok" ELSE "fail"]
          /\ UNCHANGED reply
  BY <1>2 DEF IInv, SubmitWork, TypeOK, ReplyReady
<1>. QED
  BY <1>1, <1>2 DEF SubmitWork

(* SubmitHashRate: the loop records the rate and closes done.             *)
LEMMA SubmitHashRateIInv ==
  ASSUME IInv, NEW c \in Callers, SubmitHashRate(c)
  PROVE  IInv'
  BY DEF IInv, SubmitHashRate, TypeOK, ReplyReady, Receives, Replies

(* The loop's own steps leave every goroutine's channels alone.           *)
LEMMA LoopIInv ==
  ASSUME IInv, NewWork \/ DropStaleRates \/ RequestExit \/ CloseExit
  PROVE  IInv'
  BY DEF IInv, NewWork, DropStaleRates, RequestExit, CloseExit, TypeOK, ReplyReady

(* IInv is inductive.                                                      *)
LEMMA NextIInv == IInv /\ [Next]_vars => IInv'
<1> SUFFICES ASSUME IInv, [Next]_vars PROVE IInv'
  OBVIOUS
<1>1. CASE \E c \in Callers, o \in Ops : Call(c, o)
  BY <1>1, CallIInv
<1>2. CASE \E c \in Callers : InCall(c)
  BY <1>2, StoppedIInv, GetWorkIInv, SubmitWorkIInv, SubmitHashRateIInv DEF InCall
<1>3. CASE NewWork \/ DropStaleRates \/ RequestExit \/ CloseExit
  BY <1>3, LoopIInv
<1>4. CASE UNCHANGED vars
  BY <1>4 DEF vars, IInv, TypeOK, ReplyReady
<1>. QED
  BY <1>1, <1>2, <1>3, <1>4 DEF Next

(* Every reachable state of the API is well typed.                         *)
THEOREM SealerTypeCorrect == Spec => []TypeOK
<1>1. IInv => TypeOK
  BY DEF IInv
<1>. QED
  BY <1>1, InitIInv, NextIInv, PTL DEF Spec

=============================================================================
