---------------------------- MODULE RestService ----------------------------
(***************************************************************************)
(* The handlers of quant-api/src/lib.rs on top of the pool of Scheduler.    *)
(* A job is one POST request: `price` submits through submit_price_callback *)
(* and its closure holds no Engine; price_portfolio, run_scenarios,         *)
(* calculate_risk and calculate_xva submit through submit_task and do       *)
(* (HoldsEngine).                                                           *)
(*                                                                          *)
(* A request takes a slot of the wait_permits semaphore, submits a closure  *)
(* that owns the slot and the sender of a oneshot channel, and awaits the   *)
(* oneshot.  The await is the only point where the client's disconnection   *)
(* can drop the handler.  RequestCancellationGuard sets the job's flag      *)
(* whenever the handler ends, by whatever way.                              *)
(*                                                                          *)
(* apply_context, the health routes and the body limit touch none of this.  *)
(***************************************************************************)
EXTENDS Scheduler

VARIABLES http,          \* where the handler of each request is
          response,      \* the status each client has received
          wait_permits,  \* available permits of the semaphore
          holding        \* the request's closure owns a slot

restVars == <<http, response, wait_permits, holding>>
allVars == <<vars, restVars>>

HandlerStates ==
  {"idle",        \* not arrived
   "submitting",  \* has a slot, calls the engine
   "refused",     \* the engine returned an error
   "awaiting",    \* awaits the oneshot
   "answered",
   "gone"}        \* the client disconnected, the handler was dropped

\* Mutant: one permit too many.
SlotLimit_OffByOne == Threads + queue_capacity + 1

(* AppState::new *)
SlotLimit == Threads + queue_capacity

(* ProblemDetails::from_quant.  A computed answer may also be one of the    *)
(* pricing errors (400, 404, 502); they are not told apart here.            *)
Status(o) == CASE o = "Computed"       -> 200
               [] o = "InvalidRequest" -> 400
               [] o = "Cancelled"      -> 409
               [] o = "QueueFull"      -> 429
               [] o = "WorkerStopped"  -> 503

Statuses == {200, 400, 409, 429, 503}
NoStatus == 0

RestInit == /\ Init
            /\ http = [j \in Jobs |-> "idle"]
            /\ response = [j \in Jobs |-> NoStatus]
            /\ wait_permits = SlotLimit
            /\ holding = [j \in Jobs |-> FALSE]

Handle(j, h) == http' = [http EXCEPT ![j] = h]
Respond(j, s) == /\ Handle(j, "answered")
                 /\ response' = [response EXCEPT ![j] = s]

-----------------------------------------------------------------------------
(* The handler. *)

(* Up to try_acquire_owned: a body, an operation_id or a reference that is  *)
(* not acceptable is answered before a slot is asked for.                   *)
Arrive(j, acceptable) ==
  /\ http[j] = "idle"
  /\ \/ /\ ~acceptable
        /\ Respond(j, 400)
        /\ UNCHANGED <<wait_permits, holding>>
     \/ /\ acceptable
        /\ wait_permits = 0
        /\ Respond(j, 429)
        /\ UNCHANGED <<wait_permits, holding>>
     \/ /\ acceptable
        /\ wait_permits > 0
        /\ wait_permits' = wait_permits - 1
        /\ holding' = [holding EXCEPT ![j] = TRUE]
        /\ Handle(j, "submitting")
        /\ UNCHANGED response
  /\ UNCHANGED vars

(* The call of the engine.  submit_task validates no request. *)
CallEngine(j, valid) ==
  /\ http[j] = "submitting"
  /\ j \in HoldsEngine => valid
  /\ Submit(j, valid)
  /\ IF phase'[j] = "closed" THEN Handle(j, "refused") ELSE UNCHANGED http
  /\ UNCHANGED <<response, wait_permits, holding>>

\* Mutant: the refusal path of enqueue forgets fetch_sub.
Enqueue_SkipsUncount(j) ==
  /\ \/ Count(j) /\ UNCHANGED http
     \/ TrySend(j) /\ IF phase'[j] = "refused" THEN UNCHANGED http
                                               ELSE Handle(j, "awaiting")
     \/ UncountRefused_Forgotten(j) /\ UNCHANGED http
     \/ DropRefused(j) /\ ~holding[j] /\ Handle(j, "refused")
  /\ UNCHANGED <<response, wait_permits, holding>>

(* enqueue; after a send that is not refused the handler awaits. *)
Enqueue(j) ==
  /\ \/ Count(j) /\ UNCHANGED http
     \/ TrySend(j) /\ IF phase'[j] = "refused" THEN UNCHANGED http
                                               ELSE Handle(j, "awaiting")
     \/ UncountRefused(j) /\ UNCHANGED http
     \/ DropRefused(j) /\ ~holding[j] /\ Handle(j, "refused")
  /\ UNCHANGED <<response, wait_permits, holding>>

\* Mutant: the handler has no guard, the flag stays down when it is dropped.
Disconnect_NoGuard(j) ==
  /\ http[j] = "awaiting"
  /\ Handle(j, "gone")
  /\ UNCHANGED <<vars, response, wait_permits, holding>>

(* The Drop of RequestCancellationGuard. *)
DropGuard(j) ==
  /\ cancelled' = [cancelled EXCEPT ![j] = TRUE]
  /\ UNCHANGED <<admission, queued, channel, phase, outcome, threadVars>>

(* The client goes away: the handler future is dropped where it awaits, and *)
(* with it the guard.                                                       *)
Disconnect(j) ==
  /\ http[j] = "awaiting"
  /\ DropGuard(j)
  /\ Handle(j, "gone")
  /\ UNCHANGED <<response, wait_permits, holding>>

(* The handler returns, and with it its guard is dropped. *)
Answer(j) ==
  /\ \/ http[j] = "refused" /\ ~holding[j]
     \/ http[j] = "awaiting" /\ outcome[j] # "none"
  /\ DropGuard(j)
  /\ Respond(j, Status(outcome[j]))
  /\ UNCHANGED <<wait_permits, holding>>

-----------------------------------------------------------------------------
(* The closure and the job that owns it. *)

(* The closure gives up its slot: after it has sent its result, or as it is *)
(* dropped unrun or unwound.                                                *)
ClosureOver(j) ==
  phase[j] \in {"published", "unwinding", "uncounted", "discarded", "closed"}

\* Mutant: the slot is given up by the call of the closure, not by its drop.
ReturnSlot_OnlyAfterReply(j) ==
  /\ holding[j]
  /\ ClosureOver(j)
  /\ holding' = [holding EXCEPT ![j] = FALSE]
  /\ wait_permits' = wait_permits + IF phase[j] = "published" THEN 1 ELSE 0
  /\ UNCHANGED <<vars, http, response>>

ReturnSlot(j) ==
  /\ holding[j]
  /\ ClosureOver(j)
  /\ holding' = [holding EXCEPT ![j] = FALSE]
  /\ wait_permits' = wait_permits + 1
  /\ UNCHANGED <<vars, http, response>>

(* The job's other field, its AdmissionPermit, is dropped after the closure. *)
Discarded(j) ==
  /\ ~holding[j]
  /\ DropDiscarded(j)
  /\ UNCHANGED restVars

(* AppState owns an Engine, so no thread ever finds the channel closed. *)
Work(w) ==
  /\ \/ Take(w) \/ Uncount(w) \/ Start(w) \/ Publish(w) \/ Panic(w)
     \/ (Finish(w) \/ Unwind(w)) /\ ~holding[current[w]]
     \/ Die(w)
  /\ UNCHANGED restVars

-----------------------------------------------------------------------------

RequestStep(j) == \/ \E valid \in BOOLEAN : CallEngine(j, valid)
                  \/ Enqueue(j)
                  \/ Answer(j)
                  \/ ReturnSlot(j)
                  \/ Discarded(j)

RestNext == \/ \E j \in Jobs : \/ \E acceptable \in BOOLEAN : Arrive(j, acceptable)
                               \/ RequestStep(j)
                               \/ Disconnect(j)
            \/ \E w \in Workers : Work(w)

(* Tokio polls the handlers it has, threads are scheduled, computations     *)
(* end.  No client has to send or to leave.                                 *)
RestFairness ==
  /\ \A j \in Jobs : /\ WF_allVars(\E valid \in BOOLEAN : CallEngine(j, valid))
                     /\ WF_allVars(Enqueue(j))
                     /\ WF_allVars(Answer(j))
                     /\ WF_allVars(ReturnSlot(j))
                     /\ WF_allVars(Discarded(j))
  /\ \A w \in Workers : WF_allVars(Work(w))

RestSpec == RestInit /\ [][RestNext]_allVars /\ RestFairness

-----------------------------------------------------------------------------

RestTypeOK == /\ http \in [Jobs -> HandlerStates]
              /\ response \in [Jobs -> Statuses \cup {NoStatus}]
              /\ wait_permits \in 0 .. SlotLimit
              /\ holding \in [Jobs -> BOOLEAN]

(* No way a request can end - answered, refused by the engine, abandoned,   *)
(* panicked, discarded with the channel - loses a slot or returns it twice. *)
Holders == {j \in Jobs : holding[j]}
SlotsConserved == wait_permits + Cardinality(Holders) = SlotLimit

(* 409 "cancelled" is for nobody: the flag of a request rises only as its   *)
(* own handler ends, so a client that still listens never reads it.         *)
ConnectedNotCancelled ==
  \A j \in Jobs :
    /\ response[j] # 409
    /\ http[j] \in {"submitting", "refused", "awaiting"} => ~cancelled[j]

(* 503 "worker_stopped" is sent only when a computation has panicked: the   *)
(* request's own, or one for each thread of the pool.                       *)
UnavailableMeansPanic ==
  \A j \in Jobs : response[j] = 503 => PanicHappened

(* The inductive invariant behind the theorems of RestServiceProofs: a      *)
(* request has no slot and no raised flag before it arrives, a refused one  *)
(* has its reason, a call of submit is made by a live handler, the engine   *)
(* reports Cancelled only for a raised flag, the flag of an abandoned       *)
(* request is up, and a closure that may still run has its slot.            *)
IdleIsFresh ==
  \A j \in Jobs : http[j] = "idle" => ~holding[j] /\ ~cancelled[j]
RefusedHasReason == \A j \in Jobs : http[j] = "refused" => outcome[j] # "none"
SubmittingIsHandled ==
  \A j \in Jobs : phase[j] \in Submitting => http[j] = "submitting"
CancelledHasFlag == \A j \in Jobs : outcome[j] = "Cancelled" => cancelled[j]
GoneHasFlag == \A j \in Jobs : http[j] = "gone" => cancelled[j]
Unfinished == {"admitted", "counted", "refused", "sent", "taken", "started",
               "executing"}
UnfinishedHasSlot ==
  \A j \in Jobs :
    phase[j] \in Unfinished \/ (phase[j] = "new" /\ http[j] = "submitting")
      => holding[j]
RestIInv == /\ RestTypeOK
            /\ SlotsConserved
            /\ ConnectedNotCancelled
            /\ IdleIsFresh
            /\ RefusedHasReason
            /\ SubmittingIsHandled
            /\ CancelledHasFlag
            /\ GoneHasFlag
            /\ UnfinishedHasSlot
            /\ UnavailableMeansPanic

(* The semaphore has one slot for each place in the pool and in the channel *)
(* and still does not make the channel's limit redundant: a closure gives   *)
(* its slot up before its worker is back at the channel.  But that is the   *)
(* only way: a request that has a slot is refused by the channel only while *)
(* some worker has no slot behind it.                                       *)
FullOnlyDuringHandover ==
  [][\A j \in Jobs :
       phase[j] = "counted" /\ phase'[j] = "refused" =>
         \E w \in Workers : current[w] = NoJob \/ ~holding[current[w]]]_allVars

(* A request whose client has gone before a worker reached it is never      *)
(* computed.                                                                *)
AbandonedNeverComputed ==
  \A j \in Jobs :
    [](/\ http[j] = "gone"
       /\ phase[j] \in {"sent", "taken", "started"}
       => []~(phase[j] = "executing"))

(* Every request that got a slot is answered, unless its client leaves, and *)
(* its slot comes back, also when every worker dies.                        *)
RequestsEnd ==
  \A j \in Jobs :
    http[j] = "submitting" ~> (http[j] \in {"answered", "gone"} /\ ~holding[j])

(* Through the handlers the pool still behaves as Scheduler says: what is   *)
(* shown of every user of Engine holds for the REST service.                *)
ImplementsScheduler == Spec

=============================================================================
