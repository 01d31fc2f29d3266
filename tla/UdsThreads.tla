----------------------------- MODULE UdsThreads -----------------------------
(***************************************************************************)
(* The stack under an operating system, as in examples/freertos_demo: a    *)
(* task that runs uds_process, a receive task that runs uds_input_sdu, and *)
(* an application thread that finishes asynchronous work and sends client  *)
(* requests.  A call takes the mutex hook where the code does, changes the *)
(* context, fills the shared transmit buffer, hands it to the transport,   *)
(* does what the code does after the send, and gives the mutex back.       *)
(* Assignments that no send and no callback separates are one step.  The   *)
(* periodic table is left out: no request here is a 0x2A.                  *)
(***************************************************************************)
EXTENDS UdsDispatch

CONSTANTS
  Deliveries,          \* the SDUs the receive task may deliver, each with what
                       \* the application answers when its callback runs
  ClientSids,          \* SIDs the application may request as a client
  APP_LOCKS,           \* the application holds the mutex while it answers
  REENTRANT            \* the owner of the mutex may take it again (k_mutex may,
                       \* the semaphore of the FreeRTOS example may not)

ASSUME ThreadAssumption ==
  /\ Deliveries \subseteq Request \X Answer
  /\ ClientSids \subseteq Byte \ {0}
  /\ \A d \in Deliveries : d[2].chain \in ClientSids \cup {0}
  /\ {APP_LOCKS, REENTRANT} \subseteq BOOLEAN

VARIABLES
  ctx,        \* uds_ctx_t
  now,        \* get_time_ms()
  jobs,       \* SIDs the application works on
  tx_buffer,  \* config->tx_buffer: the message composed last
  mutex,      \* config->mutex_handle: its owner and how often it is taken
  thr,        \* what each thread is doing
  settled,    \* the context when the last call returned
  wire        \* what that call handed to fn_tp_send, until time passes

vars == <<ctx, now, jobs, tx_buffer, mutex, thr, settled, wire>>

-----------------------------------------------------------------------------
(* Calls *)

Thread == {"task", "rx", "app"}

ProcessCall == [fn |-> "uds_process"]
InputCalls == {[fn |-> "uds_input_sdu", r |-> d[1], a |-> d[2]] : d \in Deliveries}
RespondCalls(sids) == [fn: {"uds_send_response"}, sid: sids]
ClientCalls == [fn: {"uds_client_request"}, sid: ClientSids]

AsyncSids == {e.sid : e \in UserServices}
AllCalls == {ProcessCall} \cup InputCalls \cup RespondCalls(AsyncSids) \cup ClientCalls

\* What a thread may call next.
Offered(th) ==
  CASE th = "task" -> {ProcessCall}
    [] th = "rx"   -> InputCalls
    [] th = "app"  -> RespondCalls(jobs) \cup ClientCalls

\* Variants: the client request, or the answer, takes no lock.
Locks_not_client(call) == call.fn # "uds_client_request"
Locks_not_answer(call) == call.fn # "uds_send_response"

\* uds_send_response takes no lock of its own.
Locks(call) == call.fn # "uds_send_response" \/ APP_LOCKS

-----------------------------------------------------------------------------
(* A thread's frame: where it is, the call it makes, the call whose         *)
(* callback made it, what remains to be done after the send, and what it    *)
(* has sent.                                                                *)

Points == {"idle", "lock", "run", "answer", "send", "after", "clear", "leave"}
Paths == {"plain", "arm", "repeat", "abort"}

Frame == [at: Points, call: AllCalls, outer: Seq(AllCalls), path: Paths,
          sent: Seq(Event)]

Idle == [at |-> "idle", call |-> ProcessCall, outer |-> <<>>, path |-> "plain",
         sent |-> <<>>]

Free == [owner |-> "nobody", depth |-> 0]

At(th, point) == thr[th].at = point
Running(th, fn) == At(th, "run") /\ thr[th].call.fn = fn
Midway ==
  \E th \in Thread : ~At(th, "idle") /\ (At(th, "lock") => thr[th].outer # <<>>)

\* What a call leaves: a context, and the message for the transport, if any.
Composed(c, events) == [ctx |-> c, msg |-> Message(events)]

\* The call has got as far as the send: context o.ctx, message in tx_buffer.
Compose(th, o, path) ==
  /\ ctx' = o.ctx
  /\ tx_buffer' = IF o.msg = <<>> THEN tx_buffer ELSE o.msg
  /\ thr' = [thr EXCEPT ![th].at = IF o.msg = <<>> THEN "after" ELSE "send",
                        ![th].path = path]

-----------------------------------------------------------------------------
(* Steps of a call *)

ThreadInit ==
  /\ ctx = uds_init(EmptyNvm) /\ settled = ctx
  /\ now = 0 /\ jobs = {} /\ tx_buffer = <<>> /\ wire = <<>>
  /\ mutex = Free
  /\ thr = [th \in Thread |-> Idle]

Start(th, call) ==
  /\ At(th, "idle")
  /\ thr' = [thr EXCEPT ![th].at = IF Locks(call) THEN "lock" ELSE "run",
                        ![th].call = call]
  /\ jobs' = IF call.fn = "uds_send_response" THEN jobs \ {call.sid} ELSE jobs
  /\ UNCHANGED <<ctx, now, tx_buffer, mutex, settled, wire>>

\* fn_mutex_lock returns.
Acquire(th) ==
  /\ At(th, "lock")
  /\ mutex = Free \/ (REENTRANT /\ mutex.owner = th)
  /\ mutex' = [owner |-> th, depth |-> mutex.depth + 1]
  /\ thr' = [thr EXCEPT ![th].at = "run"]
  /\ UNCHANGED <<ctx, now, jobs, tx_buffer, settled, wire>>

\* The timers, up to the send.
RunProcess(th) ==
  LET c == revert_session(ctx, now)
      path == IF ~P2Expired(c, now) THEN "plain"
              ELSE IF RcrrpExhausted(c) THEN "abort" ELSE "repeat"
      nrc == IF path = "abort" THEN CONDITIONS_NOT_CORRECT ELSE RESPONSE_PENDING
      o == IF path = "plain" THEN Outcome(c, <<>>)
           ELSE uds_send_nrc(c, c.pending_sid, nrc)
  IN  /\ Running(th, "uds_process")
      /\ Compose(th, Composed(o.ctx, o.out), path)
      /\ UNCHANGED <<now, jobs, mutex, settled, wire>>

\* A response for the client role: uds_input_sdu calls back.
CallsBack(call) ==
  call.r.len > 0 /\ ~ctx.p2_msg_pending /\ IsResponse(ctx, call.r)

\* A request, up to the send: an asynchronous handler has started its work, but
\* execute_handler has not armed the P2* timer yet.
RunInput(th) ==
  LET call == thr[th].call
      o == uds_input_sdu(ctx, NoPeriodic, call.r, call.a, now)
      pends == o.ret = "pending"
      unarmed == [o.ctx EXCEPT !.p2_msg_pending = FALSE, !.p2_star_active = FALSE,
                               !.pending_sid = ctx.pending_sid]
  IN  /\ Running(th, "uds_input_sdu") /\ ~CallsBack(call)
      /\ Compose(th, Composed(IF pends THEN unarmed ELSE o.ctx, o.out),
                 IF pends THEN "arm" ELSE "plain")
      /\ jobs' = IF pends THEN jobs \cup {call.r.sid} ELSE jobs
      /\ UNCHANGED <<now, mutex, settled, wire>>

\* The client's callback runs under the lock, and may send the next request.
RunCallback(th) ==
  LET call == thr[th].call
      again == ctx.client_cb /\ call.a.chain # 0
      next == [fn |-> "uds_client_request", sid |-> call.a.chain]
  IN  /\ Running(th, "uds_input_sdu") /\ CallsBack(call)
      /\ ctx' = [ctx EXCEPT !.last_msg_time = now]
      /\ thr' = [thr EXCEPT ![th] =
                   IF again
                   THEN [@ EXCEPT !.at = "lock", !.call = next, !.outer = <<call>>]
                   ELSE [@ EXCEPT !.at = "clear"]]
      /\ UNCHANGED <<now, jobs, tx_buffer, mutex, settled, wire>>

\* The callback has returned: the request it belonged to is disarmed.
Clear(th) ==
  /\ At(th, "clear")
  /\ ctx' = [ctx EXCEPT !.client_cb = FALSE, !.pending_sid = 0]
  /\ thr' = [thr EXCEPT ![th].at = "leave"]
  /\ UNCHANGED <<now, jobs, tx_buffer, mutex, settled, wire>>

\* The application writes its response into the transmit buffer ...
RunRespond(th) ==
  /\ Running(th, "uds_send_response")
  /\ tx_buffer' = <<Pos(thr[th].call.sid)>>
  /\ thr' = [thr EXCEPT ![th].at = "answer"]
  /\ UNCHANGED <<ctx, now, jobs, mutex, settled, wire>>

\* ... and calls uds_send_response.
AnswerJob(th) ==
  LET o == uds_send_response(ctx, thr[th].call.sid, 2)
  IN  /\ At(th, "answer")
      /\ ctx' = o.ctx
      /\ thr' = [thr EXCEPT ![th].at = IF o.out = <<>> THEN "leave" ELSE "send"]
      /\ UNCHANGED <<now, jobs, tx_buffer, mutex, settled, wire>>

RunClient(th) ==
  LET o == uds_client_request(ctx, thr[th].call.sid)
  IN  /\ Running(th, "uds_client_request")
      /\ Compose(th, Composed(o.ctx, o.out), "plain")
      /\ UNCHANGED <<now, jobs, mutex, settled, wire>>

\* fn_tp_send takes what the buffer holds now.
Send(th) ==
  /\ At(th, "send")
  /\ thr' = [thr EXCEPT ![th].at = "after", ![th].sent = @ \o tx_buffer]
  /\ UNCHANGED <<ctx, now, jobs, tx_buffer, mutex, settled, wire>>

\* What the code does once fn_tp_send has returned.
Finished(c, frame, t) ==
  CASE frame.path = "plain"  -> c
    [] frame.path = "abort"  -> [c EXCEPT !.rcrrp_count = 0]
    [] frame.path = "repeat" -> [c EXCEPT !.rcrrp_count = (@ + 1) % RCRRP_MOD,
                                          !.p2_star_active = TRUE,
                                          !.p2_timer_start = t]
    [] frame.path = "arm"    -> [c EXCEPT !.p2_msg_pending = TRUE,
                                          !.p2_star_active = TRUE,
                                          !.p2_timer_start = t,
                                          !.pending_sid = frame.call.r.sid]

After(th) ==
  /\ At(th, "after")
  /\ ctx' = Finished(ctx, thr[th], now)
  /\ thr' = [thr EXCEPT ![th].at = "leave"]
  /\ UNCHANGED <<now, jobs, tx_buffer, mutex, settled, wire>>

\* Variants: a silent tester present, or a request sent from a callback,
\* returns without unlocking.
Unlocks_not_silent(frame) ==
  ~(frame.call.fn = "uds_input_sdu" /\ frame.sent = <<>>)
Unlocks_not_nested(frame) == frame.outer = <<>>

\* The call that gives up on a pending request returns without unlocking.
Unlocks(frame) == Locks(frame.call) /\ frame.path # "abort"

\* The call returns, to its thread or to uds_input_sdu that called it back.
Leave(th) ==
  LET f == thr[th]
  IN  /\ At(th, "leave")
      /\ mutex' = IF ~Unlocks(f) THEN mutex
                  ELSE IF mutex.depth = 1 THEN Free
                  ELSE [mutex EXCEPT !.depth = @ - 1]
      /\ IF f.outer = <<>>
         THEN /\ thr' = [thr EXCEPT ![th] = Idle]
              /\ settled' = ctx /\ wire' = f.sent
         ELSE /\ thr' = [thr EXCEPT ![th] = [f EXCEPT !.at = "clear", !.outer = <<>>,
                                                      !.call = f.outer[1]]]
              /\ UNCHANGED <<settled, wire>>
      /\ UNCHANGED <<ctx, now, jobs, tx_buffer>>

\* A call is short against the millisecond: time passes between calls, or
\* while everyone waits for the mutex.
ThreadTick ==
  /\ ~Midway
  /\ now' = (now + 1) % TIME_MOD
  /\ wire' = <<>>
  /\ UNCHANGED <<ctx, jobs, tx_buffer, mutex, thr, settled>>

Step(th) ==
  \/ RunProcess(th) \/ RunInput(th) \/ RunCallback(th) \/ RunRespond(th)
  \/ RunClient(th) \/ AnswerJob(th) \/ Send(th) \/ After(th) \/ Clear(th)
  \/ Leave(th)

ThreadNext ==
  \/ \E th \in Thread, call \in AllCalls : call \in Offered(th) /\ Start(th, call)
  \/ \E th \in Thread : Acquire(th) \/ Step(th)
  \/ ThreadTick

ThreadSpec == ThreadInit /\ [][ThreadNext]_vars

\* A thread that can go on does (the scheduler), and one that waits for the
\* mutex gets it if it is free again and again (xSemaphoreTake with
\* portMAX_DELAY queues its callers).  No thread has to start a call.
ThreadFairSpec ==
  /\ ThreadSpec
  /\ \A th \in Thread : WF_vars(Step(th)) /\ SF_vars(Acquire(th))

-----------------------------------------------------------------------------
(* Properties *)

\* Frames, the mutex and the context keep their types; the mutex is taken at
\* most twice, by uds_input_sdu and the request its callback sends.
ThreadTypeOK ==
  /\ ctx \in Ctx /\ settled \in Ctx
  /\ now \in Time
  /\ jobs \subseteq AsyncSids
  /\ thr \in [Thread -> Frame]
  /\ mutex.depth \in 0 .. 2 /\ mutex.owner \in Thread \cup {"nobody"}

\* A thread that is not in a call of the stack does not hold its mutex: every
\* return of uds_process, uds_input_sdu and uds_client_request unlocks
\* (tests/unit/test_osal.c: "Process should lock and unlock").
MutexReleased ==
  \A th \in Thread : At(th, "idle") => mutex.owner # th

\* While the stack waits for a job the application works on it, or is about to
\* answer it: the answer never gets in between the first 0x78 and the timer
\* that execute_handler arms after it (C-17).  A client request is exempt, it
\* takes pending_sid over.
WaitHasWorker ==
  ctx.p2_msg_pending /\ ~ctx.client_cb =>
    \/ ctx.pending_sid \in jobs
    \/ thr["app"].at # "idle" /\ thr["app"].call.fn = "uds_send_response"

\* A whole call in context c at time t.
Effect(call, c, t) ==
  LET o == CASE call.fn = "uds_process"        -> uds_process(c, t)
             [] call.fn = "uds_input_sdu"      ->
                  uds_input_sdu(c, NoPeriodic, call.r, call.a, t)
             [] call.fn = "uds_send_response"  -> uds_send_response(c, call.sid, 2)
             [] call.fn = "uds_client_request" -> uds_client_request(c, call.sid)
  IN  Composed(o.ctx, o.out)

Atomic == INSTANCE UdsAtomic
            WITH Calls <- AllCalls, Effect <- Effect, Fresh <- uds_init(EmptyNvm),
                 CLOCK <- TIME_MOD, ctx <- settled, now <- now, wire <- wire

\* The calls of all threads take effect one after the other, and the transport
\* gets the messages each of them composed, unmixed (docs/OSAL.md).
AtomicCalls == Atomic!AtomicSpec

\* A call that waits for the mutex returns in the end.
CallsReturn ==
  \A th \in Thread : At(th, "lock") ~> At(th, "idle")
=============================================================================
