------------------------------ MODULE UdsCore ------------------------------
(***************************************************************************)
(* The UDS stack as its callers see it: one context, driven by the         *)
(* transport (uds_input_sdu), the main loop (uds_process), the application *)
(* that finishes asynchronous work (uds_send_response, uds_send_nrc) or    *)
(* sends requests of its own (uds_client_request), the passing of time and *)
(* power cycles (uds_init).  Each call is one atomic step, as it is when   *)
(* the mutex of the configuration protects it.                             *)
(***************************************************************************)
EXTENDS UdsDispatch

CONSTANTS
  Requests,    \* the SDUs the transport may deliver
  Answers,     \* what the application may answer
  ClientSids,  \* SIDs the application may request as a client
  MAX_LAG,     \* the main loop runs uds_process at least every MAX_LAG ticks
  WRAP,        \* whether the clock, and deadlines computed from it, may wrap
  KEY_WRAP,    \* whether a key may come when its delay or its count would wrap
  BootTimes    \* values of get_time_ms() when the stack is initialised

ASSUME EnvironmentAssumption ==
  /\ Requests \subseteq Request
  /\ Answers \subseteq Answer
  /\ ClientSids \subseteq Byte \ {0}
  /\ MAX_LAG \in Nat \ {0}
  /\ {WRAP, KEY_WRAP} \subseteq BOOLEAN
  /\ BootTimes \subseteq Time /\ BootTimes # {}

VARIABLES
  ctx,    \* uds_ctx_t without its periodic fields
  per,    \* the periodic fields
  now,    \* get_time_ms()
  nvm,    \* what fn_nvm_save stored last
  jobs,   \* SIDs for which the application owes the stack an answer
  lag,    \* ticks since the last uds_process
  out,    \* events of the last call
  ptx,    \* identifiers sent by the periodic scheduler in the last call
  hist    \* history, read by the properties only

vars == <<ctx, per, now, nvm, jobs, lag, out, ptx, hist>>

-----------------------------------------------------------------------------
(* History: what an observer of the calls and of the bus knows             *)
(*   idle   ticks since the last SDU or boot, in a non-default session     *)
(*   quiet  ticks since the last 0x78, while a request is pending          *)
(*   n78    0x78 responses sent for the pending request                    *)
(*   grant  session and level of the last key fn_security_key accepted     *)
(*   agreed session and level in force after the last 0x10 or key the      *)
(*          server accepted (with fn_nvm_save)                             *)
(*   lock   ticks until the delay announced by NRC 0x36 is over            *)
(*   wrong  keys fn_security_key refused since it last accepted one        *)
(*   sid    SID of the request the last call dispatched, if any            *)
(*   due    whether that request "must" be answered, "may" be (it asks for *)
(*          silence, or an earlier one left the suppress flag), or "none"  *)
(*   gap    ticks since each active periodic slot was armed or served      *)
(*   asked  SID of the last client request that has not been called back   *)

Capped(n, bound) == IF n > bound THEN bound ELSE n

\* The longest a periodic slot may wait: the slowest interval, and twice the
\* main loop's lag (the call that gives up on a pending request serves none).
MaxGap == Interval[3] + 2 * MAX_LAG

NoHistory == [idle |-> 0, quiet |-> 0, n78 |-> 0, grant |-> <<DEFAULT, 0>>,
              agreed |-> <<DEFAULT, 0>>, lock |-> 0, wrong |-> 0, sid |-> 0,
              due |-> "none", asked |-> 0, gap |-> [j \in Slot |-> 0]]

AskedAfter(events, before) ==
  IF \E i \in DOMAIN events : events[i].k = "req"
  THEN events[CHOOSE i \in DOMAIN events : events[i].k = "req"].sid
  ELSE IF \E i \in DOMAIN events : events[i].k = "cb" THEN 0
  ELSE before

\* h after a call that leaves context c and emitted events.
Observe(h, before, c, events) ==
  LET n == IF Sent78(events) THEN 1 ELSE 0
  IN  [h EXCEPT
        !.idle = IF c.active_session = DEFAULT THEN 0 ELSE @,
        !.quiet = IF n = 1 \/ ~c.p2_msg_pending THEN 0 ELSE @,
        !.n78 = IF ~c.p2_msg_pending THEN 0
                ELSE IF ~before.p2_msg_pending THEN n
                ELSE Capped(@ + n, RCRRP_LIMIT + 2),
        !.lock = IF HasSent(events, SECURITY_ACCESS, EXCEEDED_ATTEMPTS)
                 THEN SEC_DELAY ELSE @,
        !.asked = AskedAfter(events, @),
        !.sid = 0, !.due = "none"]

AsksForSilence(r) == Suppressed(r) /\ has_sub(find_service(r.sid))

DueFor(c, r) ==
  IF r.len = 0 \/ c.p2_msg_pending \/ IsResponse(c, r) THEN "none"
  ELSE IF c.suppress_pos_resp THEN "may"
  ELSE IF Known(r.sid) /\ AsksForSilence(r) THEN "may"
  ELSE "must"

\* The server accepts request r for a session: the handler of 0x10 runs, and
\* knows the session.
AcceptsSession(c, r, a) ==
  LET e == find_service(r.sid)
  IN  /\ r.sid = SESSION_CONTROL /\ r.len # 0
      /\ ~c.p2_msg_pending /\ ~IsResponse(c, r)
      /\ ~e.user /\ Gate(c, e, r, a) = 0 /\ Sub(r) \in Sessions

Agrees(r, a, events) ==
  /\ "fn_nvm_save" \in Callbacks
  /\ AcceptsSession(ctx, r, a) \/ KeyGranted(events, a)

-----------------------------------------------------------------------------
(* Actions *)

\* The NVM content after a call that emitted events.
Stored(before, events) ==
  IF \E i \in DOMAIN events : events[i].k = "save"
  THEN LET i == CHOOSE i \in DOMAIN events : events[i].k = "save"
       IN  [valid |-> TRUE, session |-> events[i].sid, level |-> events[i].v]
  ELSE before

Init ==
  /\ now \in BootTimes
  /\ nvm = EmptyNvm
  /\ ctx = uds_init(EmptyNvm)
  /\ per = NoPeriodic
  /\ jobs = {} /\ lag = 0 /\ out = <<>> /\ ptx = {}
  /\ hist = NoHistory

\* The bound KEY_WRAP = FALSE sets: no key is sent when the end of the delay it
\* may start would wrap, or the count of attempts.
KeyFits(r) ==
  r.sid = SECURITY_ACCESS /\ ~KEY_WRAP =>
    now + SEC_DELAY < TIME_MOD /\ ctx.security_attempts + 1 < ATTEMPTS_MOD

\* An SDU arrives from the transport.
InputSdu(r, a) ==
  \E o \in {uds_input_sdu(ctx, per, r, a, now)} :
    /\ KeyFits(r)
    /\ ctx' = o.ctx
    /\ out' = o.out
    /\ nvm' = Stored(nvm, out')
    /\ per' = IF RunsPeriodic(ctx, r, a) THEN handle_periodic_read(per, r, now)
              ELSE per
    /\ jobs' = IF o.ret = "pending" THEN jobs \cup {r.sid} ELSE jobs
    /\ ptx' = {}
    /\ hist' = [Observe(hist, ctx, ctx', out') EXCEPT
         !.idle = IF r.len = 0 THEN @ ELSE 0,
         !.grant = IF KeyGranted(out', a)
                   THEN <<ctx.active_session, out'[1].v>> ELSE @,
         !.agreed = IF Agrees(r, a, out')
                    THEN <<ctx'.active_session, ctx'.security_level>> ELSE @,
         !.wrong = IF KeyGranted(out', a) THEN 0
                   ELSE IF KeyCompared(out') THEN Capped(@ + 1, MAX_ATTEMPTS)
                   ELSE @,
         !.sid = r.sid,
         !.due = DueFor(ctx, r),
         !.gap = [j \in Slot |-> IF per'.ids[j] = 0 \/ per'.ids[j] # per.ids[j]
                                THEN 0 ELSE @[j]]]
    /\ UNCHANGED <<now, lag>>

\* The main loop runs uds_process; has: fn_periodic_read delivers data.
Process(has) ==
  LET o == uds_process(ctx, now)
      skip == SkipsScheduler(ctx, now)
  IN  /\ ctx' = o.ctx
      /\ out' = o.out
      /\ per' = IF skip THEN per ELSE schedule(per, now)
      /\ ptx' = IF skip THEN {} ELSE periodic_tx(per, has, now)
      /\ lag' = 0
      /\ hist' = [Observe(hist, ctx, o.ctx, o.out) EXCEPT
           !.gap = [j \in Slot |-> IF j \in Due(per, now) /\ ~skip THEN 0 ELSE @[j]]]
      /\ UNCHANGED <<now, nvm, jobs>>

\* The application finishes asynchronous work with a positive response.  One
\* that does not fit the buffer is refused, and the work stays unanswered.
AppRespond(sid, len) ==
  LET o == uds_send_response(ctx, sid, len)
  IN  /\ sid \in jobs
      /\ ctx' = o.ctx
      /\ out' = o.out
      /\ jobs' = IF len > TX_SIZE THEN jobs ELSE jobs \ {sid}
      /\ hist' = Observe(hist, ctx, o.ctx, o.out)
      /\ ptx' = {}
      /\ UNCHANGED <<per, now, nvm, lag>>

\* The application finishes asynchronous work with a negative response, which
\* is refused only when the buffer cannot hold three bytes.
AppReject(sid) ==
  LET o == uds_send_nrc(ctx, sid, CONDITIONS_NOT_CORRECT)
  IN  /\ sid \in jobs
      /\ ctx' = o.ctx
      /\ out' = o.out
      /\ jobs' = IF TX_SIZE < 3 THEN jobs ELSE jobs \ {sid}
      /\ hist' = Observe(hist, ctx, o.ctx, o.out)
      /\ ptx' = {}
      /\ UNCHANGED <<per, now, nvm, lag>>

\* The application sends a request as a client.
ClientRequest(sid) ==
  LET o == uds_client_request(ctx, sid)
  IN  /\ ctx' = o.ctx
      /\ out' = o.out
      /\ hist' = Observe(hist, ctx, o.ctx, o.out)
      /\ ptx' = {}
      /\ UNCHANGED <<per, now, nvm, jobs, lag>>

\* A power cycle: RAM and the application's work are lost, NVM survives.
Restart ==
  /\ now' \in BootTimes
  /\ ctx' = uds_init(nvm)
  /\ per' = NoPeriodic
  /\ jobs' = {} /\ lag' = 0 /\ out' = <<Boot>> /\ ptx' = {}
  /\ hist' = [NoHistory EXCEPT !.grant = hist.grant, !.agreed = hist.agreed]
  /\ UNCHANGED nvm

\* A millisecond passes.
Tick ==
  /\ lag < MAX_LAG
  /\ WRAP \/ now + 1 + SEC_DELAY < TIME_MOD
  /\ now' = (now + 1) % TIME_MOD
  /\ lag' = lag + 1
  /\ out' = <<>> /\ ptx' = {}
  /\ hist' = [hist EXCEPT
       !.idle = IF ctx.active_session = DEFAULT THEN 0
                ELSE Capped(@ + 1, S3 + MAX_LAG + 1),
       !.quiet = IF ~ctx.p2_msg_pending THEN 0
                 ELSE Capped(@ + 1, P2STAR + MAX_LAG + 1),
       !.lock = IF @ = 0 THEN 0 ELSE @ - 1,
       !.sid = 0, !.due = "none",
       !.gap = [j \in Slot |-> IF per.ids[j] = 0 THEN 0
                              ELSE Capped(@[j] + 1, MaxGap + 1)]]
  /\ UNCHANGED <<ctx, per, nvm, jobs>>

Next ==
  \/ \E r \in Requests, a \in Answers : InputSdu(r, a)
  \/ \E has \in BOOLEAN : Process(has)
  \/ \E sid \in jobs, len \in {2, TX_SIZE + 1} : AppRespond(sid, len)
  \/ \E sid \in jobs : AppReject(sid)
  \/ \E sid \in ClientSids : ClientRequest(sid)
  \/ Restart
  \/ Tick

Spec == Init /\ [][Next]_vars

\* Time passes and the main loop keeps calling uds_process (uds_core.h: it
\* "should be called at a fixed interval"); nothing is promised about the
\* tester, the application or the power supply.
FairSpec == Spec /\ WF_vars(Tick) /\ WF_vars(\E has \in BOOLEAN : Process(has))
=============================================================================
