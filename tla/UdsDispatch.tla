---------------------------- MODULE UdsDispatch ----------------------------
(***************************************************************************)
(* The dispatcher of uds_core.c: what one call of an entry point does to a *)
(* context, as an operator.  UdsCore runs these calls one at a time,       *)
(* UdsThreads from several threads, UdsNetwork on both ends of a link.     *)
(***************************************************************************)
EXTENDS UdsServices, UdsPeriodic

-----------------------------------------------------------------------------
(* Dispatch (uds_core.c) *)

Services(sid) == {e \in UserServices : e.sid = sid}

\* User services come first: they override the core table.
find_service(sid) ==
  IF Services(sid) # {} THEN CHOOSE e \in Services(sid) : TRUE
  ELSE CHOOSE e \in core_services : e.sid = sid

Known(sid) == \E e \in UserServices \cup core_services : e.sid = sid

is_session_supported(c, e) == c.active_session \in e.sess
has_sub(e) == e.subs # {}
is_subfunction_supported(e, r) == has_sub(e) => Sub(r) \in e.subs

\* ISO 14229-1 priority: session, sub-function, length, security, safety.
Gate(c, e, r, a) ==
  IF ~is_session_supported(c, e) THEN SERVICE_NOT_SUPP_IN_SESS
  ELSE IF has_sub(e) /\ r.len < 2 THEN INCORRECT_LENGTH
  ELSE IF ~is_subfunction_supported(e, r) THEN SUBFUNCTION_NOT_SUPPORTED
  ELSE IF r.len < e.min_len THEN INCORRECT_LENGTH
  ELSE IF e.sec > c.security_level THEN SECURITY_ACCESS_DENIED
  ELSE IF "fn_is_safe" \in Callbacks /\ ~a.safe THEN CONDITIONS_NOT_CORRECT
  ELSE 0

\* ctx->suppress_pos_resp is assigned once the sub-function is accepted, and
\* only for a service that has sub-functions.
LatchSuppress(c, e, r) ==
  IF /\ is_session_supported(c, e) /\ has_sub(e)
     /\ r.len >= 2 /\ is_subfunction_supported(e, r)
  THEN [c EXCEPT !.suppress_pos_resp = Suppressed(r)]
  ELSE c

handle_periodic(c, p, r, t) ==
  LET nrc == PeriodicNrc(p, r, t)
  IN  IF r.len < 2 THEN uds_send_nrc(c, READ_BY_PER_ID, INCORRECT_LENGTH)
      ELSE IF nrc # 0 THEN uds_send_nrc(c, READ_BY_PER_ID, nrc)
      ELSE uds_send_response(c, READ_BY_PER_ID, 1)

core_handler(c, p, r, a, t) ==
  CASE r.sid = SESSION_CONTROL     -> handle_session_control(c, r, a, t)
    [] r.sid = ECU_RESET           -> handle_ecu_reset(c, r, a, t)
    [] r.sid = CLEAR_DTC           -> handle_clear_dtc(c, r, a, t)
    [] r.sid = READ_DTC_INFO       -> handle_read_dtc_info(c, r, a, t)
    [] r.sid = READ_DATA_BY_ID     -> handle_read_data_by_id(c, r, a, t)
    [] r.sid = READ_MEM_BY_ADDR    -> handle_read_memory_by_addr(c, r, a, t)
    [] r.sid = SECURITY_ACCESS     -> handle_security_access(c, r, a, t)
    [] r.sid = COMM_CONTROL        -> handle_comm_control(c, r, a, t)
    [] r.sid = AUTHENTICATION      -> handle_authentication(c, r, a, t)
    [] r.sid = READ_BY_PER_ID      -> handle_periodic(c, p, r, t)
    [] r.sid = WRITE_DATA_BY_ID    -> handle_write_data_by_id(c, r, a, t)
    [] r.sid = IO_CONTROL_BY_ID    -> handle_io_control(c, r, a, t)
    [] r.sid = ROUTINE_CONTROL     -> handle_routine_control(c, r, a, t)
    [] r.sid = REQUEST_DOWNLOAD    -> handle_request_download(c, r, a, t)
    [] r.sid = REQUEST_UPLOAD      -> handle_request_upload(c, r, a, t)
    [] r.sid = TRANSFER_DATA       -> handle_transfer_data(c, r, a, t)
    [] r.sid = TRANSFER_EXIT       -> handle_request_transfer_exit(c, r, a, t)
    [] r.sid = WRITE_MEM_BY_ADDR   -> handle_write_memory_by_addr(c, r, a, t)
    [] r.sid = TESTER_PRESENT      -> handle_tester_present(c, r, a, t)
    [] r.sid = CONTROL_DTC_SETTING -> handle_control_dtc_setting(c, r, a, t)

\* UDS_PENDING: first 0x78 at once, then the P2* timer runs for this SID.
AwaitApplication(c, r, t, sent) ==
  LET o == uds_send_nrc(c, r.sid, RESPONSE_PENDING)
  IN  [ctx |-> [o.ctx EXCEPT !.p2_msg_pending = TRUE, !.p2_star_active = TRUE,
                             !.p2_timer_start = t, !.pending_sid = r.sid],
       out |-> sent \o o.out, ret |-> "pending"]

execute_handler(e, c, p, r, a, t) ==
  LET o == IF e.user THEN user_handler(c, r, a, t) ELSE core_handler(c, p, r, a, t)
  IN  IF o.ret = "pending" THEN AwaitApplication(o.ctx, r, t, o.out) ELSE o

handle_request(c, p, r, a, t) ==
  LET e == find_service(r.sid)
      nrc == Gate(c, e, r, a)
      c1 == LatchSuppress(c, e, r)
  IN  IF ~Known(r.sid) THEN uds_send_nrc(c, r.sid, SERVICE_NOT_SUPPORTED)
      ELSE IF nrc # 0 THEN uds_send_nrc(c1, r.sid, nrc)
      ELSE execute_handler(e, c1, p, r, a, t)

-----------------------------------------------------------------------------
(* Client role *)

\* The payload of a client request is one byte: it always fits the buffer.
uds_client_request(c, sid) ==
  Outcome([c EXCEPT !.pending_sid = sid, !.client_cb = TRUE], <<Asked(sid)>>)

\* ctx->pending_sid | UDS_RESPONSE_OFFSET
PositiveSid(sid) == IF (sid \div 64) % 2 = 1 THEN sid ELSE sid + 64

\* Variant: the SID inside a negative response is not compared.
IsResponse_any_negative(c, r) ==
  /\ c.pending_sid # 0
  /\ r.sid \in {PositiveSid(c.pending_sid), SERVICE_NOT_SUPP_IN_SESS}

IsResponse(c, r) ==
  /\ c.pending_sid # 0
  /\ \/ r.sid = PositiveSid(c.pending_sid)
     \/ r.sid = SERVICE_NOT_SUPP_IN_SESS /\ r.len >= 2 /\ r.b1 = c.pending_sid

\* The callback runs first and may ask again (a.chain); client_cb and
\* pending_sid are cleared after it has returned.
client_response(c, r, a) ==
  LET inner == IF a.chain # 0 THEN uds_client_request(c, a.chain)
               ELSE Outcome(c, <<>>)
  IN  IF c.client_cb
      THEN Outcome([inner.ctx EXCEPT !.client_cb = FALSE, !.pending_sid = 0],
                   <<Cb(r)>> \o inner.out)
      ELSE Outcome([c EXCEPT !.pending_sid = 0], <<>>)

-----------------------------------------------------------------------------
(* Entry points *)

IsSilentTesterPresent(r) ==
  r.sid = TESTER_PRESENT /\ r.len >= 2 /\ Suppressed(r)

uds_input_sdu(c, p, r, a, t) ==
  LET c1 == [c EXCEPT !.last_msg_time = t]
      c2 == [c1 EXCEPT !.p2_timer_start = t, !.p2_msg_pending = FALSE,
                       !.p2_star_active = FALSE, !.rcrrp_count = 0]
  IN  IF r.len = 0 THEN Outcome(c, <<>>)
      ELSE IF c.p2_msg_pending
      THEN IF IsSilentTesterPresent(r) THEN Outcome(c1, <<>>)
           ELSE uds_send_nrc(c1, r.sid, BUSY_REPEAT_REQUEST)
      ELSE IF IsResponse(c, r) THEN client_response(c1, r, a)
      ELSE handle_request(c2, p, r, a, t)

\* The handler of 0x2A runs, and with it the update of the slot table.
RunsPeriodic(c, r, a) ==
  LET e == find_service(r.sid)
  IN  /\ r.sid = READ_BY_PER_ID /\ r.len >= 2
      /\ ~c.p2_msg_pending /\ ~IsResponse(c, r)
      /\ ~e.user /\ Gate(c, e, r, a) = 0

\* Variant: deadlines as absolute times instead of unsigned differences.
S3Expired_absolute(c, t) ==
  c.active_session # DEFAULT /\ t > c.last_msg_time + S3

S3Expired(c, t) ==
  c.active_session # DEFAULT /\ Elapsed(t, c.last_msg_time) > S3

\* Variant: the period has to be exceeded.
P2Expired_late(c, t) ==
  c.p2_msg_pending /\ Elapsed(t, c.p2_timer_start) > P2STAR

P2Expired(c, t) ==
  /\ c.p2_msg_pending
  /\ Elapsed(t, c.p2_timer_start) >= IF c.p2_star_active THEN P2STAR ELSE P2

\* Variants: one repetition too many; no limit.
RcrrpExhausted_late(c) == RCRRP_LIMIT > 0 /\ c.rcrrp_count > RCRRP_LIMIT
RcrrpExhausted_never(c) == FALSE

RcrrpExhausted(c) == RCRRP_LIMIT > 0 /\ c.rcrrp_count >= RCRRP_LIMIT

\* Variant: the level survives the timeout.
revert_session_unlocked(c, t) ==
  IF S3Expired(c, t) THEN [c EXCEPT !.active_session = DEFAULT] ELSE c

\* Back to the default session and locked; fn_nvm_save is not called.
revert_session(c, t) ==
  IF S3Expired(c, t)
  THEN [c EXCEPT !.active_session = DEFAULT, !.security_level = 0]
  ELSE c

abort_pending(c) ==
  LET o == uds_send_nrc(c, c.pending_sid, CONDITIONS_NOT_CORRECT)
  IN  [o EXCEPT !.ctx = [o.ctx EXCEPT !.rcrrp_count = 0]]

repeat_pending(c, t) ==
  LET o == uds_send_nrc(c, c.pending_sid, RESPONSE_PENDING)
  IN  [o EXCEPT !.ctx = [o.ctx EXCEPT !.rcrrp_count = (@ + 1) % RCRRP_MOD,
                                      !.p2_star_active = TRUE,
                                      !.p2_timer_start = t]]

\* The part of uds_process before the periodic scheduler.
uds_process(c, t) ==
  LET c1 == revert_session(c, t)
  IN  IF ~P2Expired(c1, t) THEN Outcome(c1, <<>>)
      ELSE IF RcrrpExhausted(c1) THEN abort_pending(c1)
      ELSE repeat_pending(c1, t)

\* Variant: the scheduler waits until nothing is pending.
SkipsScheduler_pending(c, t) == c.p2_msg_pending

\* The early return of the RCRRP limit skips the scheduler.
SkipsScheduler(c, t) == P2Expired(c, t) /\ RcrrpExhausted(c)

EmptyNvm == [valid |-> FALSE, session |-> DEFAULT, level |-> 0]

\* uds_init: everything is lost but what fn_nvm_load restores.
uds_init(store) ==
  LET loaded == "fn_nvm_load" \in Callbacks /\ store.valid
  IN  [active_session |-> IF loaded THEN store.session ELSE DEFAULT,
       security_level |-> IF loaded THEN store.level ELSE 0,
       last_msg_time |-> 0, p2_timer_start |-> 0,
       p2_msg_pending |-> FALSE, p2_star_active |-> FALSE,
       client_cb |-> FALSE, pending_sid |-> 0, comm_state |-> 0,
       suppress_pos_resp |-> FALSE, flash_sequence |-> 0,
       security_delay_end |-> 0, security_attempts |-> 0, rcrrp_count |-> 0]

=============================================================================
