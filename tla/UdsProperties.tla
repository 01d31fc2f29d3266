--------------------------- MODULE UdsProperties ---------------------------
(***************************************************************************)
(* What makes the UDS stack correct.                                       *)
(***************************************************************************)
EXTENDS UdsCore

NvmType == [valid: BOOLEAN, session: Sessions, level: 0 .. 63]

HistType == [idle: Nat, quiet: Nat, n78: Nat, grant: Sessions \X (0 .. 63),
             agreed: Sessions \X (0 .. 63),
             lock: Nat, wrong: Nat, sid: Byte, due: {"none", "may", "must"},
             asked: Byte, gap: [Slot -> Nat]]

\* Every variable holds a value of its type; in particular the context never
\* leaves the ranges of the C types and of the ISO tables (uds_ctx_t).
TypeOK ==
  /\ ctx \in Ctx
  /\ now \in Time
  /\ nvm \in NvmType
  /\ jobs \in SUBSET Byte
  /\ lag \in 0 .. MAX_LAG
  /\ out \in Seq(Event)
  /\ hist \in HistType

-----------------------------------------------------------------------------
(* Sessions and security *)

\* A security level is held only in the session, and only at the level, that
\* the last accepted key was given for: no sequence of session changes, S3
\* timeouts and power cycles with restored NVM ends unlocked without a key
\* (handle_security_access, handle_session_control, uds_process, uds_init).
LevelEarned ==
  ctx.security_level # 0 => hist.grant = <<ctx.active_session, ctx.security_level>>

\* The same of what a power cycle would restore: a stored level is that of the
\* last accepted key, in the session it was given in (fn_nvm_save as called by
\* handle_session_control and handle_security_access).
NvmEarned ==
  nvm.valid =>
    /\ "fn_nvm_save" \in Callbacks
    /\ nvm.level # 0 => hist.grant = <<nvm.session, nvm.level>>

\* A step that changes the session locks the server, whether 0x10 or the S3
\* timer changes it; only a power cycle restores a pair from NVM (C-06).
RelockOnSessionChange ==
  [][ctx'.active_session # ctx.active_session =>
       ctx'.security_level = 0 \/ out' = <<Boot>>]_vars

\* A non-default session outlives the tester's last message (or the boot that
\* restored it) by at most S3 plus the main loop's lag, at any phase of the
\* millisecond counter and across its wrap (the S3 timer of uds_process).
SessionExpires ==
  ctx.active_session # DEFAULT => hist.idle <= S3 + MAX_LAG

\* fn_security_key is never asked to compare a key while the delay announced
\* by NRC 0x36 is running (C-14).
LockoutHonoured ==
  [][KeyCompared(out') => hist.lock = 0]_vars

\* From the security_max_attempts-th wrong key on, every wrong key starts the
\* delay until a key is accepted: waiting does not buy more attempts (C-15).
WrongKeysLock ==
  KeyCompared(out) /\ hist.wrong >= MAX_ATTEMPTS =>
    HasSent(out, SECURITY_ACCESS, EXCEEDED_ATTEMPTS)

\* NVM holds the session and level that the last accepted 0x10 or key left in
\* force, and nothing but that pair, or the locked default session that boots
\* and the S3 timer fall back to, is ever in force.  So no request changes the
\* pair without saving it -- not even 0x10 01 after S3 has ended the session,
\* which changes nothing in RAM but must not leave the old pair to the next
\* power cycle (handle_session_control, handle_security_access, fn_nvm_save).
StoredAsAgreed ==
  "fn_nvm_save" \in Callbacks =>
    /\ <<nvm.session, nvm.level>> = hist.agreed
    /\ <<ctx.active_session, ctx.security_level>> \in {hist.agreed, <<DEFAULT, 0>>}

\* What a power cycle would restore is what is in force (docs/ARCHITECTURE.md:
\* fn_nvm_save "Runs when the session or security level changes"; the S3 timer
\* of uds_process changes both, and calls nothing).
StoredInForce ==
  {"fn_nvm_save", "fn_nvm_load"} \subseteq Callbacks =>
    <<nvm.session, nvm.level>> = <<ctx.active_session, ctx.security_level>>

-----------------------------------------------------------------------------
(* Asynchronous services *)

\* While the stack waits, the SID it repeats 0x78 for is one the application
\* works on and the P2* period is in force -- unless the application has sent
\* a request of its own, which takes over pending_sid (execute_handler,
\* uds_send_response, uds_send_nrc).
PendingHasJob ==
  ctx.p2_msg_pending /\ ~ctx.client_cb =>
    ctx.pending_sid \in jobs /\ ctx.p2_star_active

\* A request is answered with at most rcrrp_limit repetitions of 0x78 after
\* the first one (C-07, uds_process).
RcrrpBounded ==
  RCRRP_LIMIT > 0 => hist.n78 <= RCRRP_LIMIT + 1

\* A tester that waits hears 0x78 within P2* plus the main loop's lag
\* (uds_process), at any phase of the millisecond counter.
P2StarKept ==
  ctx.p2_msg_pending => hist.quiet < P2STAR + MAX_LAG

\* A request of another service that arrives while the stack waits is turned
\* away and leaves the wait alone: same SID, same timer, same count, nothing
\* called (the busy check of uds_input_sdu; test_concurrency.c).
BusyLeavesJobAlone ==
  [][\A r \in Requests, a \in Answers :
       ctx.p2_msg_pending /\ r.sid # ctx.pending_sid /\ InputSdu(r, a) =>
         /\ ctx' = [ctx EXCEPT !.last_msg_time = ctx'.last_msg_time]
         /\ \A i \in DOMAIN out' : out'[i] = Neg(r.sid, BUSY_REPEAT_REQUEST)]_vars

\* As long as the application works on a request the stack goes on waiting for
\* it, with a finite number of repetitions only where a limit is configured
\* (docs/TIMING_AND_TIMEOUTS.md: until the service provides a final response).
JobKeptPending ==
  RCRRP_LIMIT = 0 /\ jobs # {} => ctx.p2_msg_pending

\* With a limit configured, the wait ends even if the application never
\* answers (C-07).
PendingEnds ==
  RCRRP_LIMIT > 0 => (ctx.p2_msg_pending ~> ~ctx.p2_msg_pending)

-----------------------------------------------------------------------------
(* Answers *)

Responses(events) == {i \in DOMAIN events : events[i].k \in {"pos", "neg"}}

\* A request that is dispatched gets at most one response, and it names the
\* request's SID (handle_request and all the handlers).
AnsweredOnce ==
  hist.due # "none" =>
    \A i, j \in Responses(out) : i = j /\ out[i].sid = hist.sid

\* It does get one, unless it asked for silence, or an earlier request left the
\* suppress flag set (handle_request and all the handlers).
Answered ==
  hist.due = "must" => Responses(out) # {}

\* The suppress flag does not survive the request that set it
\* (test_compliance_suppress.c: "Should be cleared after processing").
SuppressCleared ==
  ~ctx.p2_msg_pending => ~ctx.suppress_pos_resp

-----------------------------------------------------------------------------
(* Client role *)

\* A callback is called with the response to the request it was given for, its
\* positive response or a negative one that names its SID, and at most once:
\* also when another request has replaced that one, or a callback has asked
\* again (uds_client_request, uds_input_sdu).
CallbackMatches ==
  [][\A i \in DOMAIN out' : out'[i].k = "cb" =>
       \/ out'[i].sid = PositiveSid(hist.asked)
       \/ out'[i].sid = SERVICE_NOT_SUPP_IN_SESS /\ out'[i].v = hist.asked]_vars

-----------------------------------------------------------------------------
(* Periodic transmission *)

\* periodic_count is the number of active identifiers (uds_config.h), so that
\* the scheduler runs exactly while there is one, and 0x14 is answered exactly
\* when the table is full.
CountMatches ==
  per.count = Cardinality({j \in Slot : per.ids[j] # 0})

\* No identifier is scheduled twice.
NoDuplicateIds ==
  \A i, j \in Slot : per.ids[i] = per.ids[j] /\ per.ids[i] # 0 => i = j

\* A request that adds identifiers takes no slot and no deadline away from one
\* that is active, even if the table fills up in the middle of it; and it is
\* refused with 0x14 only when the table really is full, whatever the request
\* before it stopped (handle_periodic_read).
AddDisplacesNothing ==
  [][\A r \in Requests, a \in Answers :
       RunsPeriodic(ctx, r, a) /\ Mode(r) \in 1 .. 3 /\ InputSdu(r, a) =>
         /\ \A j \in Slot : per.ids[j] # 0 =>
              per'.ids[j] = per.ids[j] /\ per'.timers[j] = per.timers[j]
         /\ HasSent(out', READ_BY_PER_ID, RESPONSE_TOO_LONG) =>
              \A j \in Slot : per'.ids[j] # 0]_vars

\* An active identifier is served at least once per slowest interval, give or
\* take the main loop's lag, even when uds_process returns early because it
\* gives up on a pending request (the scheduler of uds_process).
PeriodicOnTime ==
  \A j \in Slot : hist.gap[j] <= MaxGap
=============================================================================
