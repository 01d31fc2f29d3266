------------------------------ MODULE UdsTypes ------------------------------
(***************************************************************************)
(* Configuration, constants and data types of the UDS stack (uds_config.h, *)
(* uds_internal.h).  A configuration is a value of the CONSTANTS below; a  *)
(* context (uds_ctx_t) is a record of Ctx; what one call of the stack does *)
(* is an outcome: the new context, the events it emits in order, and the   *)
(* handler's return code.                                                  *)
(***************************************************************************)
EXTENDS Integers, Sequences, FiniteSets

CONSTANTS
  TIME_MOD,      \* get_time_ms() is a uint32_t: 2^32 in the code
  S3,            \* UDS_S3_TIMEOUT_MS
  P2, P2STAR,    \* ctx->p2_ms, ctx->p2_star_ms
  RCRRP_LIMIT,   \* config->rcrrp_limit, 0 = no limit
  RCRRP_MOD,     \* rcrrp_count is a uint16_t: 2^16
  MAX_ATTEMPTS,  \* config->security_max_attempts, after its default
  ATTEMPTS_MOD,  \* security_attempts is a uint8_t: 2^8
  SEC_DELAY,     \* config->security_delay_ms, after its default
  SEQ_MOD,       \* flash_sequence is a uint8_t: 2^8
  REPLAY,        \* config->transfer_accept_last_block_replay
  LEN_MOD,       \* lengths are uint16_t: 2^16
  TX_SIZE,       \* config->tx_buffer_size
  Callbacks,     \* names of the fn_* hooks that are not NULL
  UserServices,  \* config->user_services
  Dids           \* config->did_table, a function from DIDs to their entries

ASSUME TimingAssumption ==
  /\ {TIME_MOD, RCRRP_MOD, ATTEMPTS_MOD, SEQ_MOD} \subseteq Nat \ {0}
  /\ {S3, P2, P2STAR, SEC_DELAY, RCRRP_LIMIT} \subseteq Nat

\* The modelled deadlines lie inside the range of the millisecond counter,
\* as 5000 ms and the configured values do in 2^32.
ASSUME RangeAssumption ==
  /\ S3 < TIME_MOD /\ P2STAR < TIME_MOD /\ SEC_DELAY < TIME_MOD
  /\ RCRRP_LIMIT < RCRRP_MOD
  /\ MAX_ATTEMPTS \in 1 .. ATTEMPTS_MOD - 1
  /\ SEQ_MOD <= 256 /\ ATTEMPTS_MOD <= 256

-----------------------------------------------------------------------------
(* Numbers of ISO 14229-1 (uds_internal.h) *)

Byte == 0 .. 255

SESSION_CONTROL     == 16    \* 0x10
ECU_RESET           == 17    \* 0x11
CLEAR_DTC           == 20    \* 0x14
READ_DTC_INFO       == 25    \* 0x19
READ_DATA_BY_ID     == 34    \* 0x22
READ_MEM_BY_ADDR    == 35    \* 0x23
SECURITY_ACCESS     == 39    \* 0x27
COMM_CONTROL        == 40    \* 0x28
AUTHENTICATION      == 41    \* 0x29
READ_BY_PER_ID      == 42    \* 0x2A
WRITE_DATA_BY_ID    == 46    \* 0x2E
IO_CONTROL_BY_ID    == 47    \* 0x2F
ROUTINE_CONTROL     == 49    \* 0x31
REQUEST_DOWNLOAD    == 52    \* 0x34
REQUEST_UPLOAD      == 53    \* 0x35
TRANSFER_DATA       == 54    \* 0x36
TRANSFER_EXIT       == 55    \* 0x37
WRITE_MEM_BY_ADDR   == 61    \* 0x3D
TESTER_PRESENT      == 62    \* 0x3E
CONTROL_DTC_SETTING == 133   \* 0x85

SERVICE_NOT_SUPPORTED     == 17    \* 0x11
SUBFUNCTION_NOT_SUPPORTED == 18    \* 0x12
INCORRECT_LENGTH          == 19    \* 0x13
RESPONSE_TOO_LONG         == 20    \* 0x14
BUSY_REPEAT_REQUEST       == 33    \* 0x21
CONDITIONS_NOT_CORRECT    == 34    \* 0x22
REQUEST_SEQUENCE_ERROR    == 36    \* 0x24
REQUEST_OUT_OF_RANGE      == 49    \* 0x31
SECURITY_ACCESS_DENIED    == 51    \* 0x33
INVALID_KEY               == 53    \* 0x35
EXCEEDED_ATTEMPTS         == 54    \* 0x36
REQUIRED_TIME_DELAY       == 55    \* 0x37
RESPONSE_PENDING          == 120   \* 0x78
SERVICE_NOT_SUPP_IN_SESS  == 127   \* 0x7F, also the SID of a negative response

DEFAULT == 1                 \* UDS_SESSION_ID_DEFAULT
Sessions == 1 .. 3           \* default, programming, extended
UDS_PENDING == 1

-----------------------------------------------------------------------------
(* Time: every elapsed time in the stack is an unsigned 32-bit difference. *)

Time == 0 .. TIME_MOD - 1
Elapsed(t, since) == (t - since) % TIME_MOD

-----------------------------------------------------------------------------
(* Messages and events *)

\* An incoming SDU: its SID, its second and third byte, its length, the
\* memory size it encodes (0x23, 0x3D) and the identifiers it lists
\* (DIDs of 0x22/0x2E/0x2F, periodic identifiers of 0x2A).
Request == [sid: Byte, b1: Byte, b2: Byte, len: Nat, size: Nat, ids: Seq(Nat)]

Sub(r) == r.b1 % 128               \* data[1] & UDS_MASK_SUBFUNCTION
Suppressed(r) == r.b1 >= 128       \* data[1] & UDS_MASK_SUPPRESS_POS_RESP

\* What the application answers while a request is handled: fn_is_safe (at the
\* gate, and when 0x3D asks again), the int returned by the service's callback,
\* and the SID a client callback asks for in turn (0 = none).
Answer == [safe: BOOLEAN, again: BOOLEAN, res: Int, chain: Byte]

\* What a call does, in order: positive and negative responses handed to
\* fn_tp_send, client requests, NVM saves, calls into the application, boot.
EventKinds == {"pos", "neg", "req", "save", "call", "cb", "boot"}
Event == [k: EventKinds, sid: Byte, v: Byte]

Pos(sid) == [k |-> "pos", sid |-> sid, v |-> 0]
Neg(sid, nrc) == [k |-> "neg", sid |-> sid, v |-> nrc]
Save(session, level) == [k |-> "save", sid |-> session, v |-> level]
Call(sid, v) == [k |-> "call", sid |-> sid, v |-> v]
Cb(r) == [k |-> "cb", sid |-> r.sid,
          v |-> IF r.sid = SERVICE_NOT_SUPP_IN_SESS THEN r.b1 ELSE 0]
Asked(sid) == [k |-> "req", sid |-> sid, v |-> 0]
Boot == [k |-> "boot", sid |-> 0, v |-> 0]

HasSent(events, sid, nrc) == \E i \in DOMAIN events : events[i] = Neg(sid, nrc)
Sent78(events) ==
  \E i \in DOMAIN events : events[i].k = "neg" /\ events[i].v = RESPONSE_PENDING

\* fn_security_key is the first thing that a step with a key calls.
KeyCompared(events) ==
  events # <<>> /\ events[1].k = "call" /\ events[1].sid = SECURITY_ACCESS
    /\ events[1].v # 0

KeyGranted(events, a) == KeyCompared(events) /\ a.res = 0

\* The events that are messages, and what the transport gets of a call: one
\* message, or none.
Spoken(events) == {i \in DOMAIN events : events[i].k \in {"pos", "neg", "req"}}
Message(events) ==
  IF Spoken(events) = {} THEN <<>> ELSE <<events[CHOOSE i \in Spoken(events) : TRUE]>>

-----------------------------------------------------------------------------
(* The context.  Fields of uds_ctx_t that nothing reads (state,             *)
(* response_pending) are left out; the periodic_* fields are in UdsPeriodic.*)

Ctx == [active_session: Sessions, security_level: 0 .. 63,
        last_msg_time: Time, p2_timer_start: Time,
        p2_msg_pending: BOOLEAN, p2_star_active: BOOLEAN,
        client_cb: BOOLEAN, pending_sid: Byte, comm_state: 0 .. 5,
        suppress_pos_resp: BOOLEAN, flash_sequence: Byte,
        security_delay_end: Time, security_attempts: 0 .. ATTEMPTS_MOD - 1,
        rcrrp_count: 0 .. RCRRP_MOD - 1]

Returns == {"done", "pending"}
Outcome(c, out) == [ctx |-> c, out |-> out, ret |-> "done"]
OutcomeType == [ctx: Ctx, out: Seq(Event), ret: Returns]

-----------------------------------------------------------------------------
(* Service table *)

\* A NULL sub_mask is the empty set: the service has no sub-function.
ServiceEntry == [sid: Byte, min_len: Nat, sess: SUBSET Sessions, sec: 0 .. 63,
                 subs: SUBSET (0 .. 127), user: BOOLEAN]

ASSUME ConfigAssumption ==
  /\ UserServices \subseteq ServiceEntry
  /\ \A e \in UserServices : e.user
  /\ {TX_SIZE, LEN_MOD} \subseteq Nat
  /\ REPLAY \in BOOLEAN

CoreService(sid, min_len, subs) ==
  [sid |-> sid, min_len |-> min_len, sess |-> Sessions, sec |-> 0,
   subs |-> subs, user |-> FALSE]

core_services ==
  { CoreService(SESSION_CONTROL, 2, {1, 2, 3}),
    CoreService(ECU_RESET, 2, {1, 2, 3}),
    CoreService(CLEAR_DTC, 4, {}),
    CoreService(READ_DTC_INFO, 2, {0, 1, 2, 4, 6}),
    CoreService(READ_DATA_BY_ID, 3, {}),
    CoreService(READ_MEM_BY_ADDR, 3, {}),
    CoreService(SECURITY_ACCESS, 2, 1 .. 127),
    CoreService(COMM_CONTROL, 2, 0 .. 5),
    CoreService(AUTHENTICATION, 2, {}),
    CoreService(WRITE_DATA_BY_ID, 3, {}),
    CoreService(ROUTINE_CONTROL, 4, {1, 2, 3}),
    CoreService(REQUEST_DOWNLOAD, 4, {}),
    CoreService(TRANSFER_DATA, 2, {}),
    CoreService(TRANSFER_EXIT, 1, {}),
    CoreService(WRITE_MEM_BY_ADDR, 3, {}),
    CoreService(TESTER_PRESENT, 2, {0}),
    CoreService(CONTROL_DTC_SETTING, 2, {1, 2}),
    CoreService(READ_BY_PER_ID, 2, 1 .. 4),
    CoreService(IO_CONTROL_BY_ID, 4, {}),
    CoreService(REQUEST_UPLOAD, 4, {}) }
=============================================================================
