--------------------------- MODULE UdsCoreProofs ---------------------------
(***************************************************************************)
(* Theorems about UdsCore, for every configuration.                        *)
(***************************************************************************)
EXTENDS UdsProperties, UdsOutcomes

-----------------------------------------------------------------------------
(* History and NVM *)

\* Observing a call keeps the history well typed, and only InputSdu adds to
\* what is known of keys and of agreed sessions.
LEMMA ObserveType ==
  ASSUME NEW h \in HistType, NEW before, NEW c \in Ctx, NEW events \in Seq(Event)
  PROVE  /\ Observe(h, before, c, events) \in HistType
         /\ Observe(h, before, c, events).grant = h.grant
         /\ Observe(h, before, c, events).agreed = h.agreed
<1> DEFINE n == IF Sent78(events) THEN 1 ELSE 0
           idle == IF c.active_session = DEFAULT THEN 0 ELSE h.idle
           quiet == IF n = 1 \/ ~c.p2_msg_pending THEN 0 ELSE h.quiet
           n78 == IF ~c.p2_msg_pending THEN 0
                  ELSE IF ~before.p2_msg_pending THEN n
                  ELSE Capped(h.n78 + n, RCRRP_LIMIT + 2)
           lock == IF HasSent(events, SECURITY_ACCESS, EXCEEDED_ATTEMPTS)
                   THEN SEC_DELAY ELSE h.lock
           asked == AskedAfter(events, h.asked)
<1>1. idle \in Nat /\ quiet \in Nat /\ lock \in Nat
  BY TimingAssumption DEF HistType
<1>2. n78 \in Nat
  <2>1. n \in Nat /\ h.n78 \in Nat /\ RCRRP_LIMIT \in Nat
    BY TimingAssumption DEF HistType
  <2> HIDE DEF n
  <2> QED
    BY <2>1 DEF Capped
<1>3. asked \in Byte
  <2>1. h.asked \in Byte /\ 0 \in Byte
    BY DEF HistType, Byte
  <2>2. CASE \E i \in DOMAIN events : events[i].k = "req"
    <3> DEFINE i == CHOOSE i \in DOMAIN events : events[i].k = "req"
    <3>1. i \in DOMAIN events
      BY <2>2
    <3>2. asked = events[i].sid
      BY <2>2 DEF AskedAfter
    <3> HIDE DEF i, asked
    <3>3. events[i] \in Event
      BY <3>1
    <3> QED
      BY <3>2, <3>3 DEF Event
  <2> QED
    BY <2>1, <2>2 DEF AskedAfter
<1> DEFINE h1 == [h EXCEPT !.idle = idle, !.quiet = quiet, !.n78 = n78]
           h2 == [h1 EXCEPT !.lock = lock, !.asked = asked, !.sid = 0, !.due = "none"]
<1>4. Observe(h, before, c, events) = h2
  BY DEF Observe
<1> HIDE DEF idle, quiet, n78, lock, asked
<1>5. h1 \in HistType /\ h1.grant = h.grant /\ h1.agreed = h.agreed
  BY <1>1, <1>2 DEF HistType
<1> HIDE DEF h1
<1>6. 0 \in Byte /\ "none" \in {"none", "may", "must"}
  BY DEF Byte
<1>7. h2 \in HistType
  BY <1>1, <1>3, <1>5, <1>6 DEF HistType
<1>8. h2.grant = h1.grant /\ h2.agreed = h1.agreed
  BY <1>5 DEF HistType
<1> QED
  BY <1>4, <1>5, <1>7, <1>8

\* What is stored after a safe call.
LEMMA StoredPair ==
  ASSUME NEW before \in NvmType, NEW c, NEW r, NEW a, NEW o, Safe(c, r, a, o)
  PROVE  LET store == Stored(before, o.out)
         IN  /\ store \in NvmType
             /\ \/ store = before /\ \A i \in DOMAIN o.out : o.out[i].k # "save"
                \/ /\ store.session = o.ctx.active_session
                   /\ store.level = o.ctx.security_level
                   /\ "fn_nvm_save" \in Callbacks
<1>1. CASE \A i \in DOMAIN o.out : o.out[i].k # "save"
  BY <1>1 DEF Stored
<1>2. CASE \E i \in DOMAIN o.out : o.out[i].k = "save"
  <2> DEFINE i == CHOOSE i \in DOMAIN o.out : o.out[i].k = "save"
             store == [valid |-> TRUE, session |-> o.out[i].sid, level |-> o.out[i].v]
  <2>1. i \in DOMAIN o.out /\ o.out[i].k = "save"
    BY <1>2
  <2>2. Stored(before, o.out) = store
    BY <1>2 DEF Stored
  <2> HIDE DEF i
  <2>3. /\ o.out[i] = Save(o.ctx.active_session, o.ctx.security_level)
        /\ "fn_nvm_save" \in Callbacks
    BY <2>1 DEF Safe, Guarded
  <2>4. o.ctx.active_session \in Sessions /\ o.ctx.security_level \in 0 .. 63
    BY DEF Safe, OutcomeType, Ctx
  <2> QED
    BY <2>2, <2>3, <2>4 DEF Save, NvmType
<1> QED
  BY <1>1, <1>2

-----------------------------------------------------------------------------
(* What is saved *)

Saves(events) == \E i \in DOMAIN events : events[i].k = "save"

\* 0x10 saves whenever it knows the session, changed or not.
LEMMA SessionControlSaves ==
  ASSUME NEW c \in Ctx, NEW r \in Request, NEW a \in Answer, NEW t \in Time,
         "fn_nvm_save" \in Callbacks
  PROVE  Saves(handle_session_control(c, r, a, t).out) <=> Sub(r) \in Sessions
<1> DEFINE level == IF c.active_session # Sub(r) \/ Sub(r) = DEFAULT THEN 0
                    ELSE c.security_level
           d == [c EXCEPT !.security_level = level, !.active_session = Sub(r)]
           o == uds_send_response(d, SESSION_CONTROL, 6)
           save == Save(d.active_session, d.security_level)
           q == handle_session_control(c, r, a, t)
<1>1. CASE Sub(r) \notin Sessions
  <2>1. q = uds_send_nrc(c, SESSION_CONTROL, SUBFUNCTION_NOT_SUPPORTED)
    BY <1>1 DEF handle_session_control
  <2>2. Quiet(c, SESSION_CONTROL, q)
    BY <2>1, QuietNrc, Codes
  <2> HIDE DEF q
  <2> QED
    BY <1>1, <2>2 DEF Quiet, Calm, Saves, q
<1>2. CASE Sub(r) \in Sessions
  <2>1. q = Postpone(o, save)
    BY <1>2 DEF handle_session_control
  <2>2. level \in 0 .. 63
    BY DEF Ctx
  <2> HIDE DEF level
  <2>3. d \in Ctx
    BY <1>2, <2>2 DEF Ctx
  <2> HIDE DEF d
  <2>4. o \in OutcomeType
    BY <2>3, QuietResponse, Codes DEF Quiet, Calm
  <2> HIDE DEF o
  <2>5. save.k = "save"
    BY DEF Save
  <2> HIDE DEF save, q
  <2>6. q.out = Append(o.out, save) /\ o.out \in Seq(Event)
    BY <2>1, <2>4 DEF Postpone, OutcomeType
  <2>7. Len(q.out) \in DOMAIN q.out /\ q.out[Len(q.out)] = save
    BY <2>6
  <2> QED
    BY <1>2, <2>5, <2>7 DEF Saves, q
<1> QED
  BY <1>1, <1>2

\* 0x27 saves nothing but what an accepted key unlocks.
LEMMA SecurityAccessSaves ==
  ASSUME NEW c \in Ctx, NEW r \in Request, NEW a \in Answer, NEW t \in Time,
         Sub(r) # 0, Saves(handle_security_access(c, r, a, t).out)
  PROVE  KeyGranted(handle_security_access(c, r, a, t).out, a)
<1> DEFINE d == [c EXCEPT !.security_delay_end = 0]
           q == handle_security_access(c, r, a, t)
           v == Sub(r) \div 2
           call == Call(SECURITY_ACCESS, v)
<1>1. d \in Ctx
  BY TimingAssumption DEF Ctx, Time
<1>2. \A n \in Byte : /\ ~Saves(uds_send_nrc(c, SECURITY_ACCESS, n).out)
                      /\ ~Saves(uds_send_nrc(d, SECURITY_ACCESS, n).out)
  BY <1>1, QuietNrc, Codes DEF Quiet, Calm, Saves
<1>3. ~Saves(RequestSeed(d, r, a).out)
  <2>1. NrcOf(a.res) \in Byte
    BY NrcOfByte DEF Answer
  <2>2. Quiet(d, SECURITY_ACCESS, RequestSeed(d, r, a))
    BY <1>1, <2>1, QuietNrc, QuietResponse, Codes DEF RequestSeed
  <2> QED
    BY <2>2 DEF Quiet, Calm, Saves
<1>4. q = SendKey(d, r, a, t) /\ Sub(r) % 2 = 0 /\ "fn_security_key" \in Callbacks
  BY <1>2, <1>3, Codes DEF handle_security_access, SendKey
<1> HIDE DEF q
<1>5. v # 0 /\ v \in Byte
  <2>1. \A n \in 0 .. 127 : n # 0 /\ n % 2 = 0 => n \div 2 # 0
    OBVIOUS
  <2> QED
    BY <1>4, <2>1, SubRange DEF Byte
<1> HIDE DEF v
<1>6. call \in Event /\ call.k = "call" /\ call.sid = SECURITY_ACCESS /\ call.v = v
  BY <1>5, Codes DEF Call, Event, EventKinds
<1> HIDE DEF call
<1>7. CASE a.res # 0
  <2> DEFINE o == KeyRejected(d, r, a, t)
  <2>1. o.out \in {<<>>} \cup {<<Neg(SECURITY_ACCESS, n)>> : n \in Byte} /\ o \in OutcomeType
    <3> DEFINE n == (d.security_attempts + 1) % ATTEMPTS_MOD
               e == [d EXCEPT !.security_attempts = n]
               f == [e EXCEPT !.security_delay_end = (t + SEC_DELAY) % TIME_MOD]
    <3>1. n \in 0 .. ATTEMPTS_MOD - 1 /\ (t + SEC_DELAY) % TIME_MOD \in Time
      BY <1>1, TimingAssumption DEF Ctx, Time
    <3>2. \/ o = uds_send_nrc(f, SECURITY_ACCESS, EXCEEDED_ATTEMPTS)
          \/ o = uds_send_nrc(e, SECURITY_ACCESS,
                              IF a.res < 0 THEN NrcOf(a.res) ELSE INVALID_KEY)
      BY DEF KeyRejected
    <3> HIDE DEF n, d
    <3>3. e \in Ctx
      BY <1>1, <3>1 DEF Ctx
    <3> HIDE DEF e
    <3>4. f \in Ctx
      BY <3>1, <3>3 DEF Ctx
    <3> HIDE DEF f, o
    <3>5. NrcOf(a.res) \in Byte
      BY NrcOfByte DEF Answer
    <3>6. PICK g \in Ctx, m \in Byte : o = uds_send_nrc(g, SECURITY_ACCESS, m)
      BY <3>2, <3>3, <3>4, <3>5, Codes
    <3>7. o \in OutcomeType
      BY <3>6, QuietNrc, Codes DEF Quiet, Calm
    <3> QED
      BY <3>6, <3>7 DEF uds_send_nrc, Outcome
  <2> HIDE DEF o
  <2>2. \A i \in DOMAIN o.out : o.out[i].k # "save"
    BY <2>1 DEF Neg
  <2>3. \A i \in DOMAIN Prepend(call, o).out : Prepend(call, o).out[i].k # "save"
    BY <1>6, <2>1, <2>2, PrependOutcome
  <2>4. q = Prepend(call, o)
    BY <1>4, <1>7 DEF SendKey, o, call, v
  <2> QED
    BY <2>3, <2>4 DEF Saves, q
<1>8. CASE a.res = 0
  <2> DEFINE level == Sub(r) \div 2
             e == [d EXCEPT !.security_attempts = 0, !.security_level = level]
             x == uds_send_response(e, SECURITY_ACCESS, 2)
             save == Save(e.active_session, e.security_level)
             o == KeyAccepted(d, r)
  <2>1. o = (IF "fn_nvm_save" \in Callbacks THEN Prepend(save, x) ELSE x)
    BY DEF KeyAccepted
  <2>2. q = Prepend(call, o)
    BY <1>4, <1>8 DEF SendKey, call, v
  <2>3. level \in 0 .. 63 /\ 0 \in 0 .. ATTEMPTS_MOD - 1
    BY SubRange, TimingAssumption
  <2> HIDE DEF d, level
  <2>4. e \in Ctx
    BY <1>1, <2>3 DEF Ctx
  <2> HIDE DEF e
  <2>5. x \in OutcomeType
    BY <2>4, QuietResponse, Codes DEF Quiet, Calm
  <2>6. save \in Event
    BY <2>4 DEF Save, Event, EventKinds, Byte, Sessions, Ctx
  <2> HIDE DEF save, x, o
  <2>7. o \in OutcomeType
    BY <2>1, <2>5, <2>6, PrependOutcome
  <2>8. q.out[1] = call /\ q.out # <<>>
    BY <1>6, <2>2, <2>7, PrependOutcome
  <2> QED
    BY <1>5, <1>6, <1>8, <2>8 DEF KeyGranted, KeyCompared, q
<1> QED
  BY <1>7, <1>8

\* A request that is dispatched saves when it is a 0x10 that the server
\* accepts, or has brought an accepted key.
LEMMA RequestSaves ==
  ASSUME NEW c \in Ctx, NEW p, NEW r \in Request, NEW a \in Answer, NEW t \in Time,
         "fn_nvm_save" \in Callbacks
  PROVE  LET o == handle_request(c, p, r, a, t)
             e == find_service(r.sid)
             accepts == /\ r.sid = SESSION_CONTROL /\ ~e.user
                        /\ Gate(c, e, r, a) = 0 /\ Sub(r) \in Sessions
         IN  Saves(o.out) <=> accepts \/ KeyGranted(o.out, a)
<1> DEFINE o == handle_request(c, p, r, a, t)
           e == find_service(r.sid)
           d == LatchSuppress(c, e, r)
           h == core_handler(d, p, r, a, t)
           accepts == /\ r.sid = SESSION_CONTROL /\ ~e.user
                      /\ Gate(c, e, r, a) = 0 /\ Sub(r) \in Sessions
<1> SUFFICES Saves(o.out) <=> accepts \/ KeyGranted(o.out, a)
  OBVIOUS
<1>1. d \in Ctx
  <2>1. Suppressed(r) \in BOOLEAN
    BY DEF Suppressed
  <2>2. [c EXCEPT !.suppress_pos_resp = Suppressed(r)] \in Ctx
    BY <2>1 DEF Ctx
  <2> QED
    BY <2>2 DEF LatchSuppress
<1>2. KeyGranted(o.out, a) => Saves(o.out)
  BY SafeHandleRequest DEF Safe, Guarded, Saves
<1>3. ASSUME NEW sid, Quiet(c, sid, o) \/ Quiet(d, sid, o)
      PROVE  ~Saves(o.out)
  BY <1>3 DEF Quiet, Calm, Saves
<1>4. r.sid \in Byte
  BY DEF Request
<1>5. CASE ~Known(r.sid)
  <2>1. r.sid # SESSION_CONTROL
    <3>1. CoreService(SESSION_CONTROL, 2, {1, 2, 3}) \in core_services
      BY DEF core_services
    <3>2. CoreService(SESSION_CONTROL, 2, {1, 2, 3}).sid = SESSION_CONTROL
      BY DEF CoreService
    <3> QED
      BY <1>5, <3>1, <3>2 DEF Known
  <2>2. o = uds_send_nrc(c, r.sid, SERVICE_NOT_SUPPORTED)
    BY <1>5 DEF handle_request
  <2>3. ~Saves(o.out)
    BY <1>3, <1>4, <2>2, QuietNrc, Codes
  <2> QED
    BY <1>2, <2>1, <2>3
<1>6. CASE Known(r.sid) /\ Gate(c, e, r, a) # 0
  <2>1. o = uds_send_nrc(d, r.sid, Gate(c, e, r, a))
    BY <1>6 DEF handle_request
  <2>2. Gate(c, e, r, a) \in Byte
    BY Codes DEF Gate, Byte
  <2> HIDE DEF d
  <2>3. Quiet(d, r.sid, uds_send_nrc(d, r.sid, Gate(c, e, r, a)))
    BY <1>1, <1>4, <2>2, QuietNrc
  <2>4. ~Saves(o.out)
    BY <1>3, <2>1, <2>3
  <2> QED
    BY <1>2, <1>6, <2>4
<1>7. CASE Known(r.sid) /\ Gate(c, e, r, a) = 0
  <2>1. o = execute_handler(e, d, p, r, a, t)
    BY <1>7 DEF handle_request
  <2>2. CASE Services(r.sid) # {}
    <3>1. e.user
      BY <2>2, ConfigAssumption DEF find_service, Services
    <3>2. ~Saves(o.out)
      <4> DEFINE u == user_handler(d, r, a, t)
      <4> HIDE DEF d
      <4>1. CASE Quiet(d, r.sid, u)
        <5>1. o = u
          BY <2>1, <3>1, <4>1 DEF execute_handler, Quiet, Calm
        <5> QED
          BY <1>3, <4>1, <5>1
      <4>2. CASE u = [ctx |-> d, out |-> <<Call(r.sid, 0)>>, ret |-> "pending"]
        <5>1. o = AwaitApplication(d, r, t, <<Call(r.sid, 0)>>)
          BY <2>1, <3>1, <4>2 DEF execute_handler
        <5> DEFINE sent == uds_send_nrc(d, r.sid, RESPONSE_PENDING).out
        <5>2. sent \in {<<>>, <<Neg(r.sid, RESPONSE_PENDING)>>}
          BY DEF uds_send_nrc, Outcome
        <5>3. o.out = <<Call(r.sid, 0)>> \o sent
          BY <5>1 DEF AwaitApplication
        <5> HIDE DEF o, sent
        <5> QED
          BY <5>2, <5>3 DEF Saves, Call, Neg
      <4> QED
        BY <1>1, <4>1, <4>2, UserHandler
    <3> QED
      BY <1>2, <3>1, <3>2
  <2>3. CASE Services(r.sid) = {}
    <3>1. \E f \in core_services : f.sid = r.sid
      BY <1>7, <2>3 DEF Known, Services
    <3>2. e \in core_services
      BY <2>3, <3>1 DEF find_service
    <3>3. ~e.user /\ (r.sid = SECURITY_ACCESS => Sub(r) # 0)
      <4>1. ~e.user
        BY <3>2 DEF core_services, CoreService
      <4>2. e.sid = r.sid
        BY <2>3, <3>1 DEF find_service
      <4>3. is_subfunction_supported(e, r)
        BY <1>7 DEF Gate, SUBFUNCTION_NOT_SUPPORTED, SERVICE_NOT_SUPP_IN_SESS,
           INCORRECT_LENGTH
      <4> HIDE DEF e
      <4>4. r.sid = SECURITY_ACCESS => e.subs = 1 .. 127
        BY <3>2, <4>2 DEF core_services, CoreService, ECU_RESET, SESSION_CONTROL,
           CLEAR_DTC, READ_DTC_INFO, READ_DATA_BY_ID, READ_MEM_BY_ADDR,
           SECURITY_ACCESS, COMM_CONTROL, AUTHENTICATION, READ_BY_PER_ID,
           WRITE_DATA_BY_ID, IO_CONTROL_BY_ID, ROUTINE_CONTROL, REQUEST_DOWNLOAD,
           REQUEST_UPLOAD, TRANSFER_DATA, TRANSFER_EXIT, WRITE_MEM_BY_ADDR,
           TESTER_PRESENT, CONTROL_DTC_SETTING
      <4> QED
        BY <4>1, <4>3, <4>4 DEF is_subfunction_supported, has_sub
    <3> HIDE DEF e, d
    <3>4. \/ Quiet(d, r.sid, h) /\ r.sid # SECURITY_ACCESS
          \/ r.sid = SESSION_CONTROL /\ h = handle_session_control(d, r, a, t)
          \/ r.sid = SECURITY_ACCESS /\ h = handle_security_access(d, r, a, t)
      BY <1>1, <3>1, CoreCases
    <3>5. h.ret = "done"
      BY <1>1, <3>4, SafeSessionControl, SafeSecurityAccess DEF Quiet, Calm
    <3>6. o = h
      BY <2>1, <3>3, <3>5 DEF execute_handler
    <3> HIDE DEF h, o
    <3>7. CASE r.sid = SESSION_CONTROL
      <4>1. h = handle_session_control(d, r, a, t)
        <5>1. core_handler(d, p, r, a, t) = handle_session_control(d, r, a, t)
          BY <3>7 DEF core_handler, SESSION_CONTROL, ECU_RESET, CLEAR_DTC,
             READ_DTC_INFO, READ_DATA_BY_ID, READ_MEM_BY_ADDR, SECURITY_ACCESS,
             COMM_CONTROL, AUTHENTICATION, READ_BY_PER_ID, WRITE_DATA_BY_ID,
             IO_CONTROL_BY_ID, ROUTINE_CONTROL, REQUEST_DOWNLOAD, REQUEST_UPLOAD,
             TRANSFER_DATA, TRANSFER_EXIT, WRITE_MEM_BY_ADDR, TESTER_PRESENT,
             CONTROL_DTC_SETTING
        <5> QED
          BY <5>1 DEF h
      <4>2. Saves(o.out) <=> Sub(r) \in Sessions
        BY <1>1, <3>6, <4>1, SessionControlSaves
      <4> QED
        BY <1>2, <1>7, <3>3, <3>7, <4>2
    <3>8. CASE r.sid # SESSION_CONTROL
      BY <1>1, <1>2, <1>3, <3>3, <3>4, <3>6, <3>8, SecurityAccessSaves
    <3> QED
      BY <3>7, <3>8
  <2> QED
    BY <2>2, <2>3
<1> QED
  BY <1>5, <1>6, <1>7

\* A message saves exactly when the server agrees to a session or a level.
LEMMA InputSaves ==
  ASSUME ctx \in Ctx, NEW p, NEW r \in Request, NEW a \in Answer, NEW t \in Time,
         "fn_nvm_save" \in Callbacks
  PROVE  LET o == uds_input_sdu(ctx, p, r, a, t)
         IN  Saves(o.out) <=> Agrees(r, a, o.out)
<1> DEFINE d == [ctx EXCEPT !.last_msg_time = t]
           c == [d EXCEPT !.p2_timer_start = t, !.p2_msg_pending = FALSE,
                          !.p2_star_active = FALSE, !.rcrrp_count = 0]
           o == uds_input_sdu(ctx, p, r, a, t)
           e == find_service(r.sid)
<1>1. d \in Ctx
  BY DEF Ctx
<1>2. /\ c \in Ctx /\ c.active_session = ctx.active_session
      /\ c.security_level = ctx.security_level
  <2>1. 0 \in 0 .. RCRRP_MOD - 1
    BY TimingAssumption
  <2>2. c \in Ctx
    BY <2>1 DEF Ctx
  <2> QED
    BY <2>2 DEF Ctx
<1>3. o = IF r.len = 0 THEN Outcome(ctx, <<>>)
          ELSE IF ctx.p2_msg_pending
          THEN IF IsSilentTesterPresent(r) THEN Outcome(d, <<>>)
               ELSE uds_send_nrc(d, r.sid, BUSY_REPEAT_REQUEST)
          ELSE IF IsResponse(ctx, r) THEN client_response(d, r, a)
          ELSE handle_request(c, p, r, a, t)
  BY DEF uds_input_sdu
<1>4. KeyGranted(o.out, a) => Saves(o.out)
  BY SafeInput DEF Safe, Guarded, Saves
<1> HIDE DEF c, d, o
<1>5. CASE r.len = 0 \/ ctx.p2_msg_pending \/ IsResponse(ctx, r)
  <2>1. o.out \in {<<>>, <<Neg(r.sid, BUSY_REPEAT_REQUEST)>>,
                   <<Cb(r)>> \o <<>>, <<Cb(r)>> \o <<Asked(a.chain)>>}
    BY <1>3, <1>5 DEF Outcome, uds_send_nrc, client_response, uds_client_request
  <2>2. ~Saves(o.out)
    BY <2>1 DEF Saves, Neg, Cb, Asked
  <2> QED
    BY <1>4, <1>5, <2>2 DEF Agrees, AcceptsSession, o
<1>6. CASE ~(r.len = 0 \/ ctx.p2_msg_pending \/ IsResponse(ctx, r))
  <2>1. o = handle_request(c, p, r, a, t)
    BY <1>3, <1>6
  <2>2. Gate(c, e, r, a) = Gate(ctx, e, r, a)
    BY <1>2 DEF Gate, is_session_supported
  <2>3. Saves(o.out) <=> \/ /\ r.sid = SESSION_CONTROL /\ ~e.user
                            /\ Gate(c, e, r, a) = 0 /\ Sub(r) \in Sessions
                         \/ KeyGranted(o.out, a)
    BY <1>2, <2>1, RequestSaves
  <2> QED
    BY <1>6, <2>2, <2>3 DEF Agrees, AcceptsSession, o
<1> QED
  BY <1>5, <1>6 DEF o

-----------------------------------------------------------------------------
(* The invariant *)

\* A level in force and a level in NVM are both earned, NVM holds what was
\* agreed last, and a wait belongs to a job.  LevelEarned alone is not
\* inductive: a power cycle turns the stored pair into the one in force.
\* For the same reason the half of StoredAsAgreed about what is in force needs
\* the half about NVM.
IInv == TypeOK /\ LevelEarned /\ NvmEarned /\ StoredAsAgreed /\ PendingHasJob

\* A safe call, recorded as the actions record it, keeps levels earned.
LEMMA CallKeepsEarned ==
  ASSUME IInv, NEW r, NEW a, NEW o, Safe(ctx, r, a, o),
         ctx' = o.ctx, nvm' = Stored(nvm, o.out),
         hist'.grant = IF KeyGranted(o.out, a)
                       THEN <<ctx.active_session, o.out[1].v>> ELSE hist.grant,
         "fn_nvm_save" \in Callbacks =>
           hist'.agreed = IF Saves(o.out)
                          THEN <<ctx'.active_session, ctx'.security_level>>
                          ELSE hist.agreed
  PROVE  /\ ctx' \in Ctx /\ nvm' \in NvmType
         /\ LevelEarned' /\ NvmEarned' /\ StoredAsAgreed'
<1>1. /\ nvm' \in NvmType
      /\ \/ nvm' = nvm /\ \A i \in DOMAIN o.out : o.out[i].k # "save"
         \/ /\ nvm'.session = ctx'.active_session
            /\ nvm'.level = ctx'.security_level
            /\ "fn_nvm_save" \in Callbacks
  BY StoredPair DEF IInv, TypeOK
<1>2. ctx' \in Ctx
  BY DEF Safe, OutcomeType
<1>3. LevelEarned'
  BY DEF IInv, LevelEarned, Safe, Guarded
<1>4. NvmEarned'
  <2>1. CASE nvm' = nvm /\ \A i \in DOMAIN o.out : o.out[i].k # "save"
    BY <2>1 DEF IInv, NvmEarned, Safe, Guarded
  <2>2. CASE /\ nvm'.session = ctx'.active_session
             /\ nvm'.level = ctx'.security_level
             /\ "fn_nvm_save" \in Callbacks
    BY <1>3, <2>2 DEF NvmEarned, LevelEarned
  <2> QED
    BY <1>1, <2>1, <2>2
<1>5. StoredAsAgreed'
  <2> SUFFICES ASSUME "fn_nvm_save" \in Callbacks
               PROVE  /\ <<nvm'.session, nvm'.level>> = hist'.agreed
                      /\ <<ctx'.active_session, ctx'.security_level>>
                           \in {hist'.agreed, <<DEFAULT, 0>>}
    BY DEF StoredAsAgreed
  <2>1. CASE Saves(o.out)
    BY <1>1, <2>1 DEF Saves
  <2>2. CASE ~Saves(o.out)
    <3>1. nvm' = nvm /\ hist'.agreed = hist.agreed
      BY <2>2 DEF Stored, Saves
    <3>2. <<ctx'.active_session, ctx'.security_level>>
            \in {<<ctx.active_session, ctx.security_level>>, <<DEFAULT, 0>>}
      BY <2>2 DEF Safe, Guarded, Saves
    <3> QED
      BY <3>1, <3>2 DEF IInv, StoredAsAgreed
  <2> QED
    BY <2>1, <2>2
<1> QED
  BY <1>1, <1>2, <1>3, <1>4, <1>5

\* A safe call that loses no job keeps the wait of a job.
LEMMA CallKeepsJob ==
  ASSUME IInv, NEW r, NEW a, NEW o, Safe(ctx, r, a, o), ctx' = o.ctx,
         jobs \subseteq jobs', o.ret = "pending" => r.sid \in jobs'
  PROVE  PendingHasJob'
BY DEF IInv, PendingHasJob, Safe, Waits

\* The stack starts with the invariant.
LEMMA InitInv == Init => IInv
<1> SUFFICES ASSUME Init PROVE IInv
  OBVIOUS
<1>1. EmptyNvm \in NvmType /\ ~EmptyNvm.valid /\ EmptyNvm.level = 0
        /\ EmptyNvm.session = DEFAULT
  BY DEF EmptyNvm, NvmType, Sessions, DEFAULT
<1>2. uds_init(EmptyNvm) \in Ctx /\ uds_init(EmptyNvm).security_level = 0
        /\ ~uds_init(EmptyNvm).p2_msg_pending
        /\ uds_init(EmptyNvm).active_session = DEFAULT
  BY <1>1, TimingAssumption DEF uds_init, Ctx, Sessions, DEFAULT, Time, Byte
<1>3. NoHistory \in HistType /\ NoHistory.agreed = <<DEFAULT, 0>>
  BY DEF NoHistory, HistType, Sessions, DEFAULT, Byte
<1>4. TypeOK
  BY <1>1, <1>2, <1>3, EnvironmentAssumption DEF Init, TypeOK
<1> QED
  BY <1>1, <1>2, <1>3, <1>4
  DEF Init, IInv, LevelEarned, NvmEarned, StoredAsAgreed, PendingHasJob

\* An SDU keeps it.
LEMMA InputKeeps ==
  ASSUME IInv, NEW r \in Requests, NEW a \in Answers, InputSdu(r, a)
  PROVE  IInv' /\ (ctx'.active_session # ctx.active_session => ctx'.security_level = 0)
<1> DEFINE o == uds_input_sdu(ctx, per, r, a, now)
           h == Observe(hist, ctx, o.ctx, o.out)
<1>1. r \in Request /\ a \in Answer
  BY EnvironmentAssumption
<1>2. Safe(ctx, r, a, o)
  BY <1>1, SafeInput DEF IInv, TypeOK
<1>3. o.ctx \in Ctx /\ o.out \in Seq(Event)
  BY <1>2 DEF Safe, OutcomeType
<1>4. h \in HistType /\ h.grant = hist.grant /\ h.agreed = hist.agreed
  BY <1>3, ObserveType DEF IInv, TypeOK
<1> DEFINE idle == IF r.len = 0 THEN h.idle ELSE 0
           agreed == IF Agrees(r, a, o.out)
                     THEN <<o.ctx.active_session, o.ctx.security_level>> ELSE h.agreed
           grant == IF KeyGranted(o.out, a)
                    THEN <<ctx.active_session, o.out[1].v>> ELSE h.grant
           wrong == IF KeyGranted(o.out, a) THEN 0
                    ELSE IF KeyCompared(o.out) THEN Capped(h.wrong + 1, MAX_ATTEMPTS)
                    ELSE h.wrong
           gap == [j \in Slot |-> IF per'.ids[j] = 0 \/ per'.ids[j] # per.ids[j]
                                  THEN 0 ELSE h.gap[j]]
           h1 == [h EXCEPT !.idle = idle, !.grant = grant, !.agreed = agreed,
                           !.wrong = wrong]
           h2 == [h1 EXCEPT !.sid = r.sid, !.due = DueFor(ctx, r), !.gap = gap]
<1>5. /\ ctx' = o.ctx /\ out' = o.out /\ nvm' = Stored(nvm, o.out) /\ hist' = h2
      /\ jobs' = (IF o.ret = "pending" THEN jobs \cup {r.sid} ELSE jobs)
      /\ now' = now /\ lag' = lag
  BY DEF InputSdu
<1> HIDE DEF o, h
<1>6. idle \in Nat /\ wrong \in Nat /\ gap \in [Slot -> Nat]
  BY <1>4, RangeAssumption, TimingAssumption DEF HistType, Capped
<1>7. grant \in Sessions \X (0 .. 63) /\ agreed \in Sessions \X (0 .. 63)
  BY <1>2, <1>3, <1>4 DEF HistType, Safe, Guarded, IInv, TypeOK, Ctx
<1>8. r.sid \in Byte /\ DueFor(ctx, r) \in {"none", "may", "must"}
  BY <1>1 DEF Request, DueFor
<1> HIDE DEF idle, wrong, gap, grant, agreed
<1>9. h1 \in HistType /\ h1.grant = grant /\ h1.agreed = agreed
  BY <1>4, <1>6, <1>7 DEF HistType
<1> HIDE DEF h1
<1>10. h2 \in HistType /\ h2.grant = grant /\ h2.agreed = agreed
  BY <1>6, <1>8, <1>9 DEF HistType
<1>11. hist'.grant = IF KeyGranted(o.out, a)
                     THEN <<ctx.active_session, o.out[1].v>> ELSE hist.grant
  BY <1>4, <1>5, <1>10 DEF grant
<1>11a. ASSUME "fn_nvm_save" \in Callbacks
        PROVE  hist'.agreed = IF Saves(o.out)
                              THEN <<ctx'.active_session, ctx'.security_level>>
                              ELSE hist.agreed
  <2>1. now \in Time /\ ctx \in Ctx
    BY DEF IInv, TypeOK
  <2>2. Saves(o.out) <=> Agrees(r, a, o.out)
    BY <1>1, <1>11a, <2>1, InputSaves DEF o
  <2>3. hist'.agreed = agreed
    BY <1>5, <1>10
  <2> HIDE DEF h2
  <2> QED
    BY <1>4, <1>5, <2>2, <2>3 DEF agreed
<1> HIDE DEF h2
<1>12. nvm' \in NvmType /\ LevelEarned' /\ NvmEarned' /\ StoredAsAgreed'
  BY <1>2, <1>5, <1>11, <1>11a, CallKeepsEarned
<1>13. PendingHasJob'
  BY <1>2, <1>5, CallKeepsJob
<1>14. TypeOK'
  BY <1>3, <1>5, <1>8, <1>10, <1>12 DEF IInv, TypeOK
<1> QED
  BY <1>2, <1>5, <1>12, <1>13, <1>14 DEF IInv, Safe, Guarded

\* An answer that concerns no key: nothing is granted by a call made outside
\* of uds_input_sdu.
NoKey == [safe |-> TRUE, again |-> TRUE, res |-> 1, chain |-> 0]

\* A turn of the main loop keeps it.
LEMMA ProcessKeeps ==
  ASSUME IInv, NEW has \in BOOLEAN, Process(has)
  PROVE  IInv' /\ (ctx'.active_session # ctx.active_session => ctx'.security_level = 0)
<1> DEFINE o == uds_process(ctx, now)
           h == Observe(hist, ctx, o.ctx, o.out)
           r == [sid |-> 0]
           gap == [j \in Slot |-> IF j \in Due(per, now) /\ ~SkipsScheduler(ctx, now)
                                  THEN 0 ELSE h.gap[j]]
           h1 == [h EXCEPT !.gap = gap]
<1>1. Safe(ctx, r, NoKey, o) /\ \A i \in DOMAIN o.out : o.out[i].k = "neg"
  BY SafeProcess DEF IInv, TypeOK
<1>2. o.ctx \in Ctx /\ o.out \in Seq(Event)
  BY <1>1 DEF Safe, OutcomeType
<1>3. h \in HistType /\ h.grant = hist.grant /\ h.agreed = hist.agreed
  BY <1>2, ObserveType DEF IInv, TypeOK
<1>4. /\ ctx' = o.ctx /\ out' = o.out /\ nvm' = nvm /\ hist' = h1
      /\ jobs' = jobs /\ now' = now /\ lag' = 0
  BY DEF Process
<1>5. o.ret # "pending"
  BY DEF uds_process, abort_pending, repeat_pending, uds_send_nrc, Outcome
<1> HIDE DEF o, h
<1>6. gap \in [Slot -> Nat]
  BY <1>3 DEF HistType
<1> HIDE DEF gap
<1>7. h1 \in HistType /\ h1.grant = hist.grant /\ h1.agreed = hist.agreed
  BY <1>3, <1>6 DEF HistType
<1> HIDE DEF h1
<1>8. nvm' = Stored(nvm, o.out) /\ ~KeyGranted(o.out, NoKey) /\ ~Saves(o.out)
  BY <1>1, <1>4 DEF Stored, KeyGranted, NoKey, Saves
<1>9. LevelEarned' /\ NvmEarned' /\ StoredAsAgreed'
  BY <1>1, <1>4, <1>7, <1>8, CallKeepsEarned
<1>10. PendingHasJob'
  BY <1>1, <1>4, <1>5, CallKeepsJob
<1>11. TypeOK'
  BY <1>2, <1>4, <1>7, EnvironmentAssumption DEF IInv, TypeOK
<1> QED
  BY <1>1, <1>4, <1>9, <1>10, <1>11 DEF IInv, Safe, Guarded

\* Calls of the application that emit one response, or a request of its own.
LEMMA ApplicationKeeps ==
  ASSUME IInv, NEW r, NEW o, Safe(ctx, r, NoKey, o),
         \A i \in DOMAIN o.out : o.out[i].k # "save",
         ctx' = o.ctx, out' = o.out, hist' = Observe(hist, ctx, o.ctx, o.out),
         UNCHANGED <<per, now, nvm, lag>>, jobs' \subseteq jobs, PendingHasJob'
  PROVE  IInv' /\ (ctx'.active_session # ctx.active_session => ctx'.security_level = 0)
<1>1. o.ctx \in Ctx /\ o.out \in Seq(Event)
  BY DEF Safe, OutcomeType
<1>2. hist' \in HistType /\ hist'.grant = hist.grant /\ hist'.agreed = hist.agreed
  BY <1>1, ObserveType DEF IInv, TypeOK
<1>3. nvm' = Stored(nvm, o.out) /\ ~KeyGranted(o.out, NoKey) /\ ~Saves(o.out)
  BY DEF Stored, KeyGranted, NoKey, Saves
<1>4. LevelEarned' /\ NvmEarned' /\ StoredAsAgreed'
  BY <1>2, <1>3, CallKeepsEarned
<1>5. TypeOK'
  BY <1>1, <1>2 DEF IInv, TypeOK
<1> QED
  BY <1>4, <1>5 DEF IInv, Safe, Guarded

\* A positive answer of the application keeps it.
LEMMA RespondKeeps ==
  ASSUME IInv, NEW sid \in jobs, NEW len, AppRespond(sid, len)
  PROVE  IInv' /\ (ctx'.active_session # ctx.active_session => ctx'.security_level = 0)
<1> DEFINE o == uds_send_response(ctx, sid, len)
           r == [sid |-> 0]
<1>1. ctx \in Ctx /\ sid \in Byte
  BY DEF IInv, TypeOK
<1>2. Quiet(ctx, sid, o)
  BY <1>1, QuietResponse
<1>3. /\ Safe(ctx, r, NoKey, o)
      /\ \A i \in DOMAIN o.out : o.out[i].k # "save"
  <2>1. Safe(ctx, r, NoKey, o)
    BY <1>1, <1>2, QuietSafe
  <2> QED
    BY <1>2, <2>1 DEF Quiet, Calm
<1>4. /\ ctx' = o.ctx /\ out' = o.out /\ hist' = Observe(hist, ctx, o.ctx, o.out)
      /\ UNCHANGED <<per, now, nvm, lag>>
      /\ jobs' = IF len > TX_SIZE THEN jobs ELSE jobs \ {sid}
  BY DEF AppRespond
<1>5. IF len > TX_SIZE THEN o.ctx = ctx ELSE ~o.ctx.p2_msg_pending
  BY <1>1 DEF uds_send_response, Outcome, Ctx
<1> HIDE DEF o
<1>6. PendingHasJob'
  BY <1>4, <1>5 DEF IInv, PendingHasJob
<1> QED
  BY <1>3, <1>4, <1>6, ApplicationKeeps

\* A negative answer of the application keeps it.
LEMMA RejectKeeps ==
  ASSUME IInv, NEW sid \in jobs, AppReject(sid)
  PROVE  IInv' /\ (ctx'.active_session # ctx.active_session => ctx'.security_level = 0)
<1> DEFINE o == uds_send_nrc(ctx, sid, CONDITIONS_NOT_CORRECT)
           r == [sid |-> 0]
<1>1. ctx \in Ctx /\ sid \in Byte
  BY DEF IInv, TypeOK
<1>2. Quiet(ctx, sid, o)
  BY <1>1, QuietNrc, Codes
<1>3. /\ Safe(ctx, r, NoKey, o)
      /\ \A i \in DOMAIN o.out : o.out[i].k # "save"
  <2>1. Safe(ctx, r, NoKey, o)
    BY <1>1, <1>2, QuietSafe
  <2> QED
    BY <1>2, <2>1 DEF Quiet, Calm
<1>4. /\ ctx' = o.ctx /\ out' = o.out /\ hist' = Observe(hist, ctx, o.ctx, o.out)
      /\ UNCHANGED <<per, now, nvm, lag>>
      /\ jobs' = IF TX_SIZE < 3 THEN jobs ELSE jobs \ {sid}
  BY DEF AppReject
<1>5. IF TX_SIZE < 3 THEN o.ctx = ctx
      ELSE o.ctx.p2_msg_pending => sid # ctx.pending_sid
  <2>1. CASE TX_SIZE < 3
    BY <2>1 DEF uds_send_nrc, Outcome
  <2>2. CASE ~(TX_SIZE < 3)
    <3> DEFINE x == ctx.p2_msg_pending
                    /\ ~(CONDITIONS_NOT_CORRECT # RESPONSE_PENDING /\ sid = ctx.pending_sid)
               d == [ctx EXCEPT !.p2_msg_pending = x]
    <3>1. o.ctx = d
      BY <2>2 DEF uds_send_nrc, Outcome
    <3>2. d.p2_msg_pending = x
      BY <1>1 DEF Ctx
    <3>3. CONDITIONS_NOT_CORRECT # RESPONSE_PENDING
      BY DEF CONDITIONS_NOT_CORRECT, RESPONSE_PENDING
    <3> HIDE DEF d
    <3> QED
      BY <2>2, <3>1, <3>2, <3>3
  <2> QED
    BY <2>1, <2>2
<1> HIDE DEF o
<1>6. PendingHasJob'
  BY <1>2, <1>4, <1>5 DEF IInv, PendingHasJob, Quiet, Calm
<1> QED
  BY <1>3, <1>4, <1>6, ApplicationKeeps

\* A client request keeps it.
LEMMA ClientRequestKeeps ==
  ASSUME IInv, NEW sid \in ClientSids, ClientRequest(sid)
  PROVE  IInv' /\ (ctx'.active_session # ctx.active_session => ctx'.security_level = 0)
<1> DEFINE o == uds_client_request(ctx, sid)
           r == [sid |-> 0]
<1>1. ctx \in Ctx /\ sid \in Byte
  BY EnvironmentAssumption DEF IInv, TypeOK
<1>2. Safe(ctx, r, NoKey, o)
  BY <1>1, SafeClientRequest
<1>3. (\A i \in DOMAIN o.out : o.out[i].k # "save") /\ o.ret # "pending"
  BY DEF uds_client_request, Outcome, Asked
<1>4. /\ ctx' = o.ctx /\ out' = o.out /\ hist' = Observe(hist, ctx, o.ctx, o.out)
      /\ UNCHANGED <<per, now, nvm, lag>> /\ jobs' = jobs
  BY DEF ClientRequest
<1> HIDE DEF o
<1>5. PendingHasJob'
  BY <1>2, <1>3, <1>4, CallKeepsJob
<1> QED
  BY <1>2, <1>3, <1>4, <1>5, ApplicationKeeps

\* A power cycle keeps it: what NVM holds has been earned.
LEMMA RestartKeeps ==
  ASSUME IInv, Restart
  PROVE  IInv' /\ out' = <<Boot>>
<1> DEFINE d == uds_init(nvm)
<1>1. /\ now' \in BootTimes /\ ctx' = d /\ jobs' = {} /\ lag' = 0
      /\ out' = <<Boot>> /\ nvm' = nvm
      /\ hist' = [NoHistory EXCEPT !.grant = hist.grant, !.agreed = hist.agreed]
  BY DEF Restart
<1>2. nvm \in NvmType /\ hist \in HistType
  BY DEF IInv, TypeOK
<1>3. d \in Ctx
  <2>1. 0 \in Time /\ 0 \in Byte /\ 0 \in 0 .. ATTEMPTS_MOD - 1
          /\ 0 \in 0 .. RCRRP_MOD - 1 /\ DEFAULT \in Sessions
    BY TimingAssumption DEF Time, Byte, Sessions, DEFAULT
  <2> QED
    BY <1>2, <2>1 DEF uds_init, Ctx, NvmType
<1>4. /\ ~d.p2_msg_pending
      /\ \/ d.security_level = 0 /\ d.active_session = DEFAULT
         \/ nvm.valid /\ d.security_level = nvm.level /\ d.active_session = nvm.session
  BY DEF uds_init
<1> HIDE DEF d
<1>5. hist' \in HistType /\ hist'.grant = hist.grant /\ hist'.agreed = hist.agreed
  <2>1. NoHistory \in HistType
    BY DEF NoHistory, HistType, Sessions, DEFAULT, Byte
  <2>2. /\ hist.grant \in Sessions \X (0 .. 63)
        /\ hist.agreed \in Sessions \X (0 .. 63)
    BY <1>2 DEF HistType
  <2> HIDE DEF NoHistory
  <2> QED
    BY <1>1, <2>1, <2>2 DEF HistType
<1>6. <<Boot>> \in Seq(Event) /\ now' \in Time /\ 0 \in 0 .. MAX_LAG
  BY <1>1, EnvironmentAssumption DEF Boot, Event, EventKinds, Byte
<1>7. TypeOK'
  BY <1>1, <1>2, <1>3, <1>5, <1>6 DEF TypeOK
<1>8. LevelEarned' /\ NvmEarned' /\ StoredAsAgreed' /\ PendingHasJob'
  BY <1>1, <1>4, <1>5
  DEF IInv, LevelEarned, NvmEarned, StoredAsAgreed, PendingHasJob
<1> QED
  BY <1>1, <1>7, <1>8 DEF IInv

\* The passing of time keeps it.
LEMMA TickKeeps ==
  ASSUME IInv, Tick
  PROVE  IInv' /\ ctx' = ctx
<1> DEFINE idle == IF ctx.active_session = DEFAULT THEN 0
                   ELSE Capped(hist.idle + 1, S3 + MAX_LAG + 1)
           quiet == IF ~ctx.p2_msg_pending THEN 0
                    ELSE Capped(hist.quiet + 1, P2STAR + MAX_LAG + 1)
           lock == IF hist.lock = 0 THEN 0 ELSE hist.lock - 1
           gap == [j \in Slot |-> IF per.ids[j] = 0 THEN 0
                                  ELSE Capped(hist.gap[j] + 1, MaxGap + 1)]
           h1 == [hist EXCEPT !.idle = idle, !.quiet = quiet, !.lock = lock]
           h2 == [h1 EXCEPT !.sid = 0, !.due = "none", !.gap = gap]
<1>1. /\ ctx' = ctx /\ nvm' = nvm /\ jobs' = jobs /\ out' = <<>> /\ hist' = h2
      /\ now' = (now + 1) % TIME_MOD /\ lag' = lag + 1 /\ lag < MAX_LAG
  BY DEF Tick
<1>2. hist \in HistType
  BY DEF IInv, TypeOK
<1>3. idle \in Nat /\ quiet \in Nat /\ lock \in Nat
  BY <1>2, TimingAssumption, EnvironmentAssumption DEF HistType, Capped
<1>4. gap \in [Slot -> Nat]
  <2>1. MaxGap \in Nat
    BY PeriodicAssumption, EnvironmentAssumption DEF MaxGap
  <2> QED
    BY <1>2, <2>1 DEF HistType, Capped
<1> HIDE DEF idle, quiet, lock, gap
<1>5. h1 \in HistType /\ h1.grant = hist.grant /\ h1.agreed = hist.agreed
  BY <1>2, <1>3 DEF HistType
<1> HIDE DEF h1
<1>6. h2 \in HistType /\ h2.grant = hist.grant /\ h2.agreed = hist.agreed
  <2>1. 0 \in Byte /\ "none" \in {"none", "may", "must"}
    BY DEF Byte
  <2>2. h2 \in HistType
    BY <1>4, <1>5, <2>1 DEF HistType
  <2>3. h2.grant = h1.grant /\ h2.agreed = h1.agreed
    BY <1>5 DEF HistType
  <2> QED
    BY <1>5, <2>2, <2>3
<1> HIDE DEF h2
<1>7. now' \in Time /\ lag' \in 0 .. MAX_LAG
  BY <1>1, TimingAssumption, EnvironmentAssumption DEF IInv, TypeOK, Time
<1>8. TypeOK'
  BY <1>1, <1>6, <1>7 DEF IInv, TypeOK
<1> QED
  BY <1>1, <1>6, <1>8
  DEF IInv, LevelEarned, NvmEarned, StoredAsAgreed, PendingHasJob

\* Every step keeps the invariant, and locks when it changes the session.
LEMMA NextKeeps ==
  ASSUME IInv, [Next]_vars
  PROVE  /\ IInv'
         /\ ctx'.active_session # ctx.active_session =>
              ctx'.security_level = 0 \/ out' = <<Boot>>
<1>1. CASE UNCHANGED vars
  BY <1>1
  DEF vars, IInv, TypeOK, LevelEarned, NvmEarned, StoredAsAgreed, PendingHasJob
<1>2. CASE Next
  BY <1>2, InputKeeps, ProcessKeeps, RespondKeeps, RejectKeeps, ClientRequestKeeps,
     RestartKeeps, TickKeeps DEF Next
<1> QED
  BY <1>1, <1>2

\* The invariant holds in every reachable state.
THEOREM Invariance == Spec => []IInv
<1>1. Init => IInv
  BY InitInv
<1>2. IInv /\ [Next]_vars => IInv'
  BY NextKeeps
<1> QED
  BY <1>1, <1>2, PTL DEF Spec

\* The context of uds_ctx_t, NVM and the jobs always have their types.
THEOREM TypeCorrect == Spec => []TypeOK
<1>1. IInv => TypeOK
  BY DEF IInv
<1> QED
  BY <1>1, Invariance, PTL

\* No sequence of requests, timeouts, application calls and power cycles
\* leaves the server unlocked without the key for that session and level.
THEOREM LevelsAreEarned == Spec => []LevelEarned
<1>1. IInv => LevelEarned
  BY DEF IInv
<1> QED
  BY <1>1, Invariance, PTL

\* Nor does NVM hold a level that was not earned.
THEOREM StoredLevelsAreEarned == Spec => []NvmEarned
<1>1. IInv => NvmEarned
  BY DEF IInv
<1> QED
  BY <1>1, Invariance, PTL

\* NVM holds what the last accepted 0x10 or key left in force, and only that
\* pair or the locked default session is ever in force: no path through the
\* dispatcher and the handlers agrees to a session or a level without saving it,
\* and none saves anything else.
THEOREM NvmFollows == Spec => []StoredAsAgreed
<1>1. IInv => StoredAsAgreed
  BY DEF IInv
<1> QED
  BY <1>1, Invariance, PTL

\* The stack never repeats 0x78 for work that nobody does.
THEOREM WaitsHaveJobs == Spec => []PendingHasJob
<1>1. IInv => PendingHasJob
  BY DEF IInv
<1> QED
  BY <1>1, Invariance, PTL

\* Whatever changes the session locks the server, except a boot.
THEOREM SessionChangeLocks == Spec => RelockOnSessionChange
<1>1. IInv /\ [Next]_vars =>
        [ctx'.active_session # ctx.active_session =>
           ctx'.security_level = 0 \/ out' = <<Boot>>]_vars
  BY NextKeeps
<1> QED
  BY <1>1, Invariance, PTL DEF Spec, RelockOnSessionChange
=============================================================================
