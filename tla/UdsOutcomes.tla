---------------------------- MODULE UdsOutcomes ----------------------------
(***************************************************************************)
(* What one call of the stack may do to a context and say on the bus, for  *)
(* every configuration: lemmas about the operators of UdsDispatch, used by *)
(* the proofs about single calls and about threads.                        *)
(***************************************************************************)
EXTENDS UdsDispatch, TLAPS

-----------------------------------------------------------------------------
(* Numbers *)

\* All service identifiers and response codes are bytes.
LEMMA Codes ==
  /\ {SESSION_CONTROL, ECU_RESET, CLEAR_DTC, READ_DTC_INFO, READ_DATA_BY_ID,
      READ_MEM_BY_ADDR, SECURITY_ACCESS, COMM_CONTROL, AUTHENTICATION,
      READ_BY_PER_ID, WRITE_DATA_BY_ID, IO_CONTROL_BY_ID, ROUTINE_CONTROL,
      REQUEST_DOWNLOAD, REQUEST_UPLOAD, TRANSFER_DATA, TRANSFER_EXIT,
      WRITE_MEM_BY_ADDR, TESTER_PRESENT, CONTROL_DTC_SETTING} \subseteq Byte
  /\ {SERVICE_NOT_SUPPORTED, SUBFUNCTION_NOT_SUPPORTED, INCORRECT_LENGTH,
      RESPONSE_TOO_LONG, BUSY_REPEAT_REQUEST, CONDITIONS_NOT_CORRECT,
      REQUEST_SEQUENCE_ERROR, REQUEST_OUT_OF_RANGE, SECURITY_ACCESS_DENIED,
      INVALID_KEY, EXCEEDED_ATTEMPTS, REQUIRED_TIME_DELAY, RESPONSE_PENDING,
      SERVICE_NOT_SUPP_IN_SESS} \subseteq Byte
BY DEF Byte, SESSION_CONTROL, ECU_RESET, CLEAR_DTC, READ_DTC_INFO, READ_DATA_BY_ID,
      READ_MEM_BY_ADDR, SECURITY_ACCESS, COMM_CONTROL, AUTHENTICATION,
      READ_BY_PER_ID, WRITE_DATA_BY_ID, IO_CONTROL_BY_ID, ROUTINE_CONTROL,
      REQUEST_DOWNLOAD, REQUEST_UPLOAD, TRANSFER_DATA, TRANSFER_EXIT,
      WRITE_MEM_BY_ADDR, TESTER_PRESENT, CONTROL_DTC_SETTING,
      SERVICE_NOT_SUPPORTED, SUBFUNCTION_NOT_SUPPORTED, INCORRECT_LENGTH,
      RESPONSE_TOO_LONG, BUSY_REPEAT_REQUEST, CONDITIONS_NOT_CORRECT,
      REQUEST_SEQUENCE_ERROR, REQUEST_OUT_OF_RANGE, SECURITY_ACCESS_DENIED,
      INVALID_KEY, EXCEEDED_ATTEMPTS, REQUIRED_TIME_DELAY, RESPONSE_PENDING,
      SERVICE_NOT_SUPP_IN_SESS

\* The NRC derived from an application's result is a byte.
LEMMA NrcOfByte ==
  ASSUME NEW n \in Int
  PROVE  NrcOf(n) \in Byte
BY DEF NrcOf, Byte

\* The sub-function of a request is a 7-bit number.
LEMMA SubRange ==
  ASSUME NEW r \in Request
  PROVE  Sub(r) \in 0 .. 127 /\ Sub(r) \div 2 \in 0 .. 63 /\ Sub(r) \in Byte
<1>1. r.b1 \in 0 .. 255
  BY DEF Request, Byte
<1>2. Sub(r) \in 0 .. 127
  BY <1>1 DEF Sub
<1>3. \A n \in 0 .. 127 : n \div 2 \in 0 .. 63 /\ n \in 0 .. 255
  OBVIOUS
<1> QED
  BY <1>2, <1>3 DEF Byte

-----------------------------------------------------------------------------
(* Outcomes of the handlers *)

\* At most one message, and it is about service sid.
OneReply(sid, events) ==
  \A i \in Spoken(events) : events[i].sid = sid /\ \A j \in Spoken(events) : j = i

\* What a handler that only answers does: session, level, client, timers and NVM
\* stay; the wait for the application goes on as it was, or ends.
Calm(c, sid, o) ==
  /\ o \in OutcomeType
  /\ o.ret = "done"
  /\ o.ctx.active_session = c.active_session
  /\ o.ctx.security_level = c.security_level
  /\ o.ctx.pending_sid = c.pending_sid
  /\ o.ctx.client_cb = c.client_cb
  /\ o.ctx.p2_star_active = c.p2_star_active
  /\ o.ctx.last_msg_time = c.last_msg_time
  /\ o.ctx.p2_timer_start = c.p2_timer_start
  /\ o.ctx.p2_msg_pending => c.p2_msg_pending /\ o.ctx.rcrrp_count = c.rcrrp_count
  /\ \A i \in DOMAIN o.out : o.out[i].k \in {"pos", "neg", "call"}
  /\ ~KeyCompared(o.out)
  /\ OneReply(sid, o.out)

\* Every handler but those of 0x10 and 0x27 leaves the lockout alone, too.
Quiet(c, sid, o) ==
  /\ Calm(c, sid, o)
  /\ o.ctx.security_delay_end = c.security_delay_end
  /\ o.ctx.security_attempts = c.security_attempts

\* Contexts that differ only in what Calm does not speak of.
Same(c, d) ==
  /\ d.active_session = c.active_session
  /\ d.security_level = c.security_level
  /\ d.pending_sid = c.pending_sid
  /\ d.client_cb = c.client_cb
  /\ d.p2_star_active = c.p2_star_active
  /\ d.last_msg_time = c.last_msg_time
  /\ d.p2_timer_start = c.p2_timer_start
  /\ d.p2_msg_pending = c.p2_msg_pending
  /\ d.rcrrp_count = c.rcrrp_count

Alike(c, d) ==
  /\ Same(c, d)
  /\ d.security_delay_end = c.security_delay_end
  /\ d.security_attempts = c.security_attempts

\* Such contexts are interchangeable.
LEMMA CalmSame ==
  ASSUME NEW c, NEW d, NEW sid, NEW o, Same(c, d), Calm(d, sid, o)
  PROVE  Calm(c, sid, o)
BY DEF Same, Calm

\* And so in Quiet.
LEMMA QuietAlike ==
  ASSUME NEW c, NEW d, NEW sid, NEW o, Alike(c, d), Quiet(d, sid, o)
  PROVE  Quiet(c, sid, o)
BY CalmSame DEF Alike, Quiet

\* No event, no message.
LEMMA NothingSaid ==
  /\ Spoken(<<>>) = {} /\ Message(<<>>) = <<>> /\ ~KeyCompared(<<>>)
  /\ \A sid : OneReply(sid, <<>>)
BY DEF Spoken, Message, KeyCompared, OneReply

\* A single event.
LEMMA OneSaid ==
  ASSUME NEW ev, ev.k \in {"pos", "neg", "req"}
  PROVE  /\ Spoken(<<ev>>) = {1} /\ Message(<<ev>>) = <<ev>>
         /\ ~KeyCompared(<<ev>>) /\ OneReply(ev.sid, <<ev>>)
<1>1. DOMAIN <<ev>> = {1} /\ <<ev>>[1] = ev
  OBVIOUS
<1>2. Spoken(<<ev>>) = {1}
  BY <1>1 DEF Spoken
<1>3. Message(<<ev>>) = <<ev>>
  <2>1. (CHOOSE i \in {1} : TRUE) = 1
    OBVIOUS
  <2> QED
    BY <1>1, <1>2, <2>1 DEF Message
<1>4. ~KeyCompared(<<ev>>)
  BY <1>1 DEF KeyCompared
<1>5. OneReply(ev.sid, <<ev>>)
  BY <1>1, <1>2 DEF OneReply
<1> QED
  BY <1>2, <1>3, <1>4, <1>5

\* So is a return without an answer.
LEMMA QuietSilence ==
  ASSUME NEW c \in Ctx, NEW sid
  PROVE  Quiet(c, sid, Outcome(c, <<>>))
BY NothingSaid DEF Outcome, OutcomeType, Returns, Quiet, Calm

\* A positive response is quiet.
LEMMA QuietResponse ==
  ASSUME NEW c \in Ctx, NEW sid \in Byte, NEW len
  PROVE  Quiet(c, sid, uds_send_response(c, sid, len))
<1> DEFINE d == [c EXCEPT !.p2_msg_pending = FALSE, !.suppress_pos_resp = FALSE,
                          !.rcrrp_count = 0]
<1>1. 0 \in 0 .. RCRRP_MOD - 1
  BY TimingAssumption
<1>2. d \in Ctx
  BY <1>1 DEF Ctx
<1>3. Pos(sid) \in Event /\ Pos(sid).k = "pos" /\ Pos(sid).sid = sid
  BY DEF Pos, Event, EventKinds, Byte
<1>4. /\ d.active_session = c.active_session
      /\ d.security_level = c.security_level
      /\ d.pending_sid = c.pending_sid
      /\ d.client_cb = c.client_cb
      /\ d.p2_star_active = c.p2_star_active
      /\ d.p2_msg_pending = FALSE
  BY DEF Ctx
<1>5. /\ d.last_msg_time = c.last_msg_time
      /\ d.p2_timer_start = c.p2_timer_start
      /\ d.security_delay_end = c.security_delay_end
      /\ d.security_attempts = c.security_attempts
  BY DEF Ctx
<1> HIDE DEF d
<1>6. /\ OneReply(sid, <<Pos(sid)>>) /\ ~KeyCompared(<<Pos(sid)>>)
      /\ \A i \in DOMAIN <<Pos(sid)>> : <<Pos(sid)>>[i].k = "pos"
  BY <1>3, OneSaid
<1>7. Quiet(c, sid, Outcome(d, <<Pos(sid)>>))
  BY <1>2, <1>3, <1>4, <1>5, <1>6 DEF Outcome, OutcomeType, Returns, Quiet, Calm
<1>8. Quiet(c, sid, Outcome(d, <<>>))
  BY <1>2, <1>4, <1>5, NothingSaid DEF Outcome, OutcomeType, Returns, Quiet, Calm
<1>9. Quiet(c, sid, Outcome(c, <<>>))
  BY QuietSilence
<1> QED
  BY <1>7, <1>8, <1>9 DEF uds_send_response, d

\* A negative response is quiet.
LEMMA QuietNrc ==
  ASSUME NEW c \in Ctx, NEW sid \in Byte, NEW nrc \in Byte
  PROVE  Quiet(c, sid, uds_send_nrc(c, sid, nrc))
<1> DEFINE d == [c EXCEPT !.p2_msg_pending =
                   @ /\ ~(nrc # RESPONSE_PENDING /\ sid = c.pending_sid)]
<1>1. Neg(sid, nrc) \in Event /\ Neg(sid, nrc).k = "neg" /\ Neg(sid, nrc).sid = sid
  BY DEF Neg, Event, EventKinds
<1>2. d \in Ctx
  BY DEF Ctx
<1>3. /\ d.active_session = c.active_session
      /\ d.security_level = c.security_level
      /\ d.pending_sid = c.pending_sid
      /\ d.client_cb = c.client_cb
      /\ d.p2_star_active = c.p2_star_active
      /\ d.rcrrp_count = c.rcrrp_count
  BY DEF Ctx
<1>4. /\ d.last_msg_time = c.last_msg_time
      /\ d.p2_timer_start = c.p2_timer_start
      /\ d.security_delay_end = c.security_delay_end
      /\ d.security_attempts = c.security_attempts
      /\ d.p2_msg_pending => c.p2_msg_pending
  BY DEF Ctx
<1>5. /\ OneReply(sid, <<Neg(sid, nrc)>>) /\ ~KeyCompared(<<Neg(sid, nrc)>>)
      /\ \A i \in DOMAIN <<Neg(sid, nrc)>> : <<Neg(sid, nrc)>>[i].k = "neg"
  BY <1>1, OneSaid
<1>6. uds_send_nrc(c, sid, nrc) =
        IF TX_SIZE < 3 THEN Outcome(c, <<>>) ELSE Outcome(d, <<Neg(sid, nrc)>>)
  BY DEF uds_send_nrc
<1> HIDE DEF d
<1>7. Quiet(c, sid, Outcome(d, <<Neg(sid, nrc)>>))
  BY <1>1, <1>2, <1>3, <1>4, <1>5 DEF Outcome, OutcomeType, Returns, Quiet, Calm
<1>8. Quiet(c, sid, Outcome(c, <<>>))
  BY QuietSilence
<1> QED
  BY <1>6, <1>7, <1>8

\* An event put before the others.
LEMMA PrependOutcome ==
  ASSUME NEW o \in OutcomeType, NEW ev \in Event
  PROVE  LET q == Prepend(ev, o)
         IN  /\ q \in OutcomeType /\ q.ctx = o.ctx /\ q.ret = o.ret
             /\ q.out[1] = ev /\ q.out # <<>>
             /\ \A i \in DOMAIN q.out : q.out[i] = ev \/ \E j \in DOMAIN o.out : q.out[i] = o.out[j]
             /\ \A j \in DOMAIN o.out : \E i \in DOMAIN q.out : q.out[i] = o.out[j]
<1> DEFINE q == Prepend(ev, o)
           s == <<ev>> \o o.out
<1>1. o.out \in Seq(Event)
  BY DEF OutcomeType
<1>2. s \in Seq(Event) /\ s[1] = ev /\ Len(s) = Len(o.out) + 1
  BY <1>1
<1>3. \A i \in 2 .. Len(s) : s[i] = o.out[i - 1] /\ i - 1 \in DOMAIN o.out
  BY <1>1
<1>4. \A j \in DOMAIN o.out : s[j + 1] = o.out[j] /\ j + 1 \in 1 .. Len(s)
  BY <1>1
<1>5. DOMAIN s = 1 .. Len(s)
  BY <1>2
<1>6. q \in OutcomeType /\ q.ctx = o.ctx /\ q.ret = o.ret /\ q.out = s
  BY <1>2 DEF Prepend, OutcomeType
<1> HIDE DEF s, q
<1>7. \A i \in DOMAIN s : s[i] = ev \/ \E j \in DOMAIN o.out : s[i] = o.out[j]
  BY <1>1, <1>2, <1>3, <1>5
<1>8. \A j \in DOMAIN o.out : \E i \in DOMAIN s : s[i] = o.out[j]
  BY <1>4, <1>5
<1>9. s # <<>>
  BY <1>1, <1>2
<1> QED
  BY <1>2, <1>6, <1>7, <1>8, <1>9 DEF q

\* The messages are the same when what is put before them is none.
LEMMA PrependSpoken ==
  ASSUME NEW events \in Seq(Event), NEW ev \in Event, ev.k \notin {"pos", "neg", "req"}
  PROVE  LET s == <<ev>> \o events
         IN  /\ \A i \in Spoken(s) : i - 1 \in Spoken(events) /\ s[i] = events[i - 1]
             /\ \A j \in Spoken(events) : j + 1 \in Spoken(s)
             /\ \A sid : OneReply(sid, events) => OneReply(sid, s)
<1> DEFINE s == <<ev>> \o events
<1>1. s \in Seq(Event) /\ s[1] = ev /\ Len(s) = Len(events) + 1 /\ Len(events) \in Nat
  OBVIOUS
<1>2. \A i \in 2 .. Len(s) : s[i] = events[i - 1]
  OBVIOUS
<1>3. DOMAIN s = 1 .. Len(events) + 1 /\ DOMAIN events = 1 .. Len(events)
  BY <1>1
<1> HIDE DEF s
<1>4. ASSUME NEW i \in Spoken(s)
      PROVE  i \in Nat /\ i - 1 \in Spoken(events) /\ s[i] = events[i - 1]
  <2>1. i \in 1 .. Len(events) + 1 /\ s[i].k \in {"pos", "neg", "req"}
    BY <1>3 DEF Spoken
  <2>2. i # 1
    BY <1>1, <2>1
  <2>3. i \in 2 .. Len(s) /\ i - 1 \in DOMAIN events
    BY <1>1, <1>3, <2>1, <2>2
  <2> QED
    BY <1>2, <2>1, <2>3 DEF Spoken
<1>5. ASSUME NEW j \in Spoken(events)
      PROVE  j + 1 \in Spoken(s)
  <2>1. j \in 1 .. Len(events) /\ events[j].k \in {"pos", "neg", "req"}
    BY <1>3 DEF Spoken
  <2>2. j + 1 \in 2 .. Len(s) /\ (j + 1) - 1 = j /\ j + 1 \in DOMAIN s
    BY <1>1, <1>3, <2>1
  <2>3. s[j + 1] = events[j]
    BY <1>2, <2>2
  <2> QED
    BY <2>1, <2>2, <2>3 DEF Spoken
<1>6. ASSUME NEW sid, OneReply(sid, events)
      PROVE  OneReply(sid, s)
  <2>1. \A i \in Spoken(s) : i \in Nat /\ i - 1 \in Spoken(events) /\ s[i].sid = sid
    BY <1>4, <1>6 DEF OneReply
  <2>2. ASSUME NEW i \in Spoken(s), NEW j \in Spoken(s)
        PROVE  j = i
    <3>1. i \in Nat /\ j \in Nat /\ j - 1 = i - 1
      BY <1>6, <2>1 DEF OneReply
    <3> QED
      BY <3>1
  <2> QED
    BY <2>1, <2>2 DEF OneReply
<1> QED
  BY <1>4, <1>5, <1>6 DEF s

\* Calling the application before answering is quiet, unless it compares a key.
LEMMA QuietCall ==
  ASSUME NEW c, NEW o, NEW sid \in Byte, NEW v \in Byte,
         Quiet(c, sid, o), sid # SECURITY_ACCESS \/ v = 0
  PROVE  Quiet(c, sid, Prepend(Call(sid, v), o))
<1> DEFINE q == Prepend(Call(sid, v), o)
<1>1. /\ Call(sid, v) \in Event /\ Call(sid, v).k = "call"
      /\ Call(sid, v).sid = sid /\ Call(sid, v).v = v
  BY DEF Call, Event, EventKinds
<1>2. o \in OutcomeType /\ o.out \in Seq(Event) /\ OneReply(sid, o.out)
  BY DEF Quiet, Calm, OutcomeType
<1>3. q.out = <<Call(sid, v)>> \o o.out
  BY <1>2 DEF Prepend, OutcomeType
<1>4. OneReply(sid, q.out)
  BY <1>1, <1>2, <1>3, PrependSpoken
<1>5. /\ q \in OutcomeType /\ q.ctx = o.ctx /\ q.ret = o.ret
      /\ q.out[1] = Call(sid, v) /\ q.out # <<>>
      /\ \A i \in DOMAIN q.out : q.out[i] = Call(sid, v)
                                \/ \E j \in DOMAIN o.out : q.out[i] = o.out[j]
  BY <1>1, <1>2, PrependOutcome
<1> HIDE DEF q
<1>6. ~KeyCompared(q.out) /\ \A i \in DOMAIN q.out : q.out[i].k \in {"pos", "neg", "call"}
  BY <1>1, <1>5 DEF KeyCompared, Quiet, Calm
<1> QED
  BY <1>4, <1>5, <1>6 DEF Quiet, Calm, q

-----------------------------------------------------------------------------
(* The handlers that only answer *)

\* Services whose work is done by one callback are quiet.
LEMMA QuietDelegate ==
  ASSUME NEW c \in Ctx, NEW sid \in Byte, sid # SECURITY_ACCESS, NEW fn,
         NEW a \in Answer, NEW hdr
  PROVE  Quiet(c, sid, Delegate(c, sid, fn, a, hdr))
<1>1. NrcOf(a.res) \in Byte /\ 0 \in Byte
  BY NrcOfByte DEF Answer, Byte
<1> QED
  BY <1>1, QuietNrc, QuietResponse, QuietCall, Codes DEF Delegate

\* The answers of uds_send_response and uds_send_nrc are quiet.
LEMMA QuietReply ==
  ASSUME NEW c \in Ctx, NEW sid \in Byte, NEW r, NEW len
  PROVE  Quiet(c, sid, ReplyUnlessSuppressed(c, sid, r, len))
BY QuietSilence, QuietResponse DEF ReplyUnlessSuppressed

\* Noting the suppress bit changes neither session, level nor wait.
LEMMA NoteSuppressAlike ==
  ASSUME NEW c \in Ctx, NEW r
  PROVE  NoteSuppress(c, r) \in Ctx /\ Alike(c, NoteSuppress(c, r))
BY DEF NoteSuppress, Ctx, Alike, Same

\* 0x3E is quiet.
LEMMA QuietTesterPresent ==
  ASSUME NEW c \in Ctx, NEW r \in Request, NEW a \in Answer, NEW t \in Time
  PROVE  Quiet(c, TESTER_PRESENT, handle_tester_present(c, r, a, t))
BY QuietNrc, QuietResponse, Codes DEF handle_tester_present

\* 0x29 is quiet.
LEMMA QuietAuthentication ==
  ASSUME NEW c \in Ctx, NEW r \in Request, NEW a \in Answer, NEW t \in Time
  PROVE  Quiet(c, AUTHENTICATION, handle_authentication(c, r, a, t))
<1>1. AUTHENTICATION # SECURITY_ACCESS
  BY DEF AUTHENTICATION, SECURITY_ACCESS
<1> QED
  BY <1>1, QuietNrc, QuietDelegate, Codes DEF handle_authentication

\* 0x11 is quiet.
LEMMA QuietEcuReset ==
  ASSUME NEW c \in Ctx, NEW r \in Request, NEW a \in Answer, NEW t \in Time
  PROVE  Quiet(c, ECU_RESET, handle_ecu_reset(c, r, a, t))
<1> DEFINE d == NoteSuppress(c, r)
           o == ReplyUnlessSuppressed(d, ECU_RESET, r, 2)
<1>1. Quiet(c, ECU_RESET, o)
  BY NoteSuppressAlike, QuietReply, QuietAlike, Codes
<1>2. Quiet(c, ECU_RESET, Prepend(Call(ECU_RESET, Sub(r)), o))
  BY <1>1, QuietCall, SubRange, Codes DEF ECU_RESET, SECURITY_ACCESS
<1>3. \A n \in Byte : Quiet(c, ECU_RESET, uds_send_nrc(c, ECU_RESET, n))
  BY QuietNrc, Codes
<1> QED
  BY <1>1, <1>2, <1>3, Codes DEF handle_ecu_reset

\* 0x28 is quiet: comm_state is none of the fields that matter.
LEMMA QuietCommControl ==
  ASSUME NEW c \in Ctx, NEW r \in Request, NEW a \in Answer, NEW t \in Time
  PROVE  Quiet(c, COMM_CONTROL, handle_comm_control(c, r, a, t))
<1> DEFINE d == NoteSuppress(c, r)
           e == [d EXCEPT !.comm_state = Sub(r)]
           refuse == uds_send_nrc(d, COMM_CONTROL, NrcOf(a.res))
           accept == ReplyUnlessSuppressed(e, COMM_CONTROL, r, 2)
<1>1. d \in Ctx /\ Alike(c, d)
  BY NoteSuppressAlike
<1>2. NrcOf(a.res) \in Byte
  BY NrcOfByte DEF Answer
<1>3. Quiet(c, COMM_CONTROL, refuse)
  BY <1>1, <1>2, QuietNrc, QuietAlike, Codes
<1>4. Quiet(c, COMM_CONTROL, Prepend(Call(COMM_CONTROL, Sub(r)), refuse))
  BY <1>3, QuietCall, SubRange, Codes DEF COMM_CONTROL, SECURITY_ACCESS
<1>5. ASSUME Sub(r) <= 5
      PROVE  Quiet(c, COMM_CONTROL, accept)
  <2>1. e \in Ctx
    BY <1>1, <1>5, SubRange DEF Ctx
  <2>2. Alike(c, e)
    BY <1>1 DEF Alike, Same, Ctx
  <2> QED
    BY <2>1, <2>2, QuietReply, QuietAlike, Codes
<1>6. ASSUME Sub(r) <= 5
      PROVE  Quiet(c, COMM_CONTROL, Prepend(Call(COMM_CONTROL, Sub(r)), accept))
  BY <1>5, <1>6, QuietCall, SubRange, Codes DEF COMM_CONTROL, SECURITY_ACCESS
<1>7. \A n \in Byte : Quiet(c, COMM_CONTROL, uds_send_nrc(c, COMM_CONTROL, n))
  BY QuietNrc, Codes
<1>8. Sub(r) > 5 \/ Sub(r) <= 5
  BY SubRange
<1> QED
  BY <1>3, <1>4, <1>5, <1>6, <1>7, <1>8, Codes DEF handle_comm_control

\* 0x14 is quiet.
LEMMA QuietClearDtc ==
  ASSUME NEW c \in Ctx, NEW r \in Request, NEW a \in Answer, NEW t \in Time
  PROVE  Quiet(c, CLEAR_DTC, handle_clear_dtc(c, r, a, t))
<1>1. NrcOf(a.res) \in Byte /\ 0 \in Byte /\ CLEAR_DTC # SECURITY_ACCESS
  BY NrcOfByte DEF Answer, Byte, CLEAR_DTC, SECURITY_ACCESS
<1> QED
  BY <1>1, QuietNrc, QuietResponse, QuietCall, Codes DEF handle_clear_dtc

\* 0x19 is quiet.
LEMMA QuietReadDtcInfo ==
  ASSUME NEW c \in Ctx, NEW r \in Request, NEW a \in Answer, NEW t \in Time
  PROVE  Quiet(c, READ_DTC_INFO, handle_read_dtc_info(c, r, a, t))
<1> DEFINE d == NoteSuppress(c, r)
<1>1. d \in Ctx /\ Alike(c, d) /\ NrcOf(a.res) \in Byte
  BY NoteSuppressAlike, NrcOfByte DEF Answer
<1>2. Quiet(c, READ_DTC_INFO, uds_send_nrc(d, READ_DTC_INFO, NrcOf(a.res)))
  BY <1>1, QuietNrc, QuietAlike, Codes
<1>3. Quiet(c, READ_DTC_INFO, ReplyUnlessSuppressed(d, READ_DTC_INFO, r, a.res + 2))
  BY <1>1, QuietReply, QuietAlike, Codes
<1>4. \A n \in Byte : Quiet(c, READ_DTC_INFO, uds_send_nrc(c, READ_DTC_INFO, n))
  BY QuietNrc, Codes
<1>5. \A o : Quiet(c, READ_DTC_INFO, o) => Quiet(c, READ_DTC_INFO, Prepend(Call(READ_DTC_INFO, Sub(r)), o))
  BY QuietCall, SubRange, Codes DEF READ_DTC_INFO, SECURITY_ACCESS
<1> QED
  BY <1>2, <1>3, <1>4, <1>5, Codes DEF handle_read_dtc_info

\* 0x85 is quiet.
LEMMA QuietControlDtcSetting ==
  ASSUME NEW c \in Ctx, NEW r \in Request, NEW a \in Answer, NEW t \in Time
  PROVE  Quiet(c, CONTROL_DTC_SETTING, handle_control_dtc_setting(c, r, a, t))
<1>1. Quiet(c, CONTROL_DTC_SETTING, uds_send_response(NoteSuppress(c, r), CONTROL_DTC_SETTING, 2))
  BY NoteSuppressAlike, QuietResponse, QuietAlike, Codes
<1> QED
  BY <1>1, QuietNrc, Codes DEF handle_control_dtc_setting

\* What the lookup of an identifier refuses with is a byte.
LEMMA DidNrcByte ==
  ASSUME NEW c \in Ctx, NEW did, NEW used, NEW a \in Answer
  PROVE  DidNrc(c, did, used, a) \in Byte
<1>1. NrcOf(a.res) \in Byte /\ 0 \in Byte
  BY NrcOfByte DEF Answer, Byte
<1> QED
  BY <1>1, Codes DEF DidNrc

\* 0x22 is quiet.
LEMMA QuietReadDataById ==
  ASSUME NEW c \in Ctx, NEW r \in Request, NEW a \in Answer, NEW t \in Time
  PROVE  Quiet(c, READ_DATA_BY_ID, handle_read_data_by_id(c, r, a, t))
BY DidNrcByte, QuietNrc, QuietResponse, Codes DEF handle_read_data_by_id

\* 0x2E is quiet.
LEMMA QuietWriteDataById ==
  ASSUME NEW c \in Ctx, NEW r \in Request, NEW a \in Answer, NEW t \in Time
  PROVE  Quiet(c, WRITE_DATA_BY_ID, handle_write_data_by_id(c, r, a, t))
<1>1. 0 \in Byte /\ WRITE_DATA_BY_ID # SECURITY_ACCESS
  BY DEF Byte, WRITE_DATA_BY_ID, SECURITY_ACCESS
<1> QED
  BY <1>1, QuietNrc, QuietResponse, QuietCall, Codes DEF handle_write_data_by_id

\* 0x2F is quiet.
LEMMA QuietIoControl ==
  ASSUME NEW c \in Ctx, NEW r \in Request, NEW a \in Answer, NEW t \in Time
  PROVE  Quiet(c, IO_CONTROL_BY_ID, handle_io_control(c, r, a, t))
<1>1. IO_CONTROL_BY_ID # SECURITY_ACCESS
  BY DEF IO_CONTROL_BY_ID, SECURITY_ACCESS
<1> QED
  BY <1>1, QuietNrc, QuietDelegate, Codes DEF handle_io_control

\* 0x23 is quiet.
LEMMA QuietReadMemory ==
  ASSUME NEW c \in Ctx, NEW r \in Request, NEW a \in Answer, NEW t \in Time
  PROVE  Quiet(c, READ_MEM_BY_ADDR, handle_read_memory_by_addr(c, r, a, t))
<1>1. NrcOf(a.res) \in Byte /\ 0 \in Byte /\ READ_MEM_BY_ADDR # SECURITY_ACCESS
  BY NrcOfByte DEF Answer, Byte, READ_MEM_BY_ADDR, SECURITY_ACCESS
<1> QED
  BY <1>1, QuietNrc, QuietResponse, QuietCall, Codes DEF handle_read_memory_by_addr

\* 0x3D is quiet.
LEMMA QuietWriteMemory ==
  ASSUME NEW c \in Ctx, NEW r \in Request, NEW a \in Answer, NEW t \in Time
  PROVE  Quiet(c, WRITE_MEM_BY_ADDR, handle_write_memory_by_addr(c, r, a, t))
<1>1. NrcOf(a.res) \in Byte /\ 0 \in Byte /\ WRITE_MEM_BY_ADDR # SECURITY_ACCESS
  BY NrcOfByte DEF Answer, Byte, WRITE_MEM_BY_ADDR, SECURITY_ACCESS
<1> QED
  BY <1>1, QuietNrc, QuietResponse, QuietCall, Codes DEF handle_write_memory_by_addr

\* 0x31 is quiet.
LEMMA QuietRoutineControl ==
  ASSUME NEW c \in Ctx, NEW r \in Request, NEW a \in Answer, NEW t \in Time
  PROVE  Quiet(c, ROUTINE_CONTROL, handle_routine_control(c, r, a, t))
<1>1. ROUTINE_CONTROL # SECURITY_ACCESS
  BY DEF ROUTINE_CONTROL, SECURITY_ACCESS
<1> QED
  BY <1>1, QuietNrc, QuietDelegate, Codes DEF handle_routine_control

\* The block counter is none of the fields that matter.
LEMMA SequenceAlike ==
  ASSUME NEW c \in Ctx, NEW n \in Byte
  PROVE  /\ [c EXCEPT !.flash_sequence = n] \in Ctx
         /\ Alike(c, [c EXCEPT !.flash_sequence = n])
BY DEF Ctx, Alike, Same

\* The common tail of 0x34 and 0x35 is quiet.
LEMMA QuietStartTransfer ==
  ASSUME NEW c \in Ctx, NEW sid \in Byte, sid # SECURITY_ACCESS, NEW fn,
         NEW a \in Answer
  PROVE  Quiet(c, sid, StartTransfer(c, sid, fn, a))
<1>1. NrcOf(a.res) \in Byte /\ 0 \in Byte
  BY NrcOfByte DEF Answer, Byte
<1>2. Quiet(c, sid, uds_send_response([c EXCEPT !.flash_sequence = 0], sid, 6))
  BY <1>1, SequenceAlike, QuietResponse, QuietAlike
<1> QED
  BY <1>1, <1>2, QuietNrc, QuietCall, Codes DEF StartTransfer

\* 0x34, 0x35 and 0x37 are quiet.
LEMMA QuietTransfers ==
  ASSUME NEW c \in Ctx, NEW r \in Request, NEW a \in Answer, NEW t \in Time
  PROVE  /\ Quiet(c, REQUEST_DOWNLOAD, handle_request_download(c, r, a, t))
         /\ Quiet(c, REQUEST_UPLOAD, handle_request_upload(c, r, a, t))
         /\ Quiet(c, TRANSFER_EXIT, handle_request_transfer_exit(c, r, a, t))
<1>1. /\ REQUEST_DOWNLOAD # SECURITY_ACCESS /\ REQUEST_UPLOAD # SECURITY_ACCESS
      /\ TRANSFER_EXIT # SECURITY_ACCESS
  BY DEF REQUEST_DOWNLOAD, REQUEST_UPLOAD, TRANSFER_EXIT, SECURITY_ACCESS
<1>2. NrcOf(a.res) \in Byte /\ 0 \in Byte
  BY NrcOfByte DEF Answer, Byte
<1>3. Quiet(c, REQUEST_DOWNLOAD, handle_request_download(c, r, a, t))
  BY <1>1, QuietNrc, QuietStartTransfer, Codes DEF handle_request_download
<1>4. Quiet(c, REQUEST_UPLOAD, handle_request_upload(c, r, a, t))
  BY <1>1, QuietNrc, QuietStartTransfer, Codes DEF handle_request_upload
<1>5. Quiet(c, TRANSFER_EXIT, handle_request_transfer_exit(c, r, a, t))
  BY <1>1, <1>2, QuietNrc, QuietResponse, QuietCall, Codes
     DEF handle_request_transfer_exit
<1> QED
  BY <1>3, <1>4, <1>5

\* 0x36 is quiet.
LEMMA QuietTransferData ==
  ASSUME NEW c \in Ctx, NEW r \in Request, NEW a \in Answer, NEW t \in Time
  PROVE  Quiet(c, TRANSFER_DATA, handle_transfer_data(c, r, a, t))
<1>1. r.b1 \in Byte /\ NrcOf(a.res) \in Byte /\ TRANSFER_DATA # SECURITY_ACCESS
  BY NrcOfByte DEF Answer, Request, TRANSFER_DATA, SECURITY_ACCESS
<1>2. Quiet(c, TRANSFER_DATA, uds_send_response([c EXCEPT !.flash_sequence = r.b1], TRANSFER_DATA, 2))
  BY <1>1, SequenceAlike, QuietResponse, QuietAlike, Codes
<1>3. /\ Quiet(c, TRANSFER_DATA, uds_send_response(c, TRANSFER_DATA, 2))
      /\ \A n \in Byte : Quiet(c, TRANSFER_DATA, uds_send_nrc(c, TRANSFER_DATA, n))
  BY QuietResponse, QuietNrc, Codes
<1>4. \A o : Quiet(c, TRANSFER_DATA, o) => Quiet(c, TRANSFER_DATA, Prepend(Call(TRANSFER_DATA, r.b1), o))
  BY <1>1, QuietCall, Codes
<1> QED
  BY <1>1, <1>2, <1>3, <1>4, Codes DEF handle_transfer_data

\* The answer of 0x2A is quiet.
LEMMA QuietPeriodic ==
  ASSUME NEW c \in Ctx, NEW p, NEW r, NEW t
  PROVE  Quiet(c, READ_BY_PER_ID, handle_periodic(c, p, r, t))
<1>1. PeriodicNrc(p, r, t) \in Byte
  BY Codes DEF PeriodicNrc, Byte
<1> QED
  BY <1>1, QuietNrc, QuietResponse, Codes DEF handle_periodic

-----------------------------------------------------------------------------
(* Every request *)

\* What any call may do to session, level and NVM: what is saved is the pair
\* in force afterwards, a level appears only through an accepted key, and a
\* change that is not saved is a fall back to the locked default session.
Guarded(c, a, o) ==
  /\ \A i \in DOMAIN o.out : o.out[i].k = "save" =>
        /\ o.out[i] = Save(o.ctx.active_session, o.ctx.security_level)
        /\ "fn_nvm_save" \in Callbacks
  /\ \/ o.ctx.security_level = 0
     \/ /\ o.ctx.active_session = c.active_session
        /\ o.ctx.security_level = c.security_level \/ KeyGranted(o.out, a)
  /\ KeyGranted(o.out, a) =>
        /\ o.ctx.active_session = c.active_session
        /\ o.ctx.security_level = o.out[1].v
        /\ "fn_nvm_save" \in Callbacks =>
              \E i \in DOMAIN o.out : o.out[i].k = "save"
  /\ "fn_nvm_save" \in Callbacks =>
        \/ \E i \in DOMAIN o.out : o.out[i].k = "save"
        \/ /\ o.ctx.active_session = c.active_session
           /\ o.ctx.security_level = c.security_level
        \/ o.ctx.active_session = DEFAULT /\ o.ctx.security_level = 0

\* What any call may do to the wait: keep it as it was, end it, or begin one
\* for the request just handed to the application.  A client request takes
\* pending_sid over, and client_cb tells.
Waits(c, r, o) ==
  o.ctx.p2_msg_pending /\ ~o.ctx.client_cb =>
    \/ /\ c.p2_msg_pending /\ ~c.client_cb /\ o.ctx.pending_sid = c.pending_sid
       /\ c.p2_star_active => o.ctx.p2_star_active
    \/ o.ret = "pending" /\ o.ctx.pending_sid = r.sid /\ o.ctx.p2_star_active

Safe(c, r, a, o) == o \in OutcomeType /\ Guarded(c, a, o) /\ Waits(c, r, o)

\* A calm outcome is safe.
LEMMA CalmSafe ==
  ASSUME NEW c \in Ctx, NEW sid, NEW r, NEW a, NEW o, Calm(c, sid, o)
  PROVE  Safe(c, r, a, o) /\ o.ret = "done"
BY DEF Calm, Safe, Guarded, Waits, KeyGranted

\* So is a quiet one.
LEMMA QuietSafe ==
  ASSUME NEW c \in Ctx, NEW sid, NEW r, NEW a, NEW o, Quiet(c, sid, o)
  PROVE  Safe(c, r, a, o) /\ o.ret = "done"
BY CalmSafe DEF Quiet

\* Safety only depends on the fields that Same compares.
LEMMA SafeSame ==
  ASSUME NEW c, NEW d, NEW r, NEW a, NEW o, Same(c, d), Safe(d, r, a, o)
  PROVE  Safe(c, r, a, o)
BY DEF Same, Safe, Guarded, Waits

\* 0x10 locks the server unless it re-enters the same non-default session.
LEMMA SafeSessionControl ==
  ASSUME NEW c \in Ctx, NEW r \in Request, NEW a \in Answer, NEW t \in Time
  PROVE  Safe(c, r, a, handle_session_control(c, r, a, t)) /\ handle_session_control(c, r, a, t).ret = "done"
<1>1. CASE Sub(r) \notin Sessions
  BY <1>1, QuietNrc, QuietSafe, Codes DEF handle_session_control
<1>2. CASE Sub(r) \in Sessions
  <2> DEFINE level == IF c.active_session # Sub(r) \/ Sub(r) = DEFAULT THEN 0
                      ELSE c.security_level
             d == [c EXCEPT !.security_level = level, !.active_session = Sub(r)]
             o == uds_send_response(d, SESSION_CONTROL, 6)
             q == Postpone(o, Save(Sub(r), level))
  <2>1. level \in 0 .. 63 /\ (level # 0 => level = c.security_level
                                          /\ Sub(r) = c.active_session)
    BY DEF Ctx
  <2> HIDE DEF level
  <2>2. /\ d \in Ctx /\ d.security_level = level /\ d.active_session = Sub(r)
        /\ d.p2_msg_pending = c.p2_msg_pending /\ d.pending_sid = c.pending_sid
        /\ d.client_cb = c.client_cb /\ d.p2_star_active = c.p2_star_active
    BY <1>2, <2>1 DEF Ctx
  <2>3. handle_session_control(c, r, a, t) =
          IF "fn_nvm_save" \in Callbacks THEN q ELSE o
    BY <1>2, <2>2 DEF handle_session_control, level
  <2> HIDE DEF d
  <2>4. Quiet(d, SESSION_CONTROL, o)
    BY <2>2, QuietResponse, Codes
  <2> HIDE DEF o
  <2>5. Waits(c, r, o)
    BY <2>2, <2>4 DEF Quiet, Calm, Waits
  <2>6. Save(Sub(r), level) \in Event /\ Save(Sub(r), level).k = "save"
    BY <1>2, <2>1 DEF Save, Event, EventKinds, Byte, Sessions
  <2>7. o.out \in Seq(Event) /\ o.ctx.active_session = Sub(r)
          /\ o.ctx.security_level = level
    BY <2>2, <2>4 DEF Quiet, Calm, OutcomeType
  <2>8. /\ q \in OutcomeType /\ q.ctx = o.ctx /\ q.ret = o.ret
        /\ q.out = Append(o.out, Save(Sub(r), level))
    BY <2>4, <2>6, <2>7 DEF Quiet, Calm, Postpone, OutcomeType
  <2> HIDE DEF q
  <2>9. ~KeyCompared(q.out)
    BY <2>4, <2>6, <2>7, <2>8 DEF Quiet, Calm, KeyCompared
  <2>10. \A i \in DOMAIN q.out : q.out[i].k = "save" => q.out[i] = Save(Sub(r), level)
    BY <2>4, <2>6, <2>7, <2>8 DEF Quiet, Calm
  <2>11. \E i \in DOMAIN q.out : q.out[i].k = "save"
    <3>1. Len(q.out) \in DOMAIN q.out /\ q.out[Len(q.out)] = Save(Sub(r), level)
      BY <2>6, <2>7, <2>8
    <3> QED
      BY <2>6, <3>1
  <2>12. ASSUME "fn_nvm_save" \in Callbacks PROVE Guarded(c, a, q)
    BY <2>1, <2>7, <2>8, <2>9, <2>10, <2>11, <2>12 DEF Guarded, KeyGranted
  <2>13. ASSUME "fn_nvm_save" \notin Callbacks PROVE Guarded(c, a, o)
    BY <2>1, <2>4, <2>7, <2>13 DEF Guarded, KeyGranted, Quiet, Calm
  <2>14. Waits(c, r, q)
    BY <2>5, <2>8 DEF Waits
  <2> QED
    BY <2>3, <2>4, <2>5, <2>8, <2>12, <2>13, <2>14 DEF Safe, Quiet, Calm
<1> QED
  BY <1>1, <1>2

\* The level of a key request is compared first, and what the comparison
\* leads to is safe.
LEMMA SafeSendKey ==
  ASSUME NEW c \in Ctx, NEW r \in Request, NEW a \in Answer, NEW t \in Time
  PROVE  Safe(c, r, a, SendKey(c, r, a, t)) /\ SendKey(c, r, a, t).ret = "done"
<1> DEFINE v == Sub(r) \div 2
           call == Call(SECURITY_ACCESS, v)
<1>1. v \in 0 .. 63 /\ v \in Byte
  BY SubRange DEF Byte
<1> HIDE DEF v
<1>2. call \in Event /\ call.k = "call" /\ call.sid = SECURITY_ACCESS /\ call.v = v
  BY <1>1, Codes DEF Call, Event, EventKinds
<1> HIDE DEF call
<1>3. CASE "fn_security_key" \notin Callbacks
  BY <1>3, QuietNrc, QuietSafe, Codes DEF SendKey
<1>4. CASE "fn_security_key" \in Callbacks /\ a.res # 0
  <2> DEFINE o == KeyRejected(c, r, a, t)
             q == Prepend(call, o)
  <2>1. Calm(c, SECURITY_ACCESS, o)
    <3> DEFINE n == (c.security_attempts + 1) % ATTEMPTS_MOD
               d == [c EXCEPT !.security_attempts = n]
               e == [d EXCEPT !.security_delay_end = (t + SEC_DELAY) % TIME_MOD]
    <3>1. n \in 0 .. ATTEMPTS_MOD - 1 /\ (t + SEC_DELAY) % TIME_MOD \in Time
      BY TimingAssumption DEF Ctx, Time
    <3> HIDE DEF n
    <3>2. d \in Ctx /\ Same(c, d)
      BY <3>1 DEF Ctx, Same
    <3> HIDE DEF d
    <3>3. e \in Ctx /\ Same(c, e)
      BY <3>1, <3>2 DEF Ctx, Same
    <3> HIDE DEF e
    <3>4. NrcOf(a.res) \in Byte
      BY NrcOfByte DEF Answer
    <3>5. \A m \in Byte : /\ Calm(c, SECURITY_ACCESS, uds_send_nrc(d, SECURITY_ACCESS, m))
                          /\ Calm(c, SECURITY_ACCESS, uds_send_nrc(e, SECURITY_ACCESS, m))
      BY <3>2, <3>3, QuietNrc, CalmSame, Codes DEF Quiet
    <3>6. \/ o = uds_send_nrc(e, SECURITY_ACCESS, EXCEEDED_ATTEMPTS)
          \/ o = uds_send_nrc(d, SECURITY_ACCESS,
                              IF a.res < 0 THEN NrcOf(a.res) ELSE INVALID_KEY)
      BY DEF KeyRejected, n, d, e
    <3> QED
      BY <3>4, <3>5, <3>6, Codes
  <2> HIDE DEF o
  <2>2. /\ q \in OutcomeType /\ q.ctx = o.ctx /\ q.ret = o.ret
        /\ \A i \in DOMAIN q.out : q.out[i] = call
                                  \/ \E j \in DOMAIN o.out : q.out[i] = o.out[j]
    BY <1>2, <2>1, PrependOutcome DEF Quiet, Calm
  <2> HIDE DEF q
  <2>3. \A i \in DOMAIN q.out : q.out[i].k # "save"
    BY <1>2, <2>1, <2>2 DEF Quiet, Calm
  <2>4. SendKey(c, r, a, t) = q
    BY <1>4 DEF SendKey, q, o, call, v
  <2> QED
    BY <1>4, <2>1, <2>2, <2>3, <2>4 DEF Quiet, Calm, Safe, Guarded, Waits, KeyGranted
<1>5. CASE "fn_security_key" \in Callbacks /\ a.res = 0
  <2> DEFINE d == [c EXCEPT !.security_attempts = 0, !.security_level = v]
             o == uds_send_response(d, SECURITY_ACCESS, 2)
             save == Save(c.active_session, v)
             k == KeyAccepted(c, r)
             q == Prepend(call, k)
  <2>1. /\ d \in Ctx /\ d.security_level = v /\ d.active_session = c.active_session
        /\ d.p2_msg_pending = c.p2_msg_pending /\ d.pending_sid = c.pending_sid
        /\ d.client_cb = c.client_cb /\ d.p2_star_active = c.p2_star_active
    <3>1. 0 \in 0 .. ATTEMPTS_MOD - 1
      BY TimingAssumption
    <3> QED
      BY <1>1, <3>1 DEF Ctx
  <2>2. k = IF "fn_nvm_save" \in Callbacks THEN Prepend(save, o) ELSE o
    BY <2>1 DEF KeyAccepted, v
  <2> HIDE DEF d
  <2>3. Quiet(d, SECURITY_ACCESS, o)
    BY <2>1, QuietResponse, Codes
  <2> HIDE DEF o
  <2>4. save \in Event /\ save.k = "save"
    BY <1>1 DEF Save, Event, EventKinds, Byte, Sessions, Ctx
  <2> HIDE DEF save
  <2>5. /\ o \in OutcomeType
        /\ \A i \in DOMAIN o.out : o.out[i].k # "save"
    BY <2>3 DEF Quiet, Calm
  <2>6. k \in OutcomeType /\ k.ctx = o.ctx /\ k.ret = o.ret
    BY <2>2, <2>4, <2>5, PrependOutcome
  <2>7. /\ \A i \in DOMAIN k.out : k.out[i].k = "save" =>
             k.out[i] = save /\ "fn_nvm_save" \in Callbacks
        /\ "fn_nvm_save" \in Callbacks => \E i \in DOMAIN k.out : k.out[i].k = "save"
    <3>1. CASE "fn_nvm_save" \in Callbacks
      <4>1. /\ k.out[1] = save /\ k.out # <<>> /\ k.out \in Seq(Event)
            /\ \A i \in DOMAIN k.out : k.out[i] = save
                                      \/ \E j \in DOMAIN o.out : k.out[i] = o.out[j]
        BY <2>2, <2>4, <2>5, <2>6, <3>1, PrependOutcome DEF OutcomeType
      <4>2. 1 \in DOMAIN k.out
        BY <4>1
      <4> QED
        BY <2>4, <2>5, <3>1, <4>1, <4>2
    <3>2. CASE "fn_nvm_save" \notin Callbacks
      BY <2>2, <2>5, <3>2
    <3> QED
      BY <3>1, <3>2
  <2> HIDE DEF k
  <2>8. /\ q \in OutcomeType /\ q.ctx = o.ctx /\ q.ret = o.ret
        /\ q.out[1] = call /\ q.out # <<>>
        /\ \A i \in DOMAIN q.out : q.out[i] = call
                                  \/ \E j \in DOMAIN k.out : q.out[i] = k.out[j]
        /\ \A j \in DOMAIN k.out : \E i \in DOMAIN q.out : q.out[i] = k.out[j]
    BY <1>2, <2>6, PrependOutcome
  <2> HIDE DEF q
  <2>9. /\ \A i \in DOMAIN q.out : q.out[i].k = "save" =>
             q.out[i] = save /\ "fn_nvm_save" \in Callbacks
        /\ q.out[1] = call
    BY <1>2, <2>7, <2>8
  <2>10. ASSUME "fn_nvm_save" \in Callbacks
         PROVE  \E i \in DOMAIN q.out : q.out[i].k = "save"
    BY <2>7, <2>8, <2>10
  <2>11. /\ q.ctx.active_session = c.active_session /\ q.ctx.security_level = v
         /\ save = Save(q.ctx.active_session, q.ctx.security_level)
         /\ Waits(c, r, q)
    BY <2>1, <2>3, <2>8 DEF Quiet, Calm, Waits, save
  <2>12. KeyGranted(q.out, a) => q.out[1].v = v
    BY <1>2, <2>9
  <2>13. q.ctx.security_level = 0 \/ KeyGranted(q.out, a)
    BY <1>1, <1>2, <1>5, <2>6, <2>8, <2>9, <2>11 DEF KeyGranted, KeyCompared
  <2>14. Guarded(c, a, q)
    BY <2>9, <2>10, <2>11, <2>12, <2>13 DEF Guarded
  <2>15. SendKey(c, r, a, t) = q
    BY <1>5 DEF SendKey, q, k, call, v
  <2> QED
    BY <2>3, <2>8, <2>11, <2>14, <2>15 DEF Safe, Quiet, Calm
<1> QED
  BY <1>3, <1>4, <1>5

\* 0x27 unlocks only by a key that fn_security_key accepts.
LEMMA SafeSecurityAccess ==
  ASSUME NEW c \in Ctx, NEW r \in Request, NEW a \in Answer, NEW t \in Time
  PROVE  Safe(c, r, a, handle_security_access(c, r, a, t)) /\ handle_security_access(c, r, a, t).ret = "done"
<1> DEFINE d == [c EXCEPT !.security_delay_end = 0]
<1>1. d \in Ctx /\ Same(c, d)
  BY TimingAssumption DEF Ctx, Same, Time
<1> HIDE DEF d
<1>2. NrcOf(a.res) \in Byte
  BY NrcOfByte DEF Answer
<1>3. Quiet(d, SECURITY_ACCESS, RequestSeed(d, r, a))
  BY <1>1, <1>2, QuietNrc, QuietResponse, Codes DEF RequestSeed
<1>4. /\ Safe(c, r, a, RequestSeed(d, r, a)) /\ RequestSeed(d, r, a).ret = "done"
      /\ Safe(c, r, a, SendKey(d, r, a, t)) /\ SendKey(d, r, a, t).ret = "done"
  BY <1>1, <1>3, QuietSafe, SafeSendKey, SafeSame
<1>5. \A n \in Byte : /\ Safe(c, r, a, uds_send_nrc(c, SECURITY_ACCESS, n))
                      /\ uds_send_nrc(c, SECURITY_ACCESS, n).ret = "done"
  BY QuietNrc, QuietSafe, Codes
<1> QED
  BY <1>4, <1>5, Codes DEF handle_security_access, d

\* The core handlers are quiet, except for 0x10 and 0x27.
LEMMA CoreCases ==
  ASSUME NEW c \in Ctx, NEW p, NEW r \in Request, NEW a \in Answer, NEW t \in Time,
         \E e \in core_services : e.sid = r.sid
  PROVE  LET o == core_handler(c, p, r, a, t)
         IN  \/ Quiet(c, r.sid, o) /\ r.sid # SECURITY_ACCESS
             \/ r.sid = SESSION_CONTROL /\ o = handle_session_control(c, r, a, t)
             \/ r.sid = SECURITY_ACCESS /\ o = handle_security_access(c, r, a, t)
<1> DEFINE o == core_handler(c, p, r, a, t)
<1>1. r.sid \in {SESSION_CONTROL, ECU_RESET, CLEAR_DTC, READ_DTC_INFO,
      READ_DATA_BY_ID, READ_MEM_BY_ADDR, SECURITY_ACCESS, COMM_CONTROL,
      AUTHENTICATION, READ_BY_PER_ID, WRITE_DATA_BY_ID, IO_CONTROL_BY_ID,
      ROUTINE_CONTROL, REQUEST_DOWNLOAD, REQUEST_UPLOAD, TRANSFER_DATA,
      TRANSFER_EXIT, WRITE_MEM_BY_ADDR, TESTER_PRESENT, CONTROL_DTC_SETTING}
  BY DEF core_services, CoreService
<1>2. CASE r.sid = SESSION_CONTROL
  <2>1. o = handle_session_control(c, r, a, t)
    BY <1>2 DEF core_handler, SESSION_CONTROL, ECU_RESET, CLEAR_DTC, READ_DTC_INFO, READ_DATA_BY_ID,
      READ_MEM_BY_ADDR, SECURITY_ACCESS, COMM_CONTROL, AUTHENTICATION,
      READ_BY_PER_ID, WRITE_DATA_BY_ID, IO_CONTROL_BY_ID, ROUTINE_CONTROL,
      REQUEST_DOWNLOAD, REQUEST_UPLOAD, TRANSFER_DATA, TRANSFER_EXIT,
      WRITE_MEM_BY_ADDR, TESTER_PRESENT, CONTROL_DTC_SETTING
  <2> QED
    BY <1>2, <2>1
<1>3. CASE r.sid = SECURITY_ACCESS
  <2>1. o = handle_security_access(c, r, a, t)
    BY <1>3 DEF core_handler, SESSION_CONTROL, ECU_RESET, CLEAR_DTC, READ_DTC_INFO, READ_DATA_BY_ID,
      READ_MEM_BY_ADDR, SECURITY_ACCESS, COMM_CONTROL, AUTHENTICATION,
      READ_BY_PER_ID, WRITE_DATA_BY_ID, IO_CONTROL_BY_ID, ROUTINE_CONTROL,
      REQUEST_DOWNLOAD, REQUEST_UPLOAD, TRANSFER_DATA, TRANSFER_EXIT,
      WRITE_MEM_BY_ADDR, TESTER_PRESENT, CONTROL_DTC_SETTING
  <2> QED
    BY <1>3, <2>1
<1>4. CASE r.sid \notin {SESSION_CONTROL, SECURITY_ACCESS}
  <2>1. Quiet(c, r.sid, o)
    BY <1>1, <1>4, QuietTesterPresent,
       QuietAuthentication, QuietEcuReset, QuietCommControl, QuietClearDtc,
       QuietReadDtcInfo, QuietControlDtcSetting, QuietReadDataById,
       QuietWriteDataById, QuietIoControl, QuietReadMemory, QuietWriteMemory,
       QuietRoutineControl, QuietTransfers, QuietTransferData, QuietPeriodic
    DEF core_handler
  <2> QED
    BY <1>4, <2>1
<1> QED
  BY <1>2, <1>3, <1>4

\* A handler of the application answers, or leaves the context alone and asks
\* for time.
LEMMA UserHandler ==
  ASSUME NEW c \in Ctx, NEW r \in Request, NEW a \in Answer, NEW t \in Time
  PROVE  \/ Quiet(c, r.sid, user_handler(c, r, a, t))
         \/ /\ a.res = UDS_PENDING
            /\ user_handler(c, r, a, t) =
                 [ctx |-> c, out |-> <<Call(r.sid, 0)>>, ret |-> "pending"]
<1>0. r.sid \in Byte
  BY DEF Request
<1>1. r.sid \in Byte /\ NrcOf(a.res) \in Byte /\ 0 \in Byte
  BY <1>0, NrcOfByte DEF Answer, Byte
<1>2. \A n \in Byte : Quiet(c, r.sid, Prepend(Call(r.sid, 0), uds_send_nrc(c, r.sid, n)))
  BY <1>1, QuietNrc, QuietCall
<1>3. \A len : Quiet(c, r.sid, Prepend(Call(r.sid, 0), uds_send_response(c, r.sid, len)))
  BY <1>1, QuietResponse, QuietCall
<1> QED
  BY <1>1, <1>2, <1>3 DEF user_handler

\* Beginning to wait is safe.
LEMMA SafeAwait ==
  ASSUME NEW c \in Ctx, NEW r \in Request, NEW a \in Answer, NEW t \in Time
  PROVE  Safe(c, r, a, AwaitApplication(c, r, t, <<Call(r.sid, 0)>>))
<1> DEFINE o == uds_send_nrc(c, r.sid, RESPONSE_PENDING)
           call == Call(r.sid, 0)
           q == Prepend(call, o)
           d == [o.ctx EXCEPT !.p2_msg_pending = TRUE, !.p2_star_active = TRUE,
                              !.p2_timer_start = t, !.pending_sid = r.sid]
           w == [ctx |-> d, out |-> <<call>> \o o.out, ret |-> "pending"]
<1>1. r.sid \in Byte /\ 0 \in Byte
  BY DEF Request, Byte
<1>2. Quiet(c, r.sid, o) /\ Quiet(c, r.sid, q)
  BY <1>1, QuietNrc, QuietCall, Codes
<1>3. q.out = <<call>> \o o.out /\ q \in OutcomeType /\ o \in OutcomeType
  BY <1>2 DEF Quiet, Calm, Prepend, OutcomeType
<1>4. AwaitApplication(c, r, t, <<call>>) = w
  BY DEF AwaitApplication
<1> HIDE DEF o, q, call
<1>5. /\ d \in Ctx /\ d.active_session = o.ctx.active_session
      /\ d.security_level = o.ctx.security_level
      /\ d.p2_star_active = TRUE /\ d.pending_sid = r.sid
  BY <1>1, <1>3 DEF Ctx, OutcomeType
<1> HIDE DEF d
<1>6. w \in OutcomeType /\ w.out = q.out /\ w.ctx = d /\ w.ret = "pending"
  BY <1>3, <1>5 DEF OutcomeType, Returns
<1> HIDE DEF w
<1>7. Guarded(c, a, w) /\ Waits(c, r, w)
  BY <1>2, <1>5, <1>6 DEF Quiet, Calm, Guarded, Waits, KeyGranted
<1> QED
  BY <1>4, <1>6, <1>7 DEF Safe, call

\* The ways in which a request can be handled: by an answer that changes
\* nothing else, by 0x10, by 0x27, or by an application that asks for time.
\* The handler may find the suppress flag changed; nothing else.
RequestCase(c, r, a, t, o) ==
  \/ /\ Quiet(c, r.sid, o)
     /\ NrcOf(a.res) # EXCEEDED_ATTEMPTS =>
          ~HasSent(o.out, SECURITY_ACCESS, EXCEEDED_ATTEMPTS)
  \/ \E d \in Ctx :
       /\ Alike(c, d)
       /\ \/ r.sid = SESSION_CONTROL /\ o = handle_session_control(d, r, a, t)
          \/ /\ r.sid = SECURITY_ACCESS /\ Sub(r) # 0
             /\ o = handle_security_access(d, r, a, t)
          \/ /\ Services(r.sid) # {} /\ a.res = UDS_PENDING
             /\ o = AwaitApplication(d, r, t, <<Call(r.sid, 0)>>)

\* What a negative response has said.
LEMMA NrcSaid ==
  ASSUME NEW c, NEW sid, NEW nrc, NEW s, NEW n
  PROVE  HasSent(uds_send_nrc(c, sid, nrc).out, s, n) => s = sid /\ n = nrc
<1>1. uds_send_nrc(c, sid, nrc).out \in {<<>>, <<Neg(sid, nrc)>>}
  BY DEF uds_send_nrc, Outcome
<1>2. Neg(sid, nrc) = Neg(s, n) => s = sid /\ n = nrc
  BY DEF Neg
<1>3. \A i \in DOMAIN <<Neg(sid, nrc)>> : <<Neg(sid, nrc)>>[i] = Neg(sid, nrc)
  OBVIOUS
<1> QED
  BY <1>1, <1>2, <1>3 DEF HasSent

\* A handler that answers for another service does not announce a lockout.
LEMMA OtherSaid ==
  ASSUME NEW c, NEW sid, NEW o, Quiet(c, sid, o), sid # SECURITY_ACCESS
  PROVE  ~HasSent(o.out, SECURITY_ACCESS, EXCEEDED_ATTEMPTS)
<1> SUFFICES ASSUME NEW i \in DOMAIN o.out, o.out[i] = Neg(SECURITY_ACCESS, EXCEEDED_ATTEMPTS)
             PROVE  FALSE
  BY DEF HasSent
<1>1. o.out[i].k = "neg" /\ o.out[i].sid = SECURITY_ACCESS
  BY DEF Neg
<1>2. i \in Spoken(o.out)
  BY <1>1 DEF Spoken
<1> QED
  BY <1>1, <1>2 DEF Quiet, Calm, OneReply

\* Nor does a handler of the application, unless it chooses that code.
LEMMA UserSaid ==
  ASSUME NEW c \in Ctx, NEW r \in Request, NEW a \in Answer, NEW t \in Time,
         NrcOf(a.res) # EXCEEDED_ATTEMPTS
  PROVE  ~HasSent(user_handler(c, r, a, t).out, SECURITY_ACCESS, EXCEEDED_ATTEMPTS)
<1> DEFINE call == Call(r.sid, 0)
           x == uds_send_nrc(c, r.sid, NrcOf(a.res))
           y == uds_send_response(c, r.sid, a.res + 1)
<1>1. r.sid \in Byte /\ NrcOf(a.res) \in Byte
  BY NrcOfByte DEF Answer, Request
<1>2. call \in Event /\ call.k = "call"
  BY <1>1 DEF Call, Event, EventKinds, Byte
<1>3. x \in OutcomeType /\ y \in OutcomeType
  BY <1>1, QuietNrc, QuietResponse DEF Quiet, Calm
<1>4. \A i \in DOMAIN x.out : x.out[i] # Neg(SECURITY_ACCESS, EXCEEDED_ATTEMPTS)
  BY NrcSaid DEF HasSent
<1>5. \A i \in DOMAIN y.out : y.out[i] # Neg(SECURITY_ACCESS, EXCEEDED_ATTEMPTS)
  BY DEF uds_send_response, Outcome, Pos, Neg
<1>6. user_handler(c, r, a, t).out \in
        {<<call>>, Prepend(call, x).out, Prepend(call, y).out}
  BY DEF user_handler
<1>7. call # Neg(SECURITY_ACCESS, EXCEEDED_ATTEMPTS)
  BY DEF Call, Neg
<1> HIDE DEF call, x, y
<1>8. /\ \A i \in DOMAIN Prepend(call, x).out :
           Prepend(call, x).out[i] # Neg(SECURITY_ACCESS, EXCEEDED_ATTEMPTS)
      /\ \A i \in DOMAIN Prepend(call, y).out :
           Prepend(call, y).out[i] # Neg(SECURITY_ACCESS, EXCEEDED_ATTEMPTS)
  BY <1>2, <1>3, <1>4, <1>5, <1>7, PrependOutcome
<1>9. \A i \in DOMAIN <<call>> : <<call>>[i] = call
  OBVIOUS
<1> QED
  BY <1>6, <1>7, <1>8, <1>9 DEF HasSent

\* handle_request does one of these things, whatever the request.
LEMMA RequestCases ==
  ASSUME NEW c \in Ctx, NEW p, NEW r \in Request, NEW a \in Answer, NEW t \in Time
  PROVE  RequestCase(c, r, a, t, handle_request(c, p, r, a, t))
<1> DEFINE e == find_service(r.sid)
           d == LatchSuppress(c, e, r)
           nrc == Gate(c, e, r, a)
<1>1. d \in Ctx /\ Alike(c, d)
  <2>1. Suppressed(r) \in BOOLEAN /\ Alike(c, c)
    BY DEF Suppressed, Alike, Same
  <2>2. /\ [c EXCEPT !.suppress_pos_resp = Suppressed(r)] \in Ctx
        /\ Alike(c, [c EXCEPT !.suppress_pos_resp = Suppressed(r)])
    BY <2>1 DEF Ctx, Alike, Same
  <2> QED
    BY <2>1, <2>2 DEF LatchSuppress
<1>2. nrc \in Byte /\ r.sid \in Byte /\ nrc # EXCEEDED_ATTEMPTS
  <2>1. nrc \in Byte /\ r.sid \in Byte
    BY Codes DEF Gate, Byte, Request
  <2>2. nrc # EXCEEDED_ATTEMPTS
    BY DEF Gate, EXCEEDED_ATTEMPTS, SERVICE_NOT_SUPP_IN_SESS, INCORRECT_LENGTH,
       SUBFUNCTION_NOT_SUPPORTED, SECURITY_ACCESS_DENIED, CONDITIONS_NOT_CORRECT
  <2> QED
    BY <2>1, <2>2
<1>3. CASE ~Known(r.sid)
  <2> DEFINE o == uds_send_nrc(c, r.sid, SERVICE_NOT_SUPPORTED)
  <2>1. Quiet(c, r.sid, o)
    BY <1>2, QuietNrc, Codes
  <2>2. ~HasSent(o.out, SECURITY_ACCESS, EXCEEDED_ATTEMPTS)
    BY NrcSaid DEF EXCEEDED_ATTEMPTS, SERVICE_NOT_SUPPORTED
  <2>3. handle_request(c, p, r, a, t) = o
    BY <1>3 DEF handle_request
  <2> QED
    BY <2>1, <2>2, <2>3 DEF RequestCase
<1>4. CASE Known(r.sid) /\ nrc # 0
  <2> DEFINE o == uds_send_nrc(d, r.sid, nrc)
  <2>1. handle_request(c, p, r, a, t) = o
    BY <1>4 DEF handle_request
  <2> HIDE DEF d, nrc
  <2>2. Quiet(c, r.sid, o)
    BY <1>1, <1>2, QuietNrc, QuietAlike
  <2>3. ~HasSent(o.out, SECURITY_ACCESS, EXCEEDED_ATTEMPTS)
    BY <1>2, NrcSaid
  <2> QED
    BY <2>1, <2>2, <2>3 DEF RequestCase
<1>5. CASE Known(r.sid) /\ nrc = 0
  <2>1. handle_request(c, p, r, a, t) = execute_handler(e, d, p, r, a, t)
    BY <1>5 DEF handle_request
  <2> HIDE DEF d
  <2>2. CASE Services(r.sid) # {}
    <3>1. e \in UserServices /\ e.sid = r.sid
      BY <2>2 DEF find_service, Services
    <3>2. e.user
      BY <3>1, ConfigAssumption
    <3> HIDE DEF e
    <3> DEFINE o == user_handler(d, r, a, t)
    <3>3. CASE Quiet(d, r.sid, o)
      <4>1. o.ret = "done"
        BY <3>3 DEF Quiet, Calm
      <4>2. execute_handler(e, d, p, r, a, t) = o
        BY <3>2, <4>1 DEF execute_handler
      <4>3. NrcOf(a.res) # EXCEEDED_ATTEMPTS =>
              ~HasSent(o.out, SECURITY_ACCESS, EXCEEDED_ATTEMPTS)
        BY <1>1, UserSaid
      <4>4. Quiet(c, r.sid, o)
        BY <1>1, <3>3, QuietAlike
      <4> QED
        BY <2>1, <4>2, <4>3, <4>4 DEF RequestCase
    <3>4. CASE /\ a.res = UDS_PENDING
               /\ o = [ctx |-> d, out |-> <<Call(r.sid, 0)>>, ret |-> "pending"]
      <4>1. execute_handler(e, d, p, r, a, t)
              = AwaitApplication(d, r, t, <<Call(r.sid, 0)>>)
        BY <3>2, <3>4 DEF execute_handler
      <4> QED
        BY <1>1, <2>1, <2>2, <3>4, <4>1 DEF RequestCase
    <3> QED
      BY <1>1, <3>3, <3>4, UserHandler
  <2>3. CASE Services(r.sid) = {}
    <3>1. \E f \in core_services : f.sid = r.sid
      BY <1>5, <2>3 DEF Known, Services
    <3>2. e \in core_services /\ e.sid = r.sid
      BY <2>3, <3>1 DEF find_service
    <3>3. ~e.user
      BY <3>2 DEF core_services, CoreService
    <3>0. r.sid = SECURITY_ACCESS => Sub(r) # 0
      <4>1. is_subfunction_supported(e, r)
        BY <1>5 DEF Gate, SUBFUNCTION_NOT_SUPPORTED, SERVICE_NOT_SUPP_IN_SESS, INCORRECT_LENGTH
      <4> HIDE DEF e
      <4>2. r.sid = SECURITY_ACCESS => e.subs = 1 .. 127
        BY <3>2 DEF core_services, CoreService, ECU_RESET, SESSION_CONTROL,
           CLEAR_DTC, READ_DTC_INFO, READ_DATA_BY_ID, READ_MEM_BY_ADDR, SECURITY_ACCESS,
           COMM_CONTROL, AUTHENTICATION, READ_BY_PER_ID, WRITE_DATA_BY_ID,
           IO_CONTROL_BY_ID, ROUTINE_CONTROL, REQUEST_DOWNLOAD, REQUEST_UPLOAD,
           TRANSFER_DATA, TRANSFER_EXIT, WRITE_MEM_BY_ADDR, TESTER_PRESENT,
           CONTROL_DTC_SETTING
      <4> QED
        BY <4>1, <4>2 DEF is_subfunction_supported, has_sub
    <3> HIDE DEF e
    <3> DEFINE o == core_handler(d, p, r, a, t)
    <3>4. \/ Quiet(d, r.sid, o) /\ r.sid # SECURITY_ACCESS
          \/ r.sid = SESSION_CONTROL /\ o = handle_session_control(d, r, a, t)
          \/ r.sid = SECURITY_ACCESS /\ o = handle_security_access(d, r, a, t)
      BY <1>1, <3>1, CoreCases
    <3>5. o.ret = "done"
      BY <1>1, <3>4, SafeSessionControl, SafeSecurityAccess DEF Quiet, Calm
    <3>6. handle_request(c, p, r, a, t) = o
      BY <2>1, <3>3, <3>5 DEF execute_handler
    <3> HIDE DEF o
    <3>7. CASE Quiet(d, r.sid, o) /\ r.sid # SECURITY_ACCESS
      <4>1. Quiet(c, r.sid, o)
        BY <1>1, <3>7, QuietAlike
      <4> QED
        BY <3>6, <3>7, <4>1, OtherSaid DEF RequestCase
    <3> QED
      BY <1>1, <3>0, <3>4, <3>6, <3>7 DEF RequestCase
  <2> QED
    BY <2>2, <2>3
<1> QED
  BY <1>3, <1>4, <1>5

\* A request is handled safely.
LEMMA SafeHandleRequest ==
  ASSUME NEW c \in Ctx, NEW p, NEW r \in Request, NEW a \in Answer, NEW t \in Time
  PROVE  Safe(c, r, a, handle_request(c, p, r, a, t))
<1> DEFINE o == handle_request(c, p, r, a, t)
<1>1. RequestCase(c, r, a, t, o)
  BY RequestCases
<1> HIDE DEF o
<1>2. ASSUME Quiet(c, r.sid, o) PROVE Safe(c, r, a, o)
  BY <1>2, QuietSafe
<1>3. ASSUME NEW d \in Ctx, Alike(c, d), Safe(d, r, a, o)
      PROVE  Safe(c, r, a, o)
  BY <1>3, SafeSame DEF Alike
<1>4. ASSUME NEW d \in Ctx, Alike(c, d),
             \/ o = handle_session_control(d, r, a, t)
             \/ o = handle_security_access(d, r, a, t)
             \/ o = AwaitApplication(d, r, t, <<Call(r.sid, 0)>>)
      PROVE  Safe(d, r, a, o)
  BY <1>4, SafeSessionControl, SafeSecurityAccess, SafeAwait
<1>5. Safe(c, r, a, o)
  BY <1>1, <1>2, <1>3, <1>4 DEF RequestCase
<1> QED
  BY <1>5 DEF o

\* A client request touches neither session nor level, and announces itself.
LEMMA SafeClientRequest ==
  ASSUME NEW c \in Ctx, NEW sid \in Byte, NEW r, NEW a
  PROVE  Safe(c, r, a, uds_client_request(c, sid))
<1> DEFINE d == [c EXCEPT !.pending_sid = sid, !.client_cb = TRUE]
<1>1. /\ d \in Ctx /\ d.active_session = c.active_session
      /\ d.security_level = c.security_level /\ d.client_cb = TRUE
  BY DEF Ctx
<1> HIDE DEF d
<1>2. Asked(sid) \in Event /\ Asked(sid).k = "req"
  BY DEF Asked, Event, EventKinds, Byte
<1>3. Safe(c, r, a, Outcome(d, <<Asked(sid)>>))
  BY <1>1, <1>2 DEF Outcome, OutcomeType, Returns, Safe, Guarded, Waits,
                    KeyGranted, KeyCompared
<1> QED
  BY <1>3 DEF uds_client_request, d

\* Calling a client's callback back is safe, whatever it asks for in turn.
LEMMA SafeClientResponse ==
  ASSUME NEW c \in Ctx, NEW r \in Request, NEW a \in Answer, ~c.p2_msg_pending
  PROVE  Safe(c, r, a, client_response(c, r, a))
<1> DEFINE d == [c EXCEPT !.pending_sid = a.chain, !.client_cb = TRUE]
           i == IF a.chain # 0 THEN Outcome(d, <<Asked(a.chain)>>) ELSE Outcome(c, <<>>)
           e == [i.ctx EXCEPT !.client_cb = FALSE, !.pending_sid = 0]
           f == [c EXCEPT !.pending_sid = 0]
           o == Outcome(e, <<Cb(r)>> \o i.out)
<1>1. a.chain \in Byte /\ 0 \in Byte
  BY DEF Answer, Byte
<1>2. /\ Cb(r) \in Event /\ Cb(r).k = "cb"
      /\ Asked(a.chain) \in Event /\ Asked(a.chain).k = "req"
  BY <1>1 DEF Cb, Asked, Event, EventKinds, Request
<1>3. /\ d \in Ctx /\ d.active_session = c.active_session
      /\ d.security_level = c.security_level /\ d.p2_msg_pending = c.p2_msg_pending
  BY <1>1 DEF Ctx
<1>4. client_response(c, r, a) = IF c.client_cb THEN o ELSE Outcome(f, <<>>)
  BY DEF client_response, uds_client_request
<1> HIDE DEF d
<1>5. /\ i.ctx \in Ctx /\ i.ctx.active_session = c.active_session
      /\ i.ctx.security_level = c.security_level
      /\ i.ctx.p2_msg_pending = c.p2_msg_pending
      /\ i.out \in {<<>>, <<Asked(a.chain)>>}
  BY <1>3 DEF Outcome
<1>8a. i \in OutcomeType
  BY <1>2, <1>3 DEF Outcome, OutcomeType, Returns
<1> HIDE DEF i
<1>6. /\ e \in Ctx /\ e.active_session = c.active_session
      /\ e.security_level = c.security_level /\ ~e.p2_msg_pending
  BY <1>1, <1>5 DEF Ctx
<1>7. /\ f \in Ctx /\ f.active_session = c.active_session
      /\ f.security_level = c.security_level /\ ~f.p2_msg_pending
  BY <1>1 DEF Ctx
<1> HIDE DEF e, f
<1>8. Safe(c, r, a, Outcome(f, <<>>))
  BY <1>7 DEF Outcome, OutcomeType, Returns, Safe, Guarded, Waits, KeyGranted, KeyCompared
<1>9. Safe(c, r, a, o)
  <2> DEFINE q == Prepend(Cb(r), i)
  <2>1. i \in OutcomeType /\ \A j \in DOMAIN i.out : i.out[j].k = "req"
    BY <1>2, <1>5, <1>8a
  <2>2. /\ q \in OutcomeType /\ q.out[1] = Cb(r)
        /\ \A j \in DOMAIN q.out : q.out[j].k \in {"cb", "req"}
    BY <1>2, <2>1, PrependOutcome
  <2>3. q.out = <<Cb(r)>> \o i.out
    BY <2>1 DEF Prepend, OutcomeType
  <2>4. /\ o \in OutcomeType /\ o.ctx = e /\ o.out = q.out
    BY <1>6, <2>2, <2>3 DEF Outcome, OutcomeType, Returns
  <2> HIDE DEF o, q
  <2>5. ~KeyCompared(o.out)
    BY <1>2, <2>2, <2>4 DEF KeyCompared
  <2> QED
    BY <1>6, <2>2, <2>4, <2>5 DEF Safe, Guarded, Waits, KeyGranted
<1> QED
  BY <1>4, <1>8, <1>9

\* Whatever the transport delivers is handled safely.
LEMMA SafeInput ==
  ASSUME NEW c \in Ctx, NEW p, NEW r \in Request, NEW a \in Answer, NEW t \in Time
  PROVE  Safe(c, r, a, uds_input_sdu(c, p, r, a, t))
<1> DEFINE d == [c EXCEPT !.last_msg_time = t]
           e == [d EXCEPT !.p2_timer_start = t, !.p2_msg_pending = FALSE,
                          !.p2_star_active = FALSE, !.rcrrp_count = 0]
<1>1. /\ d \in Ctx /\ d.active_session = c.active_session
      /\ d.security_level = c.security_level /\ d.pending_sid = c.pending_sid
      /\ d.client_cb = c.client_cb /\ d.p2_star_active = c.p2_star_active
      /\ d.p2_msg_pending = c.p2_msg_pending
  BY DEF Ctx
<1>2. /\ e \in Ctx /\ e.active_session = c.active_session
      /\ e.security_level = c.security_level /\ ~e.p2_msg_pending
  <2>1. 0 \in 0 .. RCRRP_MOD - 1
    BY TimingAssumption
  <2>2. e \in Ctx
    BY <2>1 DEF Ctx
  <2> QED
    BY <2>2 DEF Ctx
<1>3. r.sid \in Byte
  BY DEF Request
<1>4. uds_input_sdu(c, p, r, a, t) =
        IF r.len = 0 THEN Outcome(c, <<>>)
        ELSE IF c.p2_msg_pending
        THEN IF IsSilentTesterPresent(r) THEN Outcome(d, <<>>)
             ELSE uds_send_nrc(d, r.sid, BUSY_REPEAT_REQUEST)
        ELSE IF IsResponse(c, r) THEN client_response(d, r, a)
        ELSE handle_request(e, p, r, a, t)
  BY DEF uds_input_sdu
<1> HIDE DEF d, e
<1>a. \A o : Safe(d, r, a, o) => Safe(c, r, a, o)
  BY <1>1 DEF Safe, Guarded, Waits
<1>5. Safe(c, r, a, Outcome(c, <<>>)) /\ Safe(c, r, a, Outcome(d, <<>>))
  BY <1>1, <1>a, QuietSilence, QuietSafe
<1>6. Safe(c, r, a, uds_send_nrc(d, r.sid, BUSY_REPEAT_REQUEST))
  BY <1>1, <1>3, <1>a, QuietNrc, QuietSafe, Codes
<1>7. ~c.p2_msg_pending => Safe(c, r, a, client_response(d, r, a))
  BY <1>1, <1>a, SafeClientResponse
<1>8. Safe(c, r, a, handle_request(e, p, r, a, t))
  <2>1. Safe(e, r, a, handle_request(e, p, r, a, t))
    BY <1>2, SafeHandleRequest
  <2> QED
    BY <1>2, <2>1 DEF Safe, Guarded, Waits
<1> QED
  BY <1>4, <1>5, <1>6, <1>7, <1>8

\* So is every turn of the main loop: it saves nothing and grants nothing.
LEMMA SafeProcess ==
  ASSUME NEW c \in Ctx, NEW r, NEW a, NEW t \in Time
  PROVE  /\ Safe(c, r, a, uds_process(c, t))
         /\ \A i \in DOMAIN uds_process(c, t).out : uds_process(c, t).out[i].k = "neg"
<1> DEFINE d == revert_session(c, t)
           x == uds_send_nrc(d, d.pending_sid, CONDITIONS_NOT_CORRECT)
           y == uds_send_nrc(d, d.pending_sid, RESPONSE_PENDING)
           e == [x.ctx EXCEPT !.rcrrp_count = 0]
           f == [y.ctx EXCEPT !.rcrrp_count = (@ + 1) % RCRRP_MOD,
                              !.p2_star_active = TRUE, !.p2_timer_start = t]
<1>1. /\ d \in Ctx
      /\ \/ d.security_level = 0 /\ d.active_session = DEFAULT
         \/ d.security_level = c.security_level /\ d.active_session = c.active_session
      /\ d.p2_msg_pending = c.p2_msg_pending /\ d.client_cb = c.client_cb
      /\ d.pending_sid = c.pending_sid /\ d.p2_star_active = c.p2_star_active
  <2> DEFINE z == [c EXCEPT !.active_session = DEFAULT, !.security_level = 0]
  <2>1. /\ z \in Ctx /\ z.security_level = 0 /\ z.active_session = DEFAULT
        /\ z.p2_msg_pending = c.p2_msg_pending /\ z.client_cb = c.client_cb
        /\ z.pending_sid = c.pending_sid /\ z.p2_star_active = c.p2_star_active
    <3>1. DEFAULT \in Sessions /\ 0 \in 0 .. 63
      BY DEF Sessions, DEFAULT
    <3>2. z \in Ctx
      BY <3>1 DEF Ctx
    <3> QED
      BY <3>2 DEF Ctx
  <2>2. d = IF S3Expired(c, t) THEN z ELSE c
    BY DEF revert_session
  <2> HIDE DEF z, d
  <2> QED
    BY <2>1, <2>2
<1> HIDE DEF d
<1>2. d.pending_sid \in Byte
  BY <1>1 DEF Ctx
<1>3. /\ Quiet(d, d.pending_sid, x) /\ Quiet(d, d.pending_sid, y)
      /\ Quiet(d, d.pending_sid, Outcome(d, <<>>))
  BY <1>1, <1>2, QuietNrc, QuietSilence, Codes
<1>4. /\ \A i \in DOMAIN x.out : x.out[i].k = "neg"
      /\ \A i \in DOMAIN y.out : y.out[i].k = "neg"
  BY DEF uds_send_nrc, Outcome, Neg
<1>5. uds_process(c, t) \in
        { Outcome(d, <<>>), [x EXCEPT !.ctx = e], [y EXCEPT !.ctx = f] }
  BY DEF uds_process, abort_pending, repeat_pending, d
<1> HIDE DEF x, y
<1>6. x \in OutcomeType /\ y \in OutcomeType /\ x.ctx \in Ctx /\ y.ctx \in Ctx
  BY <1>3 DEF Quiet, Calm, OutcomeType
<1>7. /\ e \in Ctx /\ e.active_session = x.ctx.active_session
      /\ e.security_level = x.ctx.security_level
      /\ e.p2_msg_pending = x.ctx.p2_msg_pending /\ e.client_cb = x.ctx.client_cb
      /\ e.pending_sid = x.ctx.pending_sid /\ e.p2_star_active = x.ctx.p2_star_active
  <2>1. 0 \in 0 .. RCRRP_MOD - 1
    BY TimingAssumption
  <2> QED
    BY <1>6, <2>1 DEF Ctx
<1>8. /\ f \in Ctx /\ f.active_session = y.ctx.active_session
      /\ f.security_level = y.ctx.security_level
      /\ f.p2_msg_pending = y.ctx.p2_msg_pending /\ f.client_cb = y.ctx.client_cb
      /\ f.pending_sid = y.ctx.pending_sid /\ f.p2_star_active
  <2>1. (y.ctx.rcrrp_count + 1) % RCRRP_MOD \in 0 .. RCRRP_MOD - 1
    BY <1>6, TimingAssumption DEF Ctx
  <2>2. f \in Ctx
    BY <1>6, <2>1 DEF Ctx
  <2> QED
    BY <1>6, <2>2 DEF Ctx
<1> HIDE DEF e, f
<1>9. /\ [x EXCEPT !.ctx = e] \in OutcomeType /\ [y EXCEPT !.ctx = f] \in OutcomeType
      /\ [x EXCEPT !.ctx = e].ctx = e /\ [y EXCEPT !.ctx = f].ctx = f
      /\ [x EXCEPT !.ctx = e].out = x.out /\ [y EXCEPT !.ctx = f].out = y.out
  BY <1>6, <1>7, <1>8 DEF OutcomeType
<1>10. Safe(c, r, a, [x EXCEPT !.ctx = e]) /\ Safe(c, r, a, [y EXCEPT !.ctx = f])
  BY <1>1, <1>3, <1>7, <1>8, <1>9 DEF Quiet, Calm, Safe, Guarded, Waits, KeyGranted
<1>11. /\ Safe(c, r, a, Outcome(d, <<>>))
       /\ \A i \in DOMAIN Outcome(d, <<>>).out : Outcome(d, <<>>).out[i].k = "neg"
  BY <1>1, <1>3 DEF Quiet, Calm, Safe, Guarded, Waits, KeyGranted, Outcome
<1> QED
  BY <1>4, <1>5, <1>9, <1>10, <1>11

-----------------------------------------------------------------------------
(* What is said, and when *)

\* The same of an event put behind the others.
LEMMA AppendSpoken ==
  ASSUME NEW events \in Seq(Event), NEW ev \in Event, ev.k \notin {"pos", "neg", "req"}
  PROVE  LET s == Append(events, ev)
         IN  /\ s \in Seq(Event) /\ DOMAIN s = DOMAIN events \cup {Len(events) + 1}
             /\ \A i \in DOMAIN events : s[i] = events[i]
             /\ s[Len(events) + 1] = ev
             /\ \A sid : OneReply(sid, events) => OneReply(sid, s)
<1> DEFINE s == Append(events, ev)
<1>1. /\ s \in Seq(Event) /\ Len(s) = Len(events) + 1 /\ Len(events) \in Nat
      /\ s[Len(events) + 1] = ev /\ DOMAIN s = 1 .. Len(s)
      /\ DOMAIN events = 1 .. Len(events)
  OBVIOUS
<1>2. \A i \in DOMAIN events : s[i] = events[i]
  OBVIOUS
<1> HIDE DEF s
<1>3. DOMAIN s = DOMAIN events \cup {Len(events) + 1}
  BY <1>1
<1>4. Spoken(s) = Spoken(events)
  BY <1>1, <1>2, <1>3 DEF Spoken
<1>5. \A i \in Spoken(events) : s[i] = events[i]
  BY <1>2 DEF Spoken
<1>6. \A sid : OneReply(sid, events) => OneReply(sid, s)
  BY <1>4, <1>5 DEF OneReply
<1> QED
  BY <1>1, <1>2, <1>3, <1>6 DEF s

\* A positive response says nothing negative.
LEMMA ResponseSaid ==
  ASSUME NEW c, NEW sid, NEW len, NEW s, NEW n
  PROVE  ~HasSent(uds_send_response(c, sid, len).out, s, n)
<1>1. uds_send_response(c, sid, len).out \in {<<>>, <<Pos(sid)>>}
  BY DEF uds_send_response, Outcome
<1>2. Pos(sid) # Neg(s, n)
  BY DEF Pos, Neg
<1>3. \A i \in DOMAIN <<Pos(sid)>> : <<Pos(sid)>>[i] = Pos(sid)
  OBVIOUS
<1> QED
  BY <1>1, <1>2, <1>3 DEF HasSent

\* How a call treats the lockout: no key is compared and no delay touched while
\* one is running, and NRC 0x36 starts it (unless the application chose that
\* code itself).
LocksOut(c, a, t, o) ==
  /\ KeyCompared(o.out) => ~Delayed(c, t)
  /\ o.ctx.security_delay_end # c.security_delay_end => ~Delayed(c, t)
  /\ HasSent(o.out, SECURITY_ACCESS, EXCEEDED_ATTEMPTS)
       /\ NrcOf(a.res) # EXCEEDED_ATTEMPTS =>
       o.ctx.security_delay_end = (t + SEC_DELAY) % TIME_MOD

\* How a request that finds nothing pending is treated: at most one response, in
\* its name; a wait begins now, with the first 0x78; the client's request stays.
Handled(c, r, a, t, o) ==
  /\ LocksOut(c, a, t, o)
  /\ OneReply(r.sid, o.out)
  /\ \A i \in DOMAIN o.out : o.out[i].k \in {"pos", "neg", "call", "save"}
  /\ o.ctx.last_msg_time = c.last_msg_time
  /\ o.ctx.client_cb = c.client_cb
  /\ Services(r.sid) = {} \/ a.res # UDS_PENDING => o.ctx.pending_sid = c.pending_sid
  /\ o.ctx.p2_msg_pending =>
       /\ o.ctx.p2_timer_start = t /\ o.ctx.p2_star_active
       /\ o.ctx.rcrrp_count = c.rcrrp_count
       /\ TX_SIZE >= 3 => Sent78(o.out)

\* An answer that changes nothing else.
LEMMA HandledQuiet ==
  ASSUME NEW c, NEW r, NEW a, NEW t, NEW o, ~c.p2_msg_pending, Quiet(c, r.sid, o),
         NrcOf(a.res) # EXCEEDED_ATTEMPTS =>
           ~HasSent(o.out, SECURITY_ACCESS, EXCEEDED_ATTEMPTS)
  PROVE  Handled(c, r, a, t, o)
BY DEF Handled, LocksOut, Quiet, Calm

\* A save behind it.
LEMMA HandledPostpone ==
  ASSUME NEW c, NEW r, NEW a, NEW t, NEW o \in OutcomeType, Handled(c, r, a, t, o),
         NEW ev \in Event, ev.k = "save"
  PROVE  Handled(c, r, a, t, Postpone(o, ev))
<1> DEFINE q == Postpone(o, ev)
           s == Append(o.out, ev)
<1>1. o.out \in Seq(Event)
  BY DEF OutcomeType
<1>2. q.out = s /\ q.ctx = o.ctx
  BY DEF Postpone, OutcomeType
<1> HIDE DEF q
<1>3. /\ DOMAIN s = DOMAIN o.out \cup {Len(o.out) + 1}
      /\ \A i \in DOMAIN o.out : s[i] = o.out[i]
      /\ s[Len(o.out) + 1] = ev /\ s \in Seq(Event)
      /\ OneReply(r.sid, s)
  BY <1>1, AppendSpoken DEF Handled
<1>4. KeyCompared(s) => KeyCompared(o.out)
  <2>1. CASE o.out = <<>>
    BY <1>3, <2>1 DEF KeyCompared
  <2>2. CASE o.out # <<>>
    <3>1. 1 \in DOMAIN o.out
      BY <1>1, <2>2
    <3> QED
      BY <1>3, <2>2, <3>1 DEF KeyCompared
  <2> QED
    BY <2>1, <2>2
<1> HIDE DEF s
<1>5. \A n : HasSent(s, SECURITY_ACCESS, n) => HasSent(o.out, SECURITY_ACCESS, n)
  <2>1. \A n : ev # Neg(SECURITY_ACCESS, n)
    BY DEF Neg
  <2> QED
    BY <1>3, <2>1 DEF HasSent
<1>6. Sent78(o.out) => Sent78(s)
  BY <1>3 DEF Sent78
<1>7. Handled(c, r, a, t, q)
  BY <1>2, <1>3, <1>4, <1>5, <1>6 DEF Handled, LocksOut
<1> QED
  BY <1>7 DEF q

\* A save or a comparison before it, while no delay is running.
LEMMA HandledPrepend ==
  ASSUME NEW c, NEW r, NEW a, NEW t, NEW o \in OutcomeType, Handled(c, r, a, t, o),
         NEW ev \in Event, ev.k \in {"save", "call"}, ~Delayed(c, t)
  PROVE  Handled(c, r, a, t, Prepend(ev, o))
<1> DEFINE q == Prepend(ev, o)
<1>1. o.out \in Seq(Event) /\ q.out = <<ev>> \o o.out
  BY DEF OutcomeType, Prepend
<1>2. /\ q.ctx = o.ctx
      /\ \A i \in DOMAIN q.out : q.out[i] = ev \/ \E j \in DOMAIN o.out : q.out[i] = o.out[j]
      /\ \A j \in DOMAIN o.out : \E i \in DOMAIN q.out : q.out[i] = o.out[j]
  BY PrependOutcome
<1>3. OneReply(r.sid, q.out)
  BY <1>1, PrependSpoken DEF Handled
<1> HIDE DEF q
<1>4. \A n : HasSent(q.out, SECURITY_ACCESS, n) => HasSent(o.out, SECURITY_ACCESS, n)
  <2>1. \A n : ev # Neg(SECURITY_ACCESS, n)
    BY DEF Neg
  <2> QED
    BY <1>2, <2>1 DEF HasSent
<1>5. Sent78(o.out) => Sent78(q.out)
  BY <1>2 DEF Sent78
<1>6. \A i \in DOMAIN q.out : q.out[i].k \in {"pos", "neg", "call", "save"}
  BY <1>2 DEF Handled
<1>7. Handled(c, r, a, t, q)
  BY <1>2, <1>3, <1>4, <1>5, <1>6 DEF Handled, LocksOut
<1> QED
  BY <1>7 DEF q

\* 0x10 is handled in order.
LEMMA HandledSessionControl ==
  ASSUME NEW c \in Ctx, NEW r \in Request, NEW a, NEW t, ~c.p2_msg_pending,
         r.sid = SESSION_CONTROL
  PROVE  Handled(c, r, a, t, handle_session_control(c, r, a, t))
<1>0. r.sid # SECURITY_ACCESS
  BY DEF SESSION_CONTROL, SECURITY_ACCESS
<1>1. CASE Sub(r) \notin Sessions
  <2> DEFINE o == uds_send_nrc(c, SESSION_CONTROL, SUBFUNCTION_NOT_SUPPORTED)
  <2>1. Quiet(c, SESSION_CONTROL, o)
    BY QuietNrc, Codes
  <2>2. handle_session_control(c, r, a, t) = o
    BY <1>1 DEF handle_session_control
  <2> HIDE DEF o
  <2> QED
    BY <1>0, <2>1, <2>2, OtherSaid, HandledQuiet
<1>2. CASE Sub(r) \in Sessions
  <2> DEFINE level == IF c.active_session # Sub(r) \/ Sub(r) = DEFAULT THEN 0
                      ELSE c.security_level
             d == [c EXCEPT !.security_level = level, !.active_session = Sub(r)]
             o == uds_send_response(d, SESSION_CONTROL, 6)
             save == Save(Sub(r), level)
  <2>1. level \in 0 .. 63
    BY DEF Ctx
  <2> HIDE DEF level
  <2>2. /\ d \in Ctx /\ d.security_level = level /\ d.active_session = Sub(r)
        /\ d.p2_msg_pending = c.p2_msg_pending /\ d.pending_sid = c.pending_sid
        /\ d.client_cb = c.client_cb /\ d.last_msg_time = c.last_msg_time
        /\ d.rcrrp_count = c.rcrrp_count
        /\ d.security_delay_end = c.security_delay_end
    BY <1>2, <2>1 DEF Ctx
  <2>3. handle_session_control(c, r, a, t) =
          IF "fn_nvm_save" \in Callbacks THEN Postpone(o, save) ELSE o
    BY <1>2, <2>2 DEF handle_session_control, level
  <2> HIDE DEF d
  <2>4. Quiet(d, SESSION_CONTROL, o)
    BY <2>2, QuietResponse, Codes
  <2>5. save \in Event /\ save.k = "save"
    BY <1>2, <2>1 DEF Save, Event, EventKinds, Byte, Sessions
  <2> HIDE DEF o, save
  <2>6. Handled(d, r, a, t, o) /\ o \in OutcomeType
    BY <1>0, <2>2, <2>4, OtherSaid, HandledQuiet DEF Quiet, Calm
  <2>7. Handled(c, r, a, t, o)
    BY <2>2, <2>6 DEF Handled, LocksOut, Delayed
  <2> QED
    BY <2>3, <2>5, <2>6, <2>7, HandledPostpone
<1> QED
  BY <1>1, <1>2

\* A key is handled in order, once the delay is over.
LEMMA HandledSendKey ==
  ASSUME NEW c \in Ctx, NEW r \in Request, NEW a \in Answer, NEW t \in Time,
         ~c.p2_msg_pending, r.sid = SECURITY_ACCESS, ~Delayed(c, t)
  PROVE  Handled(c, r, a, t, SendKey(c, r, a, t))
<1> DEFINE v == Sub(r) \div 2
           call == Call(SECURITY_ACCESS, v)
<1>1. v \in 0 .. 63 /\ v \in Byte
  BY SubRange DEF Byte
<1> HIDE DEF v
<1>2. call \in Event /\ call.k = "call"
  BY <1>1, Codes DEF Call, Event, EventKinds
<1> HIDE DEF call
<1>3. CASE "fn_security_key" \notin Callbacks
  <2> DEFINE o == uds_send_nrc(c, SECURITY_ACCESS, CONDITIONS_NOT_CORRECT)
  <2>1. ~HasSent(o.out, SECURITY_ACCESS, EXCEEDED_ATTEMPTS)
    BY NrcSaid DEF CONDITIONS_NOT_CORRECT, EXCEEDED_ATTEMPTS
  <2>2. Quiet(c, SECURITY_ACCESS, o)
    BY QuietNrc, Codes
  <2>3. SendKey(c, r, a, t) = o
    BY <1>3 DEF SendKey
  <2> HIDE DEF o
  <2> QED
    BY <2>1, <2>2, <2>3, HandledQuiet
<1>4. CASE "fn_security_key" \in Callbacks /\ a.res # 0
  <2> DEFINE o == KeyRejected(c, r, a, t)
             n == (c.security_attempts + 1) % ATTEMPTS_MOD
             end == (t + SEC_DELAY) % TIME_MOD
             d == [c EXCEPT !.security_attempts = n]
             e == [d EXCEPT !.security_delay_end = end]
             nrc == IF a.res < 0 THEN NrcOf(a.res) ELSE INVALID_KEY
  <2>1. n \in 0 .. ATTEMPTS_MOD - 1 /\ end \in Time
    BY TimingAssumption DEF Ctx, Time
  <2>2. \/ o = uds_send_nrc(e, SECURITY_ACCESS, EXCEEDED_ATTEMPTS)
        \/ o = uds_send_nrc(d, SECURITY_ACCESS, nrc)
    BY DEF KeyRejected
  <2>3. nrc \in Byte /\ (nrc = EXCEEDED_ATTEMPTS => NrcOf(a.res) = EXCEEDED_ATTEMPTS)
    <3>1. NrcOf(a.res) \in Byte
      BY NrcOfByte DEF Answer
    <3> QED
      BY <3>1, Codes DEF INVALID_KEY, EXCEEDED_ATTEMPTS
  <2> HIDE DEF n, end, nrc
  <2>4. d \in Ctx /\ Same(c, d) /\ d.security_delay_end = c.security_delay_end
    BY <2>1 DEF Ctx, Same
  <2> HIDE DEF d
  <2>5. e \in Ctx /\ Same(c, e) /\ e.security_delay_end = end
    BY <2>1, <2>4 DEF Ctx, Same
  <2> HIDE DEF e, o
  <2>6. CASE o = uds_send_nrc(e, SECURITY_ACCESS, EXCEEDED_ATTEMPTS)
    <3>1. Quiet(e, SECURITY_ACCESS, o)
      BY <2>5, <2>6, QuietNrc, Codes
    <3>2. o.ctx.security_delay_end = (t + SEC_DELAY) % TIME_MOD
      BY <2>5, <3>1 DEF Quiet, end
    <3>3. Handled(c, r, a, t, o) /\ o \in OutcomeType
      BY <2>5, <3>1, <3>2 DEF Same, Handled, LocksOut, Quiet, Calm
    <3>4. Handled(c, r, a, t, Prepend(call, o))
      BY <1>2, <3>3, HandledPrepend
    <3> QED
      BY <1>4, <3>4 DEF SendKey, o, call, v
  <2>7. CASE o = uds_send_nrc(d, SECURITY_ACCESS, nrc)
    <3>1. Quiet(d, SECURITY_ACCESS, o)
      BY <2>3, <2>4, <2>7, QuietNrc, Codes
    <3>2. /\ Calm(c, SECURITY_ACCESS, o) /\ o \in OutcomeType
          /\ o.ctx.security_delay_end = c.security_delay_end
      <4>1. Calm(d, SECURITY_ACCESS, o) /\ o.ctx.security_delay_end = d.security_delay_end
        BY <3>1 DEF Quiet
      <4>2. Calm(c, SECURITY_ACCESS, o)
        BY <2>4, <4>1, CalmSame
      <4>3. o \in OutcomeType
        BY <4>1 DEF Calm
      <4> QED
        BY <2>4, <4>1, <4>2, <4>3
    <3>3. NrcOf(a.res) # EXCEEDED_ATTEMPTS =>
            ~HasSent(o.out, SECURITY_ACCESS, EXCEEDED_ATTEMPTS)
      BY <2>3, <2>7, NrcSaid
    <3>4. Handled(c, r, a, t, o)
      BY <3>2, <3>3 DEF Handled, LocksOut, Calm
    <3>5. Handled(c, r, a, t, Prepend(call, o))
      BY <1>2, <3>2, <3>4, HandledPrepend
    <3> QED
      BY <1>4, <3>5 DEF SendKey, o, call, v
  <2> QED
    BY <2>2, <2>6, <2>7
<1>5. CASE "fn_security_key" \in Callbacks /\ a.res = 0
  <2> DEFINE d == [c EXCEPT !.security_attempts = 0, !.security_level = v]
             o == uds_send_response(d, SECURITY_ACCESS, 2)
             save == Save(c.active_session, v)
             k == KeyAccepted(c, r)
  <2>1. /\ d \in Ctx /\ d.security_level = v /\ d.active_session = c.active_session
        /\ d.p2_msg_pending = c.p2_msg_pending /\ d.pending_sid = c.pending_sid
        /\ d.client_cb = c.client_cb /\ d.last_msg_time = c.last_msg_time
        /\ d.rcrrp_count = c.rcrrp_count
        /\ d.security_delay_end = c.security_delay_end
    <3>1. 0 \in 0 .. ATTEMPTS_MOD - 1
      BY TimingAssumption
    <3> QED
      BY <1>1, <3>1 DEF Ctx
  <2>2. k = IF "fn_nvm_save" \in Callbacks THEN Prepend(save, o) ELSE o
    BY <2>1 DEF KeyAccepted, v
  <2>3. ~HasSent(o.out, SECURITY_ACCESS, EXCEEDED_ATTEMPTS)
    BY ResponseSaid
  <2> HIDE DEF d
  <2>4. Quiet(d, SECURITY_ACCESS, o)
    BY <2>1, QuietResponse, Codes
  <2> HIDE DEF o
  <2>5. save \in Event /\ save.k = "save"
    BY <1>1 DEF Save, Event, EventKinds, Byte, Sessions, Ctx
  <2> HIDE DEF save
  <2>6. Handled(d, r, a, t, o) /\ o \in OutcomeType
    BY <2>1, <2>3, <2>4, HandledQuiet DEF Quiet, Calm
  <2>7. Handled(c, r, a, t, o)
    BY <2>1, <2>6 DEF Handled, LocksOut, Delayed
  <2>8. Handled(c, r, a, t, k) /\ k \in OutcomeType
    BY <2>2, <2>5, <2>6, <2>7, HandledPrepend, PrependOutcome
  <2> HIDE DEF k
  <2>9. Handled(c, r, a, t, Prepend(call, k))
    BY <1>2, <2>8, HandledPrepend
  <2> QED
    BY <1>5, <2>9 DEF SendKey, k, call, v
<1> QED
  BY <1>3, <1>4, <1>5

\* 0x27 is handled in order.
LEMMA HandledSecurityAccess ==
  ASSUME NEW c \in Ctx, NEW r \in Request, NEW a \in Answer, NEW t \in Time,
         ~c.p2_msg_pending, r.sid = SECURITY_ACCESS
  PROVE  Handled(c, r, a, t, handle_security_access(c, r, a, t))
<1> DEFINE d == [c EXCEPT !.security_delay_end = 0]
           o == handle_security_access(c, r, a, t)
<1>1. d \in Ctx /\ Same(c, d) /\ d.security_delay_end = 0
  BY TimingAssumption DEF Ctx, Same, Time
<1>2. \/ o \in {uds_send_nrc(c, SECURITY_ACCESS, INCORRECT_LENGTH),
               uds_send_nrc(c, SECURITY_ACCESS, REQUIRED_TIME_DELAY)}
      \/ ~Delayed(c, t) /\ o \in {RequestSeed(d, r, a), SendKey(d, r, a, t)}
  BY DEF handle_security_access
<1> HIDE DEF d, o
<1>3. ~Delayed(d, t) /\ ~d.p2_msg_pending
  BY <1>1 DEF Delayed, Same
<1>4. ASSUME NEW nrc \in {INCORRECT_LENGTH, REQUIRED_TIME_DELAY},
             o = uds_send_nrc(c, SECURITY_ACCESS, nrc)
      PROVE  Handled(c, r, a, t, o)
  <2>1. Quiet(c, SECURITY_ACCESS, o)
    BY <1>4, QuietNrc, Codes
  <2>2. nrc # EXCEEDED_ATTEMPTS
    BY DEF INCORRECT_LENGTH, REQUIRED_TIME_DELAY, EXCEEDED_ATTEMPTS
  <2> QED
    BY <1>4, <2>1, <2>2, NrcSaid, HandledQuiet
<1>5. CASE ~Delayed(c, t) /\ o \in {RequestSeed(d, r, a), SendKey(d, r, a, t)}
  <2>1. Handled(d, r, a, t, SendKey(d, r, a, t))
    BY <1>1, <1>3, HandledSendKey
  <2>2. NrcOf(a.res) \in Byte
    BY NrcOfByte DEF Answer
  <2>3. Quiet(d, SECURITY_ACCESS, RequestSeed(d, r, a))
    BY <1>1, <2>2, QuietNrc, QuietResponse, Codes DEF RequestSeed
  <2>4. NrcOf(a.res) # EXCEEDED_ATTEMPTS =>
          ~HasSent(RequestSeed(d, r, a).out, SECURITY_ACCESS, EXCEEDED_ATTEMPTS)
    <3>1. CONDITIONS_NOT_CORRECT # EXCEEDED_ATTEMPTS
      BY DEF CONDITIONS_NOT_CORRECT, EXCEEDED_ATTEMPTS
    <3> QED
      BY <3>1, NrcSaid, ResponseSaid DEF RequestSeed
  <2>5. Handled(d, r, a, t, RequestSeed(d, r, a))
    BY <1>3, <2>3, <2>4, HandledQuiet
  <2>6. Handled(d, r, a, t, o)
    BY <1>5, <2>1, <2>5
  <2>7. Handled(c, r, a, t, o)
    BY <1>1, <1>5, <2>6 DEF Same, Handled, LocksOut
  <2> QED
    BY <2>7 DEF o
<1>6. Handled(c, r, a, t, o)
  BY <1>2, <1>4, <1>5 DEF o
<1> QED
  BY <1>6 DEF o

\* A wait begins in order, with 0x78.
LEMMA HandledAwait ==
  ASSUME NEW c \in Ctx, NEW r \in Request, NEW a \in Answer, NEW t \in Time,
         ~c.p2_msg_pending, Services(r.sid) # {}, a.res = UDS_PENDING
  PROVE  Handled(c, r, a, t, AwaitApplication(c, r, t, <<Call(r.sid, 0)>>))
<1> DEFINE o == uds_send_nrc(c, r.sid, RESPONSE_PENDING)
           call == Call(r.sid, 0)
           q == Prepend(call, o)
           d == [o.ctx EXCEPT !.p2_msg_pending = TRUE, !.p2_star_active = TRUE,
                              !.p2_timer_start = t, !.pending_sid = r.sid]
           w == [ctx |-> d, out |-> <<call>> \o o.out, ret |-> "pending"]
<1>1. r.sid \in Byte /\ 0 \in Byte
  BY DEF Request, Byte
<1>2. Quiet(c, r.sid, o) /\ Quiet(c, r.sid, q)
  BY <1>1, QuietNrc, QuietCall, Codes
<1>3. q.out = <<call>> \o o.out /\ q \in OutcomeType /\ o \in OutcomeType /\ o.ctx \in Ctx
  BY <1>2 DEF Quiet, Calm, Prepend, OutcomeType
<1>4. AwaitApplication(c, r, t, <<call>>) = w
  BY DEF AwaitApplication
<1>5. o.ctx.rcrrp_count = c.rcrrp_count
  BY DEF uds_send_nrc, Outcome, Ctx
<1>6. call \in Event /\ call # Neg(SECURITY_ACCESS, EXCEEDED_ATTEMPTS)
  BY <1>1 DEF Call, Event, EventKinds, Neg
<1>7. ~HasSent(o.out, SECURITY_ACCESS, EXCEEDED_ATTEMPTS)
  BY NrcSaid DEF RESPONSE_PENDING, EXCEEDED_ATTEMPTS
<1>8. TX_SIZE >= 3 => \E i \in DOMAIN o.out : o.out[i] = Neg(r.sid, RESPONSE_PENDING)
  <2> SUFFICES ASSUME TX_SIZE >= 3
               PROVE  \E i \in DOMAIN o.out : o.out[i] = Neg(r.sid, RESPONSE_PENDING)
    OBVIOUS
  <2>1. o.out = <<Neg(r.sid, RESPONSE_PENDING)>>
    BY ConfigAssumption DEF uds_send_nrc, Outcome
  <2>2. 1 \in DOMAIN o.out /\ o.out[1] = Neg(r.sid, RESPONSE_PENDING)
    BY <2>1
  <2> QED
    BY <2>2
<1> HIDE DEF o, call
<1>9. /\ \A i \in DOMAIN q.out : q.out[i] = call \/ \E j \in DOMAIN o.out : q.out[i] = o.out[j]
      /\ \A j \in DOMAIN o.out : \E i \in DOMAIN q.out : q.out[i] = o.out[j]
  <2>1. o \in OutcomeType /\ call \in Event
    BY <1>3, <1>6
  <2> QED
    BY <2>1, PrependOutcome
<1> HIDE DEF q
<1>10. ~HasSent(q.out, SECURITY_ACCESS, EXCEEDED_ATTEMPTS)
  BY <1>6, <1>7, <1>9 DEF HasSent
<1>11. TX_SIZE >= 3 => Sent78(q.out)
  BY <1>8, <1>9 DEF Sent78, Neg
<1>12. /\ d.last_msg_time = o.ctx.last_msg_time /\ d.client_cb = o.ctx.client_cb
       /\ d.p2_timer_start = t /\ d.p2_star_active /\ d.rcrrp_count = o.ctx.rcrrp_count
       /\ d.security_delay_end = o.ctx.security_delay_end
  BY <1>3 DEF Ctx
<1> HIDE DEF d
<1>13. w.ctx = d /\ w.out = q.out
  BY <1>3
<1> HIDE DEF w
<1>14. Handled(c, r, a, t, w)
  BY <1>2, <1>5, <1>10, <1>11, <1>12, <1>13 DEF Handled, LocksOut, Quiet, Calm
<1> QED
  BY <1>4, <1>14 DEF call

\* Every request is.
LEMMA HandledRequest ==
  ASSUME NEW c \in Ctx, NEW p, NEW r \in Request, NEW a \in Answer, NEW t \in Time,
         ~c.p2_msg_pending
  PROVE  Handled(c, r, a, t, handle_request(c, p, r, a, t))
<1> DEFINE o == handle_request(c, p, r, a, t)
<1>1. RequestCase(c, r, a, t, o)
  BY RequestCases
<1> HIDE DEF o
<1>2. ASSUME NEW d \in Ctx, Alike(c, d), Handled(d, r, a, t, o)
      PROVE  Handled(c, r, a, t, o)
  BY <1>2 DEF Alike, Same, Handled, LocksOut, Delayed
<1>3. ASSUME NEW d \in Ctx, Alike(c, d),
             \/ r.sid = SESSION_CONTROL /\ o = handle_session_control(d, r, a, t)
             \/ r.sid = SECURITY_ACCESS /\ o = handle_security_access(d, r, a, t)
             \/ /\ Services(r.sid) # {} /\ a.res = UDS_PENDING
                /\ o = AwaitApplication(d, r, t, <<Call(r.sid, 0)>>)
      PROVE  Handled(c, r, a, t, o)
  <2>1. ~d.p2_msg_pending
    BY <1>3 DEF Alike, Same
  <2>2. Handled(d, r, a, t, o)
    BY <1>3, <2>1, HandledSessionControl, HandledSecurityAccess, HandledAwait
  <2> QED
    BY <1>2, <1>3, <2>2
<1>4. Handled(c, r, a, t, o)
  BY <1>1, <1>3, HandledQuiet DEF RequestCase
<1> QED
  BY <1>4 DEF o

\* What calling a client back does: the callback it was given, or none; what it
\* may ask for in turn; and nothing is awaited afterwards.
CalledBack(c, r, a, o) ==
  /\ o.ctx.last_msg_time = c.last_msg_time
  /\ o.ctx.security_delay_end = c.security_delay_end
  /\ ~o.ctx.p2_msg_pending /\ ~o.ctx.client_cb /\ o.ctx.pending_sid = 0
  /\ ~KeyCompared(o.out)
  /\ c.client_cb => \E i \in DOMAIN o.out : o.out[i] = Cb(r)
  /\ \A i \in DOMAIN o.out :
       c.client_cb /\ (o.out[i] = Cb(r) \/ (a.chain # 0 /\ o.out[i] = Asked(a.chain)))

\* client_response does that.
LEMMA ClientCalledBack ==
  ASSUME NEW c \in Ctx, NEW r \in Request, NEW a \in Answer, ~c.p2_msg_pending
  PROVE  CalledBack(c, r, a, client_response(c, r, a))
<1> DEFINE d == [c EXCEPT !.pending_sid = a.chain, !.client_cb = TRUE]
           i == IF a.chain # 0 THEN Outcome(d, <<Asked(a.chain)>>) ELSE Outcome(c, <<>>)
           e == [i.ctx EXCEPT !.client_cb = FALSE, !.pending_sid = 0]
           f == [c EXCEPT !.pending_sid = 0]
           o == Outcome(e, <<Cb(r)>> \o i.out)
<1>1. a.chain \in Byte /\ 0 \in Byte
  BY DEF Answer, Byte
<1>2. /\ Cb(r) \in Event /\ Cb(r).k = "cb" /\ Asked(a.chain) \in Event
  BY <1>1 DEF Cb, Asked, Event, EventKinds, Request
<1>3. client_response(c, r, a) = IF c.client_cb THEN o ELSE Outcome(f, <<>>)
  BY DEF client_response, uds_client_request
<1>4. /\ d \in Ctx /\ d.last_msg_time = c.last_msg_time
      /\ d.p2_msg_pending = c.p2_msg_pending
      /\ d.security_delay_end = c.security_delay_end
  BY <1>1 DEF Ctx
<1> HIDE DEF d
<1>5. /\ i \in OutcomeType /\ i.ctx \in Ctx /\ i.ctx.last_msg_time = c.last_msg_time
      /\ i.ctx.p2_msg_pending = c.p2_msg_pending
      /\ i.ctx.security_delay_end = c.security_delay_end
  BY <1>2, <1>4 DEF Outcome, OutcomeType, Returns
<1>6. \A j \in DOMAIN i.out : a.chain # 0 /\ i.out[j] = Asked(a.chain)
  BY DEF Outcome
<1> HIDE DEF i
<1>7. /\ e.last_msg_time = c.last_msg_time /\ ~e.p2_msg_pending
      /\ e.security_delay_end = c.security_delay_end
      /\ ~e.client_cb /\ e.pending_sid = 0
  BY <1>5 DEF Ctx
<1>8. /\ f.last_msg_time = c.last_msg_time /\ ~f.p2_msg_pending
      /\ f.security_delay_end = c.security_delay_end
      /\ f.client_cb = c.client_cb /\ f.pending_sid = 0
  BY DEF Ctx
<1> HIDE DEF e, f
<1>9. ~c.client_cb => CalledBack(c, r, a, Outcome(f, <<>>))
  BY <1>8, NothingSaid DEF CalledBack, Outcome
<1>10. ASSUME c.client_cb PROVE CalledBack(c, r, a, o)
  <2> DEFINE q == Prepend(Cb(r), i)
  <2>1. /\ q.out[1] = Cb(r) /\ q.out # <<>> /\ q \in OutcomeType
        /\ \A j \in DOMAIN q.out : q.out[j] = Cb(r) \/ \E k \in DOMAIN i.out : q.out[j] = i.out[k]
    BY <1>2, <1>5, PrependOutcome
  <2>2. q.out = <<Cb(r)>> \o i.out
    BY <1>5 DEF Prepend, OutcomeType
  <2>3. o.ctx = e /\ o.out = q.out
    BY <2>2 DEF Outcome
  <2> HIDE DEF o, q
  <2>4. 1 \in DOMAIN o.out
    <3>1. q.out \in Seq(Event)
      BY <2>1 DEF OutcomeType
    <3> QED
      BY <2>1, <2>3, <3>1
  <2>5. ~KeyCompared(o.out)
    BY <1>2, <2>1, <2>3 DEF KeyCompared
  <2>6. \A j \in DOMAIN o.out :
          o.out[j] = Cb(r) \/ (a.chain # 0 /\ o.out[j] = Asked(a.chain))
    BY <1>6, <2>1, <2>3
  <2>7. \E j \in DOMAIN o.out : o.out[j] = Cb(r)
    BY <2>1, <2>3, <2>4
  <2> QED
    BY <1>7, <1>10, <2>3, <2>5, <2>6, <2>7 DEF CalledBack
<1> QED
  BY <1>3, <1>9, <1>10

\* What a message does that arrives while the application works: it is heard by
\* the S3 timer, and refused.
Refused(c, r, t, o) ==
  /\ o.ctx \in {[c EXCEPT !.last_msg_time = t],
                uds_send_nrc([c EXCEPT !.last_msg_time = t], r.sid, BUSY_REPEAT_REQUEST).ctx}
  /\ \A i \in DOMAIN o.out : o.out[i] = Neg(r.sid, BUSY_REPEAT_REQUEST)

\* The four ways of uds_input_sdu.
LEMMA InputCases ==
  ASSUME NEW c \in Ctx, NEW p, NEW r \in Request, NEW a \in Answer, NEW t \in Time
  PROVE  LET o == uds_input_sdu(c, p, r, a, t)
         IN  \/ r.len = 0 /\ o = Outcome(c, <<>>)
             \/ r.len # 0 /\ c.p2_msg_pending /\ Refused(c, r, t, o)
             \/ /\ r.len # 0 /\ ~c.p2_msg_pending /\ IsResponse(c, r)
                /\ CalledBack([c EXCEPT !.last_msg_time = t], r, a, o)
             \/ /\ r.len # 0 /\ ~c.p2_msg_pending /\ ~IsResponse(c, r)
                /\ Handled([c EXCEPT !.last_msg_time = t, !.p2_timer_start = t,
                                     !.p2_msg_pending = FALSE,
                                     !.p2_star_active = FALSE, !.rcrrp_count = 0],
                           r, a, t, o)
<1> DEFINE d == [c EXCEPT !.last_msg_time = t]
           e == [d EXCEPT !.p2_timer_start = t, !.p2_msg_pending = FALSE,
                          !.p2_star_active = FALSE, !.rcrrp_count = 0]
           f == [c EXCEPT !.last_msg_time = t, !.p2_timer_start = t,
                          !.p2_msg_pending = FALSE,
                          !.p2_star_active = FALSE, !.rcrrp_count = 0]
           o == uds_input_sdu(c, p, r, a, t)
<1>1. d \in Ctx /\ d.p2_msg_pending = c.p2_msg_pending
  BY DEF Ctx
<1>2. e \in Ctx /\ ~e.p2_msg_pending
  <2>1. 0 \in 0 .. RCRRP_MOD - 1
    BY TimingAssumption
  <2>2. e \in Ctx
    BY <2>1 DEF Ctx
  <2> QED
    BY <2>2 DEF Ctx
<1>3. f = e
  OBVIOUS
<1>4. o = IF r.len = 0 THEN Outcome(c, <<>>)
          ELSE IF c.p2_msg_pending
          THEN IF IsSilentTesterPresent(r) THEN Outcome(d, <<>>)
               ELSE uds_send_nrc(d, r.sid, BUSY_REPEAT_REQUEST)
          ELSE IF IsResponse(c, r) THEN client_response(d, r, a)
          ELSE handle_request(e, p, r, a, t)
  BY DEF uds_input_sdu
<1>5. Refused(c, r, t, Outcome(d, <<>>))
  BY DEF Refused, Outcome
<1>6. Refused(c, r, t, uds_send_nrc(d, r.sid, BUSY_REPEAT_REQUEST))
  <2>1. uds_send_nrc(d, r.sid, BUSY_REPEAT_REQUEST).out \in
          {<<>>, <<Neg(r.sid, BUSY_REPEAT_REQUEST)>>}
    BY DEF uds_send_nrc, Outcome
  <2> QED
    BY <2>1 DEF Refused
<1> HIDE DEF o, e
<1>7. ~c.p2_msg_pending => CalledBack(d, r, a, client_response(d, r, a))
  BY <1>1, ClientCalledBack
<1>8. Handled(f, r, a, t, handle_request(e, p, r, a, t))
  BY <1>2, <1>3, HandledRequest
<1> HIDE DEF d, f
<1>9. \/ r.len = 0 /\ o = Outcome(c, <<>>)
      \/ r.len # 0 /\ c.p2_msg_pending /\ Refused(c, r, t, o)
      \/ r.len # 0 /\ ~c.p2_msg_pending /\ IsResponse(c, r) /\ CalledBack(d, r, a, o)
      \/ r.len # 0 /\ ~c.p2_msg_pending /\ ~IsResponse(c, r) /\ Handled(f, r, a, t, o)
  BY <1>4, <1>5, <1>6, <1>7, <1>8
<1> QED
  BY <1>9 DEF o, d, f

\* How a delivered message treats the clocks: it is heard by S3; a wait that is
\* on goes on unchanged, one that begins starts now, with 0x78.
Timely(c, r, t, o) ==
  /\ IF r.len = 0 THEN o = Outcome(c, <<>>) ELSE o.ctx.last_msg_time = t
  /\ o.ctx.p2_msg_pending /\ c.p2_msg_pending =>
       /\ ~Sent78(o.out)
       /\ o.ctx.p2_timer_start = c.p2_timer_start
       /\ o.ctx.p2_star_active = c.p2_star_active
       /\ o.ctx.rcrrp_count = c.rcrrp_count
  /\ o.ctx.p2_msg_pending /\ ~c.p2_msg_pending =>
       /\ TX_SIZE >= 3 => Sent78(o.out)
       /\ o.ctx.p2_timer_start = t /\ o.ctx.p2_star_active /\ o.ctx.rcrrp_count = 0

\* How it treats the client: a response is called back; any other message
\* leaves its request alone, unless it is one that begins a wait.
KeepsClient(c, r, a, o) ==
  \/ /\ IsResponse(c, r) /\ ~o.ctx.client_cb
     /\ c.client_cb => \E i \in DOMAIN o.out : o.out[i] = Cb(r)
     /\ \A i \in DOMAIN o.out :
          c.client_cb /\ (o.out[i] = Cb(r) \/ (a.chain # 0 /\ o.out[i] = Asked(a.chain)))
  \/ /\ \A i \in DOMAIN o.out : o.out[i].k \notin {"req", "cb"}
     /\ o.ctx.client_cb = c.client_cb
     /\ \/ o.ctx.pending_sid = c.pending_sid
        \/ a.res = UDS_PENDING /\ UserServices # {}

\* What uds_input_sdu does with a message.
LEMMA InputInOrder ==
  ASSUME NEW c \in Ctx, NEW p, NEW r \in Request, NEW a \in Answer, NEW t \in Time
  PROVE  LET o == uds_input_sdu(c, p, r, a, t)
         IN  /\ Timely(c, r, t, o) /\ LocksOut(c, a, t, o) /\ KeepsClient(c, r, a, o)
             /\ r.len # 0 /\ ~c.p2_msg_pending /\ ~IsResponse(c, r) =>
                  OneReply(r.sid, o.out)
<1> DEFINE o == uds_input_sdu(c, p, r, a, t)
           d == [c EXCEPT !.last_msg_time = t]
           e == uds_send_nrc(d, r.sid, BUSY_REPEAT_REQUEST).ctx
           f == [c EXCEPT !.last_msg_time = t, !.p2_timer_start = t,
                          !.p2_msg_pending = FALSE,
                          !.p2_star_active = FALSE, !.rcrrp_count = 0]
<1>1. \/ r.len = 0 /\ o = Outcome(c, <<>>)
      \/ r.len # 0 /\ c.p2_msg_pending /\ Refused(c, r, t, o)
      \/ r.len # 0 /\ ~c.p2_msg_pending /\ IsResponse(c, r) /\ CalledBack(d, r, a, o)
      \/ r.len # 0 /\ ~c.p2_msg_pending /\ ~IsResponse(c, r) /\ Handled(f, r, a, t, o)
  BY InputCases
<1> HIDE DEF o
<1>2. /\ d \in Ctx /\ d.last_msg_time = t /\ d.p2_timer_start = c.p2_timer_start
      /\ d.p2_star_active = c.p2_star_active /\ d.rcrrp_count = c.rcrrp_count
      /\ d.security_delay_end = c.security_delay_end
      /\ d.client_cb = c.client_cb /\ d.pending_sid = c.pending_sid
      /\ d.p2_msg_pending = c.p2_msg_pending
  BY DEF Ctx
<1>3. /\ f.last_msg_time = t /\ f.rcrrp_count = 0
      /\ f.security_delay_end = c.security_delay_end
      /\ f.client_cb = c.client_cb /\ f.pending_sid = c.pending_sid
  BY DEF Ctx
<1>4. r.sid \in Byte
  BY DEF Request
<1> HIDE DEF d, f
<1>5. Quiet(d, r.sid, uds_send_nrc(d, r.sid, BUSY_REPEAT_REQUEST))
  BY <1>2, <1>4, QuietNrc, Codes
<1>6. CASE r.len = 0 /\ o = Outcome(c, <<>>)
  <2>1. o.ctx = c /\ o.out = <<>>
    BY <1>6 DEF Outcome
  <2>2. ~KeyCompared(<<>>) /\ ~HasSent(<<>>, SECURITY_ACCESS, EXCEEDED_ATTEMPTS) /\ ~Sent78(<<>>)
    BY DEF KeyCompared, HasSent, Sent78
  <2>3. Timely(c, r, t, o) /\ LocksOut(c, a, t, o) /\ KeepsClient(c, r, a, o)
    BY <1>6, <2>1, <2>2 DEF Timely, LocksOut, KeepsClient
  <2> QED
    BY <1>6, <2>3 DEF o
<1>7. CASE r.len # 0 /\ c.p2_msg_pending /\ Refused(c, r, t, o)
  <2>1. /\ o.ctx.last_msg_time = t /\ o.ctx.p2_timer_start = c.p2_timer_start
        /\ o.ctx.p2_star_active = c.p2_star_active
        /\ o.ctx.p2_msg_pending => o.ctx.rcrrp_count = c.rcrrp_count
        /\ o.ctx.security_delay_end = c.security_delay_end
        /\ o.ctx.client_cb = c.client_cb /\ o.ctx.pending_sid = c.pending_sid
    <3>1. o.ctx = d \/ o.ctx = e
      BY <1>7 DEF Refused, d
    <3> HIDE DEF e
    <3>2. /\ e.last_msg_time = d.last_msg_time /\ e.p2_timer_start = d.p2_timer_start
          /\ e.p2_star_active = d.p2_star_active
          /\ e.p2_msg_pending => e.rcrrp_count = d.rcrrp_count
          /\ e.security_delay_end = d.security_delay_end
          /\ e.client_cb = d.client_cb /\ e.pending_sid = d.pending_sid
      BY <1>5 DEF Quiet, Calm, e
    <3> QED
      BY <1>2, <3>1, <3>2
  <2>2. /\ Neg(r.sid, BUSY_REPEAT_REQUEST).k = "neg"
        /\ Neg(r.sid, BUSY_REPEAT_REQUEST).v = BUSY_REPEAT_REQUEST
        /\ Neg(r.sid, BUSY_REPEAT_REQUEST) # Neg(SECURITY_ACCESS, EXCEEDED_ATTEMPTS)
        /\ BUSY_REPEAT_REQUEST # RESPONSE_PENDING
    BY DEF Neg, BUSY_REPEAT_REQUEST, EXCEEDED_ATTEMPTS, RESPONSE_PENDING
  <2>3. \A i \in DOMAIN o.out : o.out[i] = Neg(r.sid, BUSY_REPEAT_REQUEST)
    BY <1>7 DEF Refused
  <2>4. ~Sent78(o.out) /\ ~HasSent(o.out, SECURITY_ACCESS, EXCEEDED_ATTEMPTS)
    BY <2>2, <2>3 DEF Sent78, HasSent
  <2>5. ~KeyCompared(o.out)
    <3>1. o.out \in Seq(Event)
      BY SafeInput DEF o, Safe, OutcomeType
    <3>2. o.out # <<>> => 1 \in DOMAIN o.out
      BY <3>1
    <3> QED
      BY <2>2, <2>3, <3>2 DEF KeyCompared
  <2>6. Timely(c, r, t, o) /\ LocksOut(c, a, t, o) /\ KeepsClient(c, r, a, o)
    BY <1>7, <2>1, <2>2, <2>3, <2>4, <2>5 DEF Timely, LocksOut, KeepsClient
  <2> QED
    BY <1>7, <2>6 DEF o
<1>8. CASE r.len # 0 /\ ~c.p2_msg_pending /\ IsResponse(c, r) /\ CalledBack(d, r, a, o)
  <2>1. Cb(r).k = "cb" /\ Asked(a.chain).k = "req" /\ \A s, n : Neg(s, n).k = "neg"
    BY DEF Cb, Asked, Neg
  <2>2. ~HasSent(o.out, SECURITY_ACCESS, EXCEEDED_ATTEMPTS)
    BY <1>8, <2>1 DEF CalledBack, HasSent
  <2>3. Timely(c, r, t, o) /\ LocksOut(c, a, t, o) /\ KeepsClient(c, r, a, o)
    BY <1>2, <1>8, <2>2 DEF Timely, LocksOut, KeepsClient, CalledBack
  <2> QED
    BY <1>8, <2>3 DEF o
<1>9. CASE r.len # 0 /\ ~c.p2_msg_pending /\ ~IsResponse(c, r) /\ Handled(f, r, a, t, o)
  <2>1. Timely(c, r, t, o)
    BY <1>3, <1>9 DEF Timely, Handled
  <2>2. LocksOut(c, a, t, o)
    BY <1>3, <1>9 DEF LocksOut, Handled, Delayed
  <2>3. KeepsClient(c, r, a, o)
    BY <1>3, <1>9 DEF KeepsClient, Handled, Services
  <2> QED
    BY <1>9, <2>1, <2>2, <2>3 DEF Handled, o
<1> QED
  BY <1>1, <1>6, <1>7, <1>8, <1>9

\* A turn of the main loop in order: the session falls back exactly when S3 has
\* run out, a wait goes on unchanged while P2* has not, and otherwise ends or
\* starts its period again with 0x78.
LEMMA ProcessInOrder ==
  ASSUME NEW c \in Ctx, NEW t \in Time
  PROVE  LET o == uds_process(c, t)
         IN  /\ o.ctx.last_msg_time = c.last_msg_time
             /\ o.ctx.security_delay_end = c.security_delay_end
             /\ o.ctx.client_cb = c.client_cb /\ o.ctx.pending_sid = c.pending_sid
             /\ o.ctx.active_session = IF S3Expired(c, t) THEN DEFAULT ELSE c.active_session
             /\ o.ctx.p2_msg_pending => c.p2_msg_pending
             /\ TX_SIZE >= 3 /\ o.ctx.p2_msg_pending =>
                  IF P2Expired(c, t)
                  THEN /\ ~RcrrpExhausted(c) /\ Sent78(o.out)
                       /\ o.ctx.p2_timer_start = t /\ o.ctx.p2_star_active
                       /\ o.ctx.rcrrp_count = (c.rcrrp_count + 1) % RCRRP_MOD
                  ELSE /\ ~Sent78(o.out)
                       /\ o.ctx.p2_timer_start = c.p2_timer_start
                       /\ o.ctx.p2_star_active = c.p2_star_active
                       /\ o.ctx.rcrrp_count = c.rcrrp_count
             /\ \A i \in DOMAIN o.out : \E nrc \in {CONDITIONS_NOT_CORRECT, RESPONSE_PENDING} :
                  o.out[i] = Neg(c.pending_sid, nrc)
<1> DEFINE o == uds_process(c, t)
           d == revert_session(c, t)
           x == uds_send_nrc(d, d.pending_sid, CONDITIONS_NOT_CORRECT)
           y == uds_send_nrc(d, d.pending_sid, RESPONSE_PENDING)
           n == (c.rcrrp_count + 1) % RCRRP_MOD
           e == [x.ctx EXCEPT !.rcrrp_count = 0]
           f == [y.ctx EXCEPT !.rcrrp_count = (@ + 1) % RCRRP_MOD,
                              !.p2_star_active = TRUE, !.p2_timer_start = t]
<1>0. TX_SIZE >= 3 <=> ~(TX_SIZE < 3)
  BY ConfigAssumption
<1>1. /\ d \in Ctx
      /\ d.active_session = IF S3Expired(c, t) THEN DEFAULT ELSE c.active_session
      /\ d.last_msg_time = c.last_msg_time
      /\ d.security_delay_end = c.security_delay_end
      /\ d.client_cb = c.client_cb /\ d.pending_sid = c.pending_sid
      /\ d.p2_msg_pending = c.p2_msg_pending
      /\ d.p2_timer_start = c.p2_timer_start
      /\ d.p2_star_active = c.p2_star_active /\ d.rcrrp_count = c.rcrrp_count
  <2> DEFINE z == [c EXCEPT !.active_session = DEFAULT, !.security_level = 0]
  <2>1. DEFAULT \in Sessions /\ 0 \in 0 .. 63
    BY DEF Sessions, DEFAULT
  <2>2. z \in Ctx /\ z.active_session = DEFAULT
    BY <2>1 DEF Ctx
  <2>3. /\ z.last_msg_time = c.last_msg_time
        /\ z.security_delay_end = c.security_delay_end
        /\ z.client_cb = c.client_cb /\ z.pending_sid = c.pending_sid
        /\ z.p2_msg_pending = c.p2_msg_pending
        /\ z.p2_timer_start = c.p2_timer_start
        /\ z.p2_star_active = c.p2_star_active /\ z.rcrrp_count = c.rcrrp_count
    BY DEF Ctx
  <2>4. d = IF S3Expired(c, t) THEN z ELSE c
    BY DEF revert_session
  <2> HIDE DEF z, d
  <2> QED
    BY <2>2, <2>3, <2>4
<1>2. o = IF ~P2Expired(d, t) THEN Outcome(d, <<>>)
          ELSE IF RcrrpExhausted(d) THEN [x EXCEPT !.ctx = e] ELSE [y EXCEPT !.ctx = f]
  BY DEF uds_process, abort_pending, repeat_pending
<1> HIDE DEF d, o
<1>3. (P2Expired(d, t) <=> P2Expired(c, t)) /\ (RcrrpExhausted(d) <=> RcrrpExhausted(c))
  BY <1>1 DEF P2Expired, RcrrpExhausted
<1>4. d.pending_sid \in Byte
  BY <1>1 DEF Ctx
<1>5. Quiet(d, d.pending_sid, x) /\ Quiet(d, d.pending_sid, y)
  BY <1>1, <1>4, QuietNrc, Codes
<1>6. /\ x.out \in {<<>>, <<Neg(c.pending_sid, CONDITIONS_NOT_CORRECT)>>}
      /\ y.out \in {<<>>, <<Neg(c.pending_sid, RESPONSE_PENDING)>>}
      /\ TX_SIZE >= 3 => y.out = <<Neg(c.pending_sid, RESPONSE_PENDING)>>
  BY <1>0, <1>1 DEF uds_send_nrc, Outcome
<1>7. /\ TX_SIZE >= 3 => ~x.ctx.p2_msg_pending
      /\ y.ctx.rcrrp_count = d.rcrrp_count
  <2>1. CONDITIONS_NOT_CORRECT # RESPONSE_PENDING
    BY DEF CONDITIONS_NOT_CORRECT, RESPONSE_PENDING
  <2>2. TX_SIZE >= 3 => ~x.ctx.p2_msg_pending
    BY <1>0, <1>1, <2>1 DEF uds_send_nrc, Outcome, Ctx
  <2>3. y.ctx.rcrrp_count = d.rcrrp_count
    BY <1>1 DEF uds_send_nrc, Outcome, Ctx
  <2> QED
    BY <2>2, <2>3
<1> HIDE DEF x, y
<1>8. x \in OutcomeType /\ y \in OutcomeType /\ x.ctx \in Ctx /\ y.ctx \in Ctx
  BY <1>5 DEF Quiet, Calm, OutcomeType
<1>9. CASE ~P2Expired(c, t)
  <2>1. o.ctx = d /\ o.out = <<>>
    BY <1>2, <1>3, <1>9 DEF Outcome
  <2>2. ~Sent78(o.out)
    BY <2>1 DEF Sent78
  <2> QED
    BY <1>1, <1>9, <2>1, <2>2 DEF o
<1>10. CASE P2Expired(c, t) /\ RcrrpExhausted(c)
  <2>1. /\ e.last_msg_time = x.ctx.last_msg_time
        /\ e.security_delay_end = x.ctx.security_delay_end
        /\ e.client_cb = x.ctx.client_cb /\ e.pending_sid = x.ctx.pending_sid
        /\ e.active_session = x.ctx.active_session
        /\ e.p2_msg_pending = x.ctx.p2_msg_pending
    BY <1>7, <1>8 DEF Ctx
  <2> HIDE DEF e
  <2>2. o.ctx = e /\ o.out = x.out
    BY <1>2, <1>3, <1>8, <1>10 DEF OutcomeType
  <2>3. \A i \in DOMAIN o.out : o.out[i] = Neg(c.pending_sid, CONDITIONS_NOT_CORRECT)
    BY <1>6, <2>2
  <2>4. /\ o.ctx.last_msg_time = c.last_msg_time
        /\ o.ctx.security_delay_end = c.security_delay_end
        /\ o.ctx.client_cb = c.client_cb /\ o.ctx.pending_sid = c.pending_sid
        /\ o.ctx.active_session = d.active_session
        /\ o.ctx.p2_msg_pending => c.p2_msg_pending
        /\ TX_SIZE >= 3 => ~o.ctx.p2_msg_pending
    BY <1>1, <1>5, <1>7, <2>1, <2>2 DEF Quiet, Calm
  <2> QED
    BY <1>1, <2>3, <2>4 DEF o
<1>11. CASE P2Expired(c, t) /\ ~RcrrpExhausted(c)
  <2>1. /\ f.last_msg_time = y.ctx.last_msg_time
        /\ f.security_delay_end = y.ctx.security_delay_end
        /\ f.client_cb = y.ctx.client_cb /\ f.pending_sid = y.ctx.pending_sid
        /\ f.active_session = y.ctx.active_session
        /\ f.p2_msg_pending = y.ctx.p2_msg_pending
        /\ f.p2_timer_start = t /\ f.p2_star_active
    BY <1>8 DEF Ctx
  <2>2. f.rcrrp_count = n
    BY <1>1, <1>7, <1>8 DEF Ctx
  <2> HIDE DEF f, n
  <2>3. o.ctx = f /\ o.out = y.out
    BY <1>2, <1>3, <1>8, <1>11 DEF OutcomeType
  <2>4. /\ TX_SIZE >= 3 => 1 \in DOMAIN o.out
        /\ \A i \in DOMAIN o.out : o.out[i] = Neg(c.pending_sid, RESPONSE_PENDING)
    BY <1>6, <2>3
  <2>5. TX_SIZE >= 3 => Sent78(o.out)
    BY <2>4 DEF Sent78, Neg
  <2>6. /\ o.ctx.last_msg_time = c.last_msg_time
        /\ o.ctx.security_delay_end = c.security_delay_end
        /\ o.ctx.client_cb = c.client_cb /\ o.ctx.pending_sid = c.pending_sid
        /\ o.ctx.active_session = d.active_session
        /\ o.ctx.p2_msg_pending => c.p2_msg_pending
        /\ o.ctx.p2_timer_start = t /\ o.ctx.p2_star_active /\ o.ctx.rcrrp_count = n
    BY <1>1, <1>5, <2>1, <2>2, <2>3 DEF Quiet, Calm
  <2> QED
    BY <1>1, <1>11, <2>4, <2>5, <2>6 DEF o, n
<1> QED
  BY <1>9, <1>10, <1>11
=============================================================================
