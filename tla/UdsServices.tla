---------------------------- MODULE UdsServices ----------------------------
(***************************************************************************)
(* The service handlers (src/services/*.c) and the two operations through  *)
(* which everything is answered, uds_send_response and uds_send_nrc.  A    *)
(* handler maps a context c, a request r, the application's answer a and   *)
(* the time t to an outcome.                                               *)
(***************************************************************************)
EXTENDS UdsTypes

-----------------------------------------------------------------------------
(* Answering (uds_core.c) *)

\* Positive response of len bytes: dropped when it does not fit the transmit
\* buffer, consumed by the suppress flag, otherwise handed to the transport.
uds_send_response(c, sid, len) ==
  IF len > TX_SIZE
  THEN Outcome(c, <<>>)
  ELSE Outcome([c EXCEPT !.p2_msg_pending = FALSE,
                         !.suppress_pos_resp = FALSE,
                         !.rcrrp_count = 0],
               IF c.suppress_pos_resp THEN <<>> ELSE <<Pos(sid)>>)

\* Variant: a final negative response never ends the pending state.
uds_send_nrc_keeps_pending(c, sid, nrc) == Outcome(c, <<Neg(sid, nrc)>>)

\* Variant: any final negative response ends it, whatever SID it names.
uds_send_nrc_ends_any(c, sid, nrc) ==
  Outcome([c EXCEPT !.p2_msg_pending = @ /\ nrc = RESPONSE_PENDING],
          <<Neg(sid, nrc)>>)

\* Negative response: never suppressed.  Only a final one that names the
\* pending SID ends the pending state; the suppress flag is left as it is.
uds_send_nrc(c, sid, nrc) ==
  IF TX_SIZE < 3
  THEN Outcome(c, <<>>)
  ELSE Outcome([c EXCEPT !.p2_msg_pending =
                   @ /\ ~(nrc # RESPONSE_PENDING /\ sid = c.pending_sid)],
               <<Neg(sid, nrc)>>)

\* (uint8_t) -res: the NRC an application reports as a negative result.
NrcOf(res) == (-res) % 256

Prepend(ev, o) == [o EXCEPT !.out = <<ev>> \o o.out]
Postpone(o, ev) == [o EXCEPT !.out = Append(o.out, ev)]

\* Variant: a hook that is not registered, or refuses, is not answered.
Delegate_ignores_failure(c, sid, fn, a, hdr) ==
  IF fn \notin Callbacks \/ a.res < 0 THEN Outcome(c, <<>>)
  ELSE uds_send_response(c, sid, a.res + hdr)

\* The tail shared by the services that only ask the application: the callback
\* fn runs, a negative result is an NRC, otherwise the response has hdr bytes
\* of header and the res bytes the callback wrote.
Delegate(c, sid, fn, a, hdr) ==
  IF fn \notin Callbacks
  THEN uds_send_nrc(c, sid, CONDITIONS_NOT_CORRECT)
  ELSE Prepend(Call(sid, 0),
         IF a.res < 0 THEN uds_send_nrc(c, sid, NrcOf(a.res))
                      ELSE uds_send_response(c, sid, a.res + hdr))

-----------------------------------------------------------------------------
(* Session control (0x10) and tester present (0x3E) *)

\* Variant: the level stored is the one before the transition.
handle_session_control_saves_old_level(c, r, a, t) ==
  LET lock == c.active_session # Sub(r) \/ Sub(r) = DEFAULT
      c1 == [c EXCEPT !.security_level = IF lock THEN 0 ELSE @,
                      !.active_session = Sub(r)]
  IN  Postpone(uds_send_response(c1, SESSION_CONTROL, 6),
               Save(Sub(r), c.security_level))

\* Variant: the session takes the byte with the suppress bit in it.
handle_session_control_unmasked(c, r, a, t) ==
  IF Sub(r) \notin Sessions
  THEN uds_send_nrc(c, SESSION_CONTROL, SUBFUNCTION_NOT_SUPPORTED)
  ELSE uds_send_response([c EXCEPT !.security_level = 0, !.active_session = r.b1],
                         SESSION_CONTROL, 6)

\* Variant: only a change of the session is saved.
handle_session_control_saves_changes(c, r, a, t) ==
  LET lock == c.active_session # Sub(r) \/ Sub(r) = DEFAULT
      c1 == [c EXCEPT !.security_level = IF lock THEN 0 ELSE @,
                      !.active_session = Sub(r)]
      o == uds_send_response(c1, SESSION_CONTROL, 6)
  IN  IF c.active_session # Sub(r) THEN Postpone(o, Save(Sub(r), c1.security_level))
      ELSE o

handle_session_control(c, r, a, t) ==
  LET s == Sub(r)
      c1 == [c EXCEPT !.security_level =
                        IF c.active_session # s \/ s = DEFAULT THEN 0 ELSE @,
                      !.active_session = s]
      o == uds_send_response(c1, SESSION_CONTROL, 6)
  IN  IF s \notin Sessions
      THEN uds_send_nrc(c, SESSION_CONTROL, SUBFUNCTION_NOT_SUPPORTED)
      ELSE IF "fn_nvm_save" \in Callbacks
      THEN Postpone(o, Save(c1.active_session, c1.security_level))
      ELSE o

handle_tester_present(c, r, a, t) ==
  IF Sub(r) = 0
  THEN uds_send_response(c, TESTER_PRESENT, 2)
  ELSE uds_send_nrc(c, TESTER_PRESENT, SUBFUNCTION_NOT_SUPPORTED)

-----------------------------------------------------------------------------
(* Security access (0x27) and authentication (0x29) *)

\* The delay is an absolute deadline; 0 means none.
Delayed(c, t) == c.security_delay_end # 0 /\ t < c.security_delay_end

RequestSeed(c, r, a) ==
  IF "fn_security_seed" \notin Callbacks
  THEN uds_send_nrc(c, SECURITY_ACCESS, CONDITIONS_NOT_CORRECT)
  ELSE IF a.res < 0 THEN uds_send_nrc(c, SECURITY_ACCESS, NrcOf(a.res))
       ELSE uds_send_response(c, SECURITY_ACCESS, a.res + 2)

KeyAccepted(c, r) ==
  LET c1 == [c EXCEPT !.security_attempts = 0, !.security_level = Sub(r) \div 2]
      o == uds_send_response(c1, SECURITY_ACCESS, 2)
  IN  IF "fn_nvm_save" \in Callbacks
      THEN Prepend(Save(c1.active_session, c1.security_level), o)
      ELSE o

\* Variant: a delay one tick short.
KeyRejected_short_delay(c, r, a, t) ==
  uds_send_nrc([c EXCEPT !.security_delay_end = (t + SEC_DELAY - 1) % TIME_MOD,
                         !.security_attempts = MAX_ATTEMPTS],
               SECURITY_ACCESS, EXCEEDED_ATTEMPTS)

KeyRejected(c, r, a, t) ==
  LET attempts == (c.security_attempts + 1) % ATTEMPTS_MOD
      c1 == [c EXCEPT !.security_attempts = attempts]
  IN  IF attempts >= MAX_ATTEMPTS
      THEN uds_send_nrc([c1 EXCEPT !.security_delay_end =
                                     (t + SEC_DELAY) % TIME_MOD],
                        SECURITY_ACCESS, EXCEEDED_ATTEMPTS)
      ELSE uds_send_nrc(c1, SECURITY_ACCESS,
                        IF a.res < 0 THEN NrcOf(a.res) ELSE INVALID_KEY)

\* The event Call(0x27, level) is the key comparison by fn_security_key.
SendKey(c, r, a, t) ==
  IF "fn_security_key" \notin Callbacks
  THEN uds_send_nrc(c, SECURITY_ACCESS, CONDITIONS_NOT_CORRECT)
  ELSE Prepend(Call(SECURITY_ACCESS, Sub(r) \div 2),
               IF a.res = 0 THEN KeyAccepted(c, r) ELSE KeyRejected(c, r, a, t))

\* Variant: the end of a delay also clears the attempts.
handle_security_access_forgets(c, r, a, t) ==
  LET c1 == [c EXCEPT !.security_delay_end = 0,
                      !.security_attempts =
                         IF c.security_delay_end # 0 THEN 0 ELSE @]
  IN  IF Delayed(c, t)
      THEN uds_send_nrc(c, SECURITY_ACCESS, REQUIRED_TIME_DELAY)
      ELSE SendKey(c1, r, a, t)

handle_security_access(c, r, a, t) ==
  LET c1 == [c EXCEPT !.security_delay_end = 0]
  IN  IF r.len < 2
      THEN uds_send_nrc(c, SECURITY_ACCESS, INCORRECT_LENGTH)
      ELSE IF Delayed(c, t)
      THEN uds_send_nrc(c, SECURITY_ACCESS, REQUIRED_TIME_DELAY)
      ELSE IF Sub(r) % 2 # 0 THEN RequestSeed(c1, r, a)
      ELSE SendKey(c1, r, a, t)

handle_authentication(c, r, a, t) ==
  IF r.len < 2
  THEN uds_send_nrc(c, AUTHENTICATION, INCORRECT_LENGTH)
  ELSE Delegate(c, AUTHENTICATION, "fn_auth", a, 2)

-----------------------------------------------------------------------------
(* Maintenance: 0x11, 0x28, 0x14, 0x19, 0x85 *)

\* if (suppress_pos_resp) ctx->suppress_pos_resp = true;
NoteSuppress(c, r) ==
  [c EXCEPT !.suppress_pos_resp = @ \/ Suppressed(r)]

\* if (suppress_pos_resp) return UDS_OK; -- the flag stays set.
ReplyUnlessSuppressed(c, sid, r, len) ==
  IF Suppressed(r) THEN Outcome(c, <<>>) ELSE uds_send_response(c, sid, len)

\* fn_reset runs before the response is handed to the transport.
handle_ecu_reset(c, r, a, t) ==
  LET c1 == NoteSuppress(c, r)
      o == ReplyUnlessSuppressed(c1, ECU_RESET, r, 2)
  IN  IF r.len < 2
      THEN uds_send_nrc(c, ECU_RESET, INCORRECT_LENGTH)
      ELSE IF Sub(r) \notin 1 .. 5
      THEN uds_send_nrc(c, ECU_RESET, SUBFUNCTION_NOT_SUPPORTED)
      ELSE IF "fn_reset" \in Callbacks THEN Prepend(Call(ECU_RESET, Sub(r)), o)
      ELSE o

\* Variant: no return after the application has refused.
handle_comm_control_answers_twice(c, r, a, t) ==
  LET o == uds_send_nrc(c, COMM_CONTROL, NrcOf(a.res))
  IN  IF a.res = 0 THEN uds_send_response(c, COMM_CONTROL, 2)
      ELSE Postpone(o, Pos(COMM_CONTROL))

handle_comm_control(c, r, a, t) ==
  LET c1 == NoteSuppress(c, r)
      hooked == "fn_comm_control" \in Callbacks
      o == IF hooked /\ a.res # 0
           THEN uds_send_nrc(c1, COMM_CONTROL, NrcOf(a.res))
           ELSE ReplyUnlessSuppressed([c1 EXCEPT !.comm_state = Sub(r)],
                                      COMM_CONTROL, r, 2)
  IN  IF r.len < 3
      THEN uds_send_nrc(c, COMM_CONTROL, INCORRECT_LENGTH)
      ELSE IF Sub(r) > 5
      THEN uds_send_nrc(c, COMM_CONTROL, SUBFUNCTION_NOT_SUPPORTED)
      ELSE IF r.b2 % 16 \notin 1 .. 3
      THEN uds_send_nrc(c, COMM_CONTROL, REQUEST_OUT_OF_RANGE)
      ELSE IF hooked THEN Prepend(Call(COMM_CONTROL, Sub(r)), o)
      ELSE o

handle_clear_dtc(c, r, a, t) ==
  IF r.len < 4
  THEN uds_send_nrc(c, CLEAR_DTC, INCORRECT_LENGTH)
  ELSE IF "fn_dtc_clear" \notin Callbacks
  THEN uds_send_nrc(c, CLEAR_DTC, CONDITIONS_NOT_CORRECT)
  ELSE Prepend(Call(CLEAR_DTC, 0),
               IF a.res # 0 THEN uds_send_nrc(c, CLEAR_DTC, NrcOf(a.res))
                            ELSE uds_send_response(c, CLEAR_DTC, 1))

\* Sub-functions that carry a DTCStatusMask.
MaskedSubs == {1, 2, 7, 8, 15, 17, 18, 19}

handle_read_dtc_info(c, r, a, t) ==
  LET c1 == NoteSuppress(c, r)
  IN  IF r.len < 2 \/ (Sub(r) \in MaskedSubs /\ r.len < 3)
      THEN uds_send_nrc(c, READ_DTC_INFO, INCORRECT_LENGTH)
      ELSE IF "fn_dtc_read" \notin Callbacks
      THEN uds_send_nrc(c, READ_DTC_INFO, CONDITIONS_NOT_CORRECT)
      ELSE Prepend(Call(READ_DTC_INFO, Sub(r)),
                   IF a.res < 0
                   THEN uds_send_nrc(c1, READ_DTC_INFO, NrcOf(a.res))
                   ELSE ReplyUnlessSuppressed(c1, READ_DTC_INFO, r, a.res + 2))

handle_control_dtc_setting(c, r, a, t) ==
  IF r.len < 2
  THEN uds_send_nrc(c, CONTROL_DTC_SETTING, INCORRECT_LENGTH)
  ELSE IF Sub(r) \notin {1, 2}
  THEN uds_send_nrc(c, CONTROL_DTC_SETTING, SUBFUNCTION_NOT_SUPPORTED)
  ELSE uds_send_response(NoteSuppress(c, r), CONTROL_DTC_SETTING, 2)

-----------------------------------------------------------------------------
(* Data identifiers: 0x22, 0x2E, 0x2F *)

\* uds_did_entry_t: size, the bits of session_mask and security_mask ({} = mask
\* 0), and where the data lives: "callback" (read/write set), "storage" or "none".
DidEntry == [size: Nat, sess: SUBSET (0 .. 7), sec: SUBSET Nat,
             via: {"callback", "storage", "none"}]

\* A session is tested by the bit below its number: 1 for programming (2) and 2
\* for extended (3), the other way round than the UDS_SESSION_ constants that
\* the masks of services use (get_session_bit).
DidSessionOK(c, e) == e.sess = {} \/ c.active_session - 1 \in e.sess
DidSecurityOK(c, e) == e.sec = {} \/ c.security_level \in e.sec

DidSize(did) == IF did \in DOMAIN Dids THEN Dids[did].size ELSE 0

\* Where the response ends once did is served behind used bytes.
EndOf(used, did) == used + DidSize(did) + 2

\* The loop over the requested DIDs stops at the first one that cannot be
\* served; DidNrc(c, did, used, a) is its NRC, 0 when the DID is served and
\* used bytes of the response are already written.
DidNrc(c, did, used, a) ==
  IF did \notin DOMAIN Dids THEN REQUEST_OUT_OF_RANGE
  ELSE IF ~DidSessionOK(c, Dids[did]) THEN REQUEST_OUT_OF_RANGE
  ELSE IF ~DidSecurityOK(c, Dids[did]) THEN SECURITY_ACCESS_DENIED
  ELSE IF EndOf(used, did) > TX_SIZE THEN RESPONSE_TOO_LONG
  ELSE IF Dids[did].via = "callback" /\ a.res < 0 THEN NrcOf(a.res)
  ELSE IF Dids[did].via = "none" THEN CONDITIONS_NOT_CORRECT
  ELSE 0

handle_read_data_by_id(c, r, a, t) ==
  LET n == (r.len - 1) \div 2
      used[i \in 0 .. n] == IF i = 0 THEN 1 ELSE EndOf(used[i - 1], r.ids[i])
      bad == {i \in 1 .. n : DidNrc(c, r.ids[i], used[i - 1], a) # 0}
      first == CHOOSE i \in bad : \A j \in bad : i <= j
  IN  IF bad # {}
      THEN uds_send_nrc(c, READ_DATA_BY_ID,
                        DidNrc(c, r.ids[first], used[first - 1], a))
      ELSE uds_send_response(c, READ_DATA_BY_ID, used[n])

handle_write_data_by_id(c, r, a, t) ==
  LET did == r.ids[1]
      e == Dids[did]
  IN  IF r.len < 3
      THEN uds_send_nrc(c, WRITE_DATA_BY_ID, INCORRECT_LENGTH)
      ELSE IF did \notin DOMAIN Dids \/ ~DidSessionOK(c, e)
      THEN uds_send_nrc(c, WRITE_DATA_BY_ID, REQUEST_OUT_OF_RANGE)
      ELSE IF ~DidSecurityOK(c, e)
      THEN uds_send_nrc(c, WRITE_DATA_BY_ID, SECURITY_ACCESS_DENIED)
      ELSE IF r.len # 3 + e.size
      THEN uds_send_nrc(c, WRITE_DATA_BY_ID, INCORRECT_LENGTH)
      ELSE IF e.via = "none"
      THEN uds_send_nrc(c, WRITE_DATA_BY_ID, CONDITIONS_NOT_CORRECT)
      ELSE Prepend(Call(WRITE_DATA_BY_ID, 0),
             IF e.via = "callback" /\ a.res # 0
             THEN uds_send_nrc(c, WRITE_DATA_BY_ID, CONDITIONS_NOT_CORRECT)
             ELSE uds_send_response(c, WRITE_DATA_BY_ID, 3))

handle_io_control(c, r, a, t) ==
  LET did == r.ids[1]
      e == Dids[did]
  IN  IF r.len < 4
      THEN uds_send_nrc(c, IO_CONTROL_BY_ID, INCORRECT_LENGTH)
      ELSE IF "fn_io_control" \notin Callbacks
      THEN uds_send_nrc(c, IO_CONTROL_BY_ID, SERVICE_NOT_SUPPORTED)
      ELSE IF did \notin DOMAIN Dids
      THEN uds_send_nrc(c, IO_CONTROL_BY_ID, REQUEST_OUT_OF_RANGE)
      ELSE IF ~DidSessionOK(c, e)
      THEN uds_send_nrc(c, IO_CONTROL_BY_ID, SERVICE_NOT_SUPP_IN_SESS)
      ELSE IF ~DidSecurityOK(c, e)
      THEN uds_send_nrc(c, IO_CONTROL_BY_ID, SECURITY_ACCESS_DENIED)
      ELSE Delegate(c, IO_CONTROL_BY_ID, "fn_io_control", a, 3)

-----------------------------------------------------------------------------
(* Memory: 0x23, 0x3D *)

\* addressAndLengthFormatIdentifier: low nibble address, high nibble size.
AddrLen(format) == format % 16
SizeLen(format) == format \div 16
AlfidOK(format) == AddrLen(format) \in 1 .. 4 /\ SizeLen(format) \in 1 .. 4

parse_addr_len(avail, format) ==
  AlfidOK(format) /\ avail >= AddrLen(format) + SizeLen(format)

handle_read_memory_by_addr(c, r, a, t) ==
  LET nrc(n) == uds_send_nrc(c, READ_MEM_BY_ADDR, n)
  IN  IF r.len < 3 THEN nrc(INCORRECT_LENGTH)
      ELSE IF ~AlfidOK(r.b1) THEN nrc(REQUEST_OUT_OF_RANGE)
      ELSE IF ~parse_addr_len(r.len - 2, r.b1) THEN nrc(INCORRECT_LENGTH)
      ELSE IF "fn_mem_read" \notin Callbacks THEN nrc(CONDITIONS_NOT_CORRECT)
      ELSE IF r.size > TX_SIZE - 1 THEN nrc(RESPONSE_TOO_LONG)
      ELSE Prepend(Call(READ_MEM_BY_ADDR, 0),
                   IF a.res < 0 THEN nrc(NrcOf(a.res))
                   ELSE uds_send_response(c, READ_MEM_BY_ADDR, r.size + 1))

handle_write_memory_by_addr(c, r, a, t) ==
  LET nrc(n) == uds_send_nrc(c, WRITE_MEM_BY_ADDR, n)
      consumed == 2 + AddrLen(r.b1) + SizeLen(r.b1)
  IN  IF r.len < 3 THEN nrc(INCORRECT_LENGTH)
      ELSE IF ~AlfidOK(r.b1) THEN nrc(REQUEST_OUT_OF_RANGE)
      ELSE IF ~parse_addr_len(r.len - 2, r.b1) THEN nrc(INCORRECT_LENGTH)
      ELSE IF r.len # (consumed + r.size) % LEN_MOD THEN nrc(INCORRECT_LENGTH)
      ELSE IF "fn_mem_write" \notin Callbacks THEN nrc(CONDITIONS_NOT_CORRECT)
      ELSE IF "fn_is_safe" \in Callbacks /\ ~a.again
      THEN nrc(CONDITIONS_NOT_CORRECT)
      ELSE Prepend(Call(WRITE_MEM_BY_ADDR, 0),
                   IF a.res < 0 THEN nrc(NrcOf(a.res))
                   ELSE uds_send_response(c, WRITE_MEM_BY_ADDR, consumed))

-----------------------------------------------------------------------------
(* Flash: 0x31, 0x34, 0x35, 0x36, 0x37 *)

handle_routine_control(c, r, a, t) ==
  IF r.len < 4
  THEN uds_send_nrc(c, ROUTINE_CONTROL, INCORRECT_LENGTH)
  ELSE Delegate(c, ROUTINE_CONTROL, "fn_routine_control", a, 4)

\* 0x34 and 0x35 once their length is right: the callback accepts the memory
\* range, and the block counter restarts.
StartTransfer(c, sid, fn, a) ==
  IF fn \notin Callbacks
  THEN uds_send_nrc(c, sid, CONDITIONS_NOT_CORRECT)
  ELSE Prepend(Call(sid, 0),
         IF a.res < 0 THEN uds_send_nrc(c, sid, NrcOf(a.res))
         ELSE uds_send_response([c EXCEPT !.flash_sequence = 0], sid, 6))

handle_request_download(c, r, a, t) ==
  LET nrc(n) == uds_send_nrc(c, REQUEST_DOWNLOAD, n)
  IN  IF r.len < 4 THEN nrc(INCORRECT_LENGTH)
      ELSE IF ~AlfidOK(r.b2) THEN nrc(REQUEST_OUT_OF_RANGE)
      ELSE IF ~parse_addr_len(r.len - 3, r.b2) THEN nrc(INCORRECT_LENGTH)
      ELSE StartTransfer(c, REQUEST_DOWNLOAD, "fn_request_download", a)

handle_request_upload(c, r, a, t) ==
  IF r.len < 4 \/ ~parse_addr_len(r.len - 3, r.b2)
  THEN uds_send_nrc(c, REQUEST_UPLOAD, INCORRECT_LENGTH)
  ELSE StartTransfer(c, REQUEST_UPLOAD, "fn_request_upload", a)

\* A counter of 0 stands for "no block yet": the first block must be 1.
ExpectedBlock(c) ==
  IF c.flash_sequence = 0 THEN 1
  ELSE IF c.flash_sequence = SEQ_MOD - 1 THEN 0
  ELSE c.flash_sequence + 1

\* Variant: a replay is never recognised.
IsReplay_never(c, sequence) == FALSE

IsReplay(c, sequence) ==
  REPLAY /\ c.flash_sequence # 0 /\ sequence = c.flash_sequence

\* Variants: a replayed block is written again; the counter advances before the
\* application has taken the block; a replay is not answered.
handle_transfer_data_rewrites(c, r, a, t) ==
  Prepend(Call(TRANSFER_DATA, r.b1),
          uds_send_response([c EXCEPT !.flash_sequence = r.b1], TRANSFER_DATA, 2))

handle_transfer_data_counts_refused(c, r, a, t) ==
  LET c1 == [c EXCEPT !.flash_sequence = r.b1]
  IN  IF r.b1 # ExpectedBlock(c) THEN uds_send_response(c, TRANSFER_DATA, 2)
      ELSE Prepend(Call(TRANSFER_DATA, r.b1),
                   IF a.res < 0 THEN uds_send_nrc(c1, TRANSFER_DATA, NrcOf(a.res))
                   ELSE uds_send_response(c1, TRANSFER_DATA, 2))

handle_transfer_data_ignores_replay(c, r, a, t) ==
  IF r.b1 # ExpectedBlock(c) THEN Outcome(c, <<>>)
  ELSE Prepend(Call(TRANSFER_DATA, r.b1),
               uds_send_response([c EXCEPT !.flash_sequence = r.b1], TRANSFER_DATA, 2))

handle_transfer_data(c, r, a, t) ==
  LET sequence == r.b1
      nrc(n) == uds_send_nrc(c, TRANSFER_DATA, n)
  IN  IF r.len < 2 THEN nrc(INCORRECT_LENGTH)
      ELSE IF "fn_transfer_data" \notin Callbacks THEN nrc(CONDITIONS_NOT_CORRECT)
      ELSE IF sequence = ExpectedBlock(c)
      THEN Prepend(Call(TRANSFER_DATA, sequence),
                   IF a.res < 0 THEN nrc(NrcOf(a.res))
                   ELSE uds_send_response([c EXCEPT !.flash_sequence = sequence],
                                          TRANSFER_DATA, 2))
      ELSE IF IsReplay(c, sequence)
      THEN uds_send_response(c, TRANSFER_DATA, 2)
      ELSE nrc(REQUEST_SEQUENCE_ERROR)

\* The block counter is left as it is.
handle_request_transfer_exit(c, r, a, t) ==
  IF "fn_transfer_exit" \notin Callbacks
  THEN uds_send_nrc(c, TRANSFER_EXIT, CONDITIONS_NOT_CORRECT)
  ELSE Prepend(Call(TRANSFER_EXIT, 0),
         IF a.res < 0 THEN uds_send_nrc(c, TRANSFER_EXIT, NrcOf(a.res))
                      ELSE uds_send_response(c, TRANSFER_EXIT, 1))

-----------------------------------------------------------------------------
(* Services of the application (config->user_services) *)

\* A user handler answers at once, or returns UDS_PENDING and answers later.
user_handler(c, r, a, t) ==
  IF a.res = UDS_PENDING
  THEN [ctx |-> c, out |-> <<Call(r.sid, 0)>>, ret |-> "pending"]
  ELSE Prepend(Call(r.sid, 0),
         IF a.res < 0 THEN uds_send_nrc(c, r.sid, NrcOf(a.res))
                      ELSE uds_send_response(c, r.sid, a.res + 1))
=============================================================================
