------------------------------- MODULE MCUds -------------------------------
(***************************************************************************)
(* Small instances of UdsCore for TLC: sets of requests, of application    *)
(* answers and of services, from which each configuration picks.           *)
(***************************************************************************)
EXTENDS UdsProperties, TLC

Rq(sid, b1, len) ==
  [sid |-> sid, b1 |-> b1, b2 |-> 0, len |-> len, size |-> 0, ids |-> <<>>]

RqIds(sid, b1, len, ids) == [Rq(sid, b1, len) EXCEPT !.ids = ids]

Ans(res) == [safe |-> TRUE, again |-> TRUE, res |-> res, chain |-> 0]

OkOrError == {Ans(0), Ans(-34)}

NoDids == << >>
NoUser == {}
Intervals == <<1, 1, 2>>

-----------------------------------------------------------------------------
(* Sessions, security levels, NVM, S3 *)

SessionRequests ==
  { Rq(SESSION_CONTROL, 1, 2), Rq(SESSION_CONTROL, 3, 2), Rq(SESSION_CONTROL, 130, 2),
    Rq(SECURITY_ACCESS, 1, 2), Rq(SECURITY_ACCESS, 2, 3), Rq(SECURITY_ACCESS, 132, 3),
    Rq(TESTER_PRESENT, 128, 2), Rq(TESTER_PRESENT, 0, 0) }

-----------------------------------------------------------------------------
(* Asynchronous services: 0x31 overridden by the application, and 0xBA *)

UserService(sid, subs) ==
  [sid |-> sid, min_len |-> 2, sess |-> Sessions, sec |-> 0, subs |-> subs,
   user |-> TRUE]

AsyncServices == {UserService(ROUTINE_CONTROL, {1}), UserService(186, {})}
AsyncRequests ==
  { Rq(ROUTINE_CONTROL, 1, 4), Rq(ROUTINE_CONTROL, 129, 4), Rq(186, 0, 2),
    Rq(TRANSFER_EXIT, 0, 1), Rq(AUTHENTICATION, 1, 2), Rq(TESTER_PRESENT, 128, 2) }
AsyncAnswers == {Ans(UDS_PENDING), Ans(0), Ans(-34)}

-----------------------------------------------------------------------------
(* Every service, with its error paths *)

Mem(sid, b1, b2, len, size) == [Rq(sid, b1, len) EXCEPT !.b2 = b2, !.size = size]

DidTable ==
  1 :> [size |-> 2, sess |-> {}, sec |-> {}, via |-> "storage"] @@
  2 :> [size |-> 1, sess |-> {2}, sec |-> {1}, via |-> "callback"] @@
  3 :> [size |-> 1, sess |-> {}, sec |-> {}, via |-> "none"] @@
  4 :> [size |-> 60, sess |-> {}, sec |-> {}, via |-> "callback"]

RestrictedService ==
  {[sid |-> 187, min_len |-> 1, sess |-> {3}, sec |-> 1, subs |-> {1}, user |-> TRUE]}

SubRequests ==
  { Rq(SESSION_CONTROL, 131, 2), Rq(SESSION_CONTROL, 0, 1),
    Rq(SESSION_CONTROL, 4, 2), Rq(ECU_RESET, 1, 2), Rq(ECU_RESET, 129, 2),
    Rq(READ_DTC_INFO, 2, 3), Rq(READ_DTC_INFO, 130, 3), Rq(READ_DTC_INFO, 2, 2),
    Rq(SECURITY_ACCESS, 1, 2), Rq(SECURITY_ACCESS, 2, 3), Rq(SECURITY_ACCESS, 130, 3),
    Mem(COMM_CONTROL, 0, 1, 3, 0), Mem(COMM_CONTROL, 128, 3, 3, 0),
    Mem(COMM_CONTROL, 1, 0, 3, 0), Rq(COMM_CONTROL, 1, 2),
    Rq(ROUTINE_CONTROL, 130, 4), Rq(ROUTINE_CONTROL, 1, 3),
    Rq(CONTROL_DTC_SETTING, 1, 2), Rq(CONTROL_DTC_SETTING, 130, 2),
    Rq(TESTER_PRESENT, 0, 2), Rq(TESTER_PRESENT, 128, 2), Rq(187, 1, 2), Rq(187, 129, 2) }

PlainRequests ==
  { Rq(CLEAR_DTC, 0, 4), Rq(CLEAR_DTC, 0, 3),
    RqIds(READ_DATA_BY_ID, 0, 5, <<1, 2>>), RqIds(READ_DATA_BY_ID, 0, 5, <<1, 3>>),
    RqIds(READ_DATA_BY_ID, 0, 5, <<1, 4>>), RqIds(READ_DATA_BY_ID, 0, 3, <<9>>),
    RqIds(WRITE_DATA_BY_ID, 0, 5, <<1>>), RqIds(WRITE_DATA_BY_ID, 0, 4, <<2>>),
    RqIds(WRITE_DATA_BY_ID, 0, 5, <<4>>), RqIds(WRITE_DATA_BY_ID, 0, 4, <<3>>),
    RqIds(WRITE_DATA_BY_ID, 0, 4, <<9>>),
    RqIds(IO_CONTROL_BY_ID, 0, 4, <<1>>), RqIds(IO_CONTROL_BY_ID, 0, 4, <<2>>),
    RqIds(IO_CONTROL_BY_ID, 0, 4, <<9>>),
    Mem(READ_MEM_BY_ADDR, 17, 0, 4, 4), Mem(READ_MEM_BY_ADDR, 17, 0, 4, 64),
    Mem(READ_MEM_BY_ADDR, 5, 0, 4, 4), Mem(READ_MEM_BY_ADDR, 34, 0, 4, 4),
    Mem(WRITE_MEM_BY_ADDR, 17, 0, 6, 2), Mem(WRITE_MEM_BY_ADDR, 17, 0, 6, 3),
    Mem(WRITE_MEM_BY_ADDR, 0, 0, 6, 2), Mem(WRITE_MEM_BY_ADDR, 34, 0, 4, 0),
    Mem(REQUEST_DOWNLOAD, 0, 17, 5, 0), Mem(REQUEST_DOWNLOAD, 0, 81, 5, 0),
    Mem(REQUEST_DOWNLOAD, 0, 34, 5, 0),
    Mem(REQUEST_UPLOAD, 0, 17, 5, 0), Mem(REQUEST_UPLOAD, 0, 80, 5, 0),
    Rq(TRANSFER_DATA, 1, 3), Rq(TRANSFER_DATA, 3, 3), Rq(TRANSFER_EXIT, 0, 1),
    Rq(AUTHENTICATION, 129, 2), Rq(186, 0, 1) }

ServiceRequests == SubRequests \cup PlainRequests

AllCallbacks ==
  { "fn_is_safe", "fn_reset", "fn_comm_control", "fn_dtc_clear", "fn_dtc_read",
    "fn_security_seed", "fn_security_key", "fn_auth", "fn_routine_control",
    "fn_request_download", "fn_request_upload", "fn_transfer_data",
    "fn_transfer_exit", "fn_mem_read", "fn_mem_write", "fn_io_control",
    "fn_periodic_read" }

\* Safe; a refusal; and one that is not safe, whose client asks again.
ServiceAnswers ==
  { Ans(0), [Ans(-34) EXCEPT !.again = FALSE],
    [Ans(0) EXCEPT !.safe = FALSE, !.chain = SESSION_CONTROL] }

-----------------------------------------------------------------------------
(* Periodic identifiers *)

PeriodicAdds ==
  { RqIds(READ_BY_PER_ID, 1, 3, <<7>>), RqIds(READ_BY_PER_ID, 3, 5, <<8, 9, 8>>) }
PeriodicStops ==
  { RqIds(READ_BY_PER_ID, 4, 4, <<8, 7>>), RqIds(READ_BY_PER_ID, 132, 2, <<>>) }
PeriodicRequests == PeriodicAdds \cup PeriodicStops
PeriodicAndAsync == PeriodicRequests \cup {Rq(186, 0, 2)}
StopZero == {RqIds(READ_BY_PER_ID, 4, 3, <<0>>)}
PeriodicAndZero == PeriodicRequests \cup StopZero
Pend == {Ans(UDS_PENDING)}

-----------------------------------------------------------------------------
(* Client role *)

\* Responses to 0x22 and 0x10, and negative ones that name them.
ClientResponses ==
  { Rq(98, 0, 4), Rq(SERVICE_NOT_SUPP_IN_SESS, READ_DATA_BY_ID, 3),
    Rq(80, 1, 6), Rq(SERVICE_NOT_SUPP_IN_SESS, SESSION_CONTROL, 3) }
ServicesAndClient == ServiceRequests \cup ClientResponses
OneAsync == {UserService(186, {})}
=============================================================================
