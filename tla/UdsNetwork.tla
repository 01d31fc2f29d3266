----------------------------- MODULE UdsNetwork -----------------------------
(***************************************************************************)
(* Two contexts of this library on the two ends of a link: a tester that   *)
(* uses the client role to erase memory (0x31) and to download blocks      *)
(* (0x34, 0x36 ..., 0x37), and an ECU that serves it, the erasure          *)
(* asynchronously.  The link carries whole SDUs in order and may lose      *)
(* them, as the transport does when it drops a message.  The tester's      *)
(* application repeats a request that is not answered.  No clock: P2* is   *)
(* over whenever the ECU calls uds_process.                                *)
(***************************************************************************)
EXTENDS UdsDispatch

CONSTANTS
  BLOCKS,        \* blocks of the download
  MAX_LOSSES,    \* SDUs the link may lose
  MAX_EARLY,     \* requests repeated although the answer is still under way
  MAX_REFUSALS,  \* blocks that fn_transfer_data refuses
  MAX_SLOW,      \* erasures that return UDS_PENDING and are answered later
  CHECK_ECHO     \* the application compares the block counter of the answer

ASSUME NetworkAssumption ==
  /\ {BLOCKS, MAX_LOSSES, MAX_EARLY, MAX_REFUSALS, MAX_SLOW} \subseteq Nat
  /\ P2STAR = 0 /\ RCRRP_LIMIT > 0
  /\ \E e \in UserServices : e.sid = ROUTINE_CONTROL
  /\ CHECK_ECHO \in BOOLEAN

VARIABLES
  tester, ecu,   \* the uds_ctx_t of each end
  toEcu,         \* SDUs on their way, each with the block it carries
  toTester,
  app,           \* the tester's application: its position and what it does
  written,       \* the blocks given to fn_transfer_data, in order
  closed,        \* fn_transfer_exit has run
  erasing,       \* asynchronous erasures that the ECU has not answered
  faults         \* losses, early repetitions, refusals and slow erasures

vars == <<tester, ecu, toEcu, toTester, app, written, closed, erasing, faults>>

-----------------------------------------------------------------------------
(* SDUs *)

Sdu(sid, b1, b2, len) ==
  [sid |-> sid, b1 |-> b1, b2 |-> b2, len |-> len, size |-> 0, ids |-> <<>>]

\* The steps of the tester: 0 erases, 1 opens the download, n + 1 transfers
\* block n, the last one closes it.  The block counter starts at 1 and wraps.
LAST == BLOCKS + 2
Block(step) == IF step \in 2 .. BLOCKS + 1 THEN step - 1 ELSE 0
Counter(step) == Block(step) % SEQ_MOD

RequestAt(step) ==
  [block |-> Block(step),
   sdu |-> IF step = 0 THEN Sdu(ROUTINE_CONTROL, 1, 0, 4)
           ELSE IF step = 1 THEN Sdu(REQUEST_DOWNLOAD, 0, 17, 5)
           ELSE IF step < LAST THEN Sdu(TRANSFER_DATA, Counter(step), 0, 3)
           ELSE Sdu(TRANSFER_EXIT, 0, 0, 1)]

\* The SDU of an event: a positive response echoes the byte after the SID.
Response(e, r) ==
  [sdu |-> IF e.k = "pos" THEN Sdu(e.sid + 64, r.b1, 0, 2)
           ELSE Sdu(SERVICE_NOT_SUPP_IN_SESS, e.sid, e.v, 3),
   block |-> 0]

\* What a call says: at most one message.
Responses(events, r) ==
  IF Message(events) = <<>> THEN <<>> ELSE <<Response(Message(events)[1], r)>>

CalledFor(events, sid) == \E i \in DOMAIN events : events[i].k = "call" /\ events[i].sid = sid

CallsBack(events) == \E i \in DOMAIN events : events[i].k = "cb"

\* An SDU that neither asks for nor answers a step of the tester: the refusal
\* of a response that was taken for a request, and the refusal of that.
Stray(m) ==
  /\ m.sdu.sid = SERVICE_NOT_SUPP_IN_SESS
  /\ m.sdu.b1 \notin {ROUTINE_CONTROL, REQUEST_DOWNLOAD, TRANSFER_DATA, TRANSFER_EXIT}

Awaited(q) == \E i \in DOMAIN q : ~Stray(q[i])

-----------------------------------------------------------------------------
(* The tester *)

TesterAnswer == [safe |-> TRUE, again |-> TRUE, res |-> 0, chain |-> 0]

NetInit ==
  /\ tester = uds_init(EmptyNvm) /\ ecu = uds_init(EmptyNvm)
  /\ toEcu = <<>> /\ toTester = <<>>
  /\ app = [at |-> 0, does |-> "ask"]
  /\ written = <<>> /\ closed = FALSE /\ erasing = 0
  /\ faults = [lost |-> 0, early |-> 0, refused |-> 0, slow |-> 0]

Ask ==
  LET m == RequestAt(app.at)
      o == uds_client_request(tester, m.sdu.sid)
  IN  /\ tester' = o.ctx
      /\ toEcu' = Append(toEcu, m)
      /\ app' = [app EXCEPT !.does = "wait"]
      /\ UNCHANGED <<ecu, toTester, written, closed, erasing>>

AskNext == app.does = "ask" /\ Ask /\ UNCHANGED faults

\* No answer in time: the request or its answer was lost, or is late.
Repeat ==
  /\ app.does = "wait"
  /\ \/ ~Awaited(toEcu) /\ ~Awaited(toTester) /\ UNCHANGED faults
     \/ /\ faults.early < MAX_EARLY
        /\ Awaited(toEcu) \/ Awaited(toTester)
        /\ faults' = [faults EXCEPT !.early = @ + 1]
  /\ Ask

\* The callback of the request: go on waiting, once more, no further, or next.
Reaction(r) ==
  IF r.sid = SERVICE_NOT_SUPP_IN_SESS
  THEN [app EXCEPT !.does = CASE r.b2 = RESPONSE_PENDING -> "wait"
                              [] r.b2 = REQUEST_SEQUENCE_ERROR -> "abort"
                              [] OTHER -> "ask"]
  ELSE IF CHECK_ECHO /\ Block(app.at) # 0 /\ r.b1 # Counter(app.at) THEN app
  ELSE [at |-> app.at + 1, does |-> IF app.at = LAST THEN "done" ELSE "ask"]

\* An SDU arrives at the tester: the response it waits for goes to the
\* callback, anything else is dispatched as a request.
TesterReceive ==
  /\ toTester # <<>>
  /\ toTester' = Tail(toTester)
  /\ LET r == Head(toTester).sdu
     IN  \E o \in {uds_input_sdu(tester, NoPeriodic, r, TesterAnswer, 0)} :
           /\ tester' = o.ctx
           /\ toEcu' = toEcu \o Responses(o.out, r)
           /\ app' = IF CallsBack(o.out) /\ app.does = "wait" THEN Reaction(r) ELSE app
  /\ UNCHANGED <<ecu, written, closed, erasing, faults>>

-----------------------------------------------------------------------------
(* The ECU *)

\* What the ECU's application may return: success, UDS_PENDING for an erasure,
\* the refusal of a block.
Results == {0, UDS_PENDING, -CONDITIONS_NOT_CORRECT}

\* An SDU arrives at the ECU; res is what the application's callback returns.
EcuReceive(res) ==
  /\ toEcu # <<>>
  /\ toEcu' = Tail(toEcu)
  /\ LET m == Head(toEcu)
         a == [TesterAnswer EXCEPT !.res = res]
     IN  \E o \in {uds_input_sdu(ecu, NoPeriodic, m.sdu, a, 0)} :
           LET slow == o.ret = "pending"
               block == CalledFor(o.out, TRANSFER_DATA)
           IN  /\ res = UDS_PENDING => slow /\ faults.slow < MAX_SLOW
               /\ res < 0 => block /\ faults.refused < MAX_REFUSALS
               /\ ecu' = o.ctx
               /\ toTester' = toTester \o Responses(o.out, m.sdu)
               /\ written' = IF block /\ res = 0 THEN Append(written, m.block) ELSE written
               /\ closed' = (closed \/ CalledFor(o.out, TRANSFER_EXIT))
               /\ erasing' = IF slow THEN erasing + 1 ELSE erasing
               /\ faults' = [faults EXCEPT !.slow = IF slow THEN @ + 1 ELSE @,
                                           !.refused = IF res < 0 THEN @ + 1 ELSE @]
  /\ UNCHANGED <<tester, app>>

\* The main loop finds P2* over: 0x78 once more, or the request is given up.
EcuProcess ==
  LET o == uds_process(ecu, 0)
  IN  /\ ecu.p2_msg_pending
      /\ ecu' = o.ctx
      /\ toTester' = toTester \o Responses(o.out, RequestAt(0).sdu)
      /\ UNCHANGED <<tester, toEcu, app, written, closed, erasing, faults>>

\* An erasure is finished and answered, even one that was given up.
EcuFinish ==
  LET o == uds_send_response(ecu, ROUTINE_CONTROL, 4)
  IN  /\ erasing > 0
      /\ erasing' = erasing - 1
      /\ ecu' = o.ctx
      /\ toTester' = toTester \o Responses(o.out, RequestAt(0).sdu)
      /\ UNCHANGED <<tester, toEcu, app, written, closed, faults>>

-----------------------------------------------------------------------------
(* The link *)

Lose ==
  /\ faults.lost < MAX_LOSSES
  /\ faults' = [faults EXCEPT !.lost = @ + 1]
  /\ \/ toEcu # <<>> /\ toEcu' = Tail(toEcu) /\ UNCHANGED toTester
     \/ toTester # <<>> /\ toTester' = Tail(toTester) /\ UNCHANGED toEcu
  /\ UNCHANGED <<tester, ecu, app, written, closed, erasing>>

NetNext ==
  \/ AskNext \/ Repeat \/ TesterReceive
  \/ \E res \in Results : EcuReceive(res)
  \/ EcuProcess \/ EcuFinish
  \/ Lose

NetSpec == NetInit /\ [][NetNext]_vars

\* Both main loops keep receiving and the tester's application goes on; the
\* link loses finitely often and nothing hurries.
NetFairSpec ==
  /\ NetSpec
  /\ WF_vars(AskNext) /\ WF_vars(Repeat) /\ WF_vars(TesterReceive)
  /\ WF_vars(\E res \in Results : EcuReceive(res))
  /\ WF_vars(EcuProcess) /\ WF_vars(EcuFinish)

-----------------------------------------------------------------------------
(* Properties *)

Transfer == INSTANCE BlockTransfer
              WITH BLOCKS <- BLOCKS, written <- written, closed <- closed

\* Repetitions, losses and refusals never write a block twice, skip one or
\* close the transfer early (handle_transfer_data with
\* transfer_accept_last_block_replay: "without re-invoking the application").
EachBlockOnce == Transfer!BlockSpec

\* The two ends never drift apart by more than the step under way: what was
\* acknowledged is written, and a tester that is done has closed a complete
\* transfer.
InStep ==
  /\ Block(app.at) # 0 => Len(written) \in {Block(app.at) - 1, Block(app.at)}
  /\ app.at >= LAST => Len(written) = BLOCKS
  /\ app.does = "done" => closed

\* A repeated block is refused only where the counter has wrapped to 0, which
\* stands for "no block yet": nowhere else does a lost or late answer cost the
\* download (the check of flash_sequence in handle_transfer_data).
RefusedOnlyAtWrap ==
  app.does = "abort" => Block(app.at) >= SEQ_MOD /\ Counter(app.at) \in {0, 1}

\* The download comes to an end, completed or refused.
Finishes == <>(app.does \in {"done", "abort"})
=============================================================================
