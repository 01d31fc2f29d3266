-------------------------- MODULE UdsThreadsProofs --------------------------
(***************************************************************************)
(* Theorems about the stack under several threads: its types, who holds    *)
(* the mutex, that the calls are atomic when the application answers under *)
(* the mutex, and that no wait outlives the work it waits for.             *)
(***************************************************************************)
EXTENDS UdsThreads, UdsOutcomes

-----------------------------------------------------------------------------
(* Calls and messages *)

\* The calls, told apart by the function.
LEMMA CallCases ==
  ASSUME NEW call \in AllCalls
  PROVE  /\ call.fn \in {"uds_process", "uds_input_sdu", "uds_send_response",
                         "uds_client_request"}
         /\ call.fn = "uds_input_sdu" =>
              /\ call \in InputCalls /\ call.r \in Request /\ call.a \in Answer
              /\ call.a.chain \in ClientSids \cup {0}
         /\ call.fn = "uds_send_response" => call.sid \in AsyncSids
         /\ call.fn = "uds_client_request" => call \in ClientCalls /\ call.sid \in ClientSids
<1>1. CASE call = ProcessCall
  BY <1>1 DEF ProcessCall
<1>2. CASE call \in InputCalls
  <2>1. PICK d \in Deliveries : call = [fn |-> "uds_input_sdu", r |-> d[1], a |-> d[2]]
    BY <1>2 DEF InputCalls
  <2>2. d \in Request \X Answer /\ d[2].chain \in ClientSids \cup {0}
    BY ThreadAssumption
  <2>3. call.fn = "uds_input_sdu" /\ call.r = d[1] /\ call.a = d[2]
    BY <2>1
  <2> QED
    BY <1>2, <2>2, <2>3
<1>3. CASE call \in RespondCalls(AsyncSids)
  BY <1>3 DEF RespondCalls
<1>4. CASE call \in ClientCalls
  BY <1>4 DEF ClientCalls
<1> QED
  BY <1>1, <1>2, <1>3, <1>4 DEF AllCalls

\* The calls of each thread are calls.
LEMMA CallKinds ==
  /\ ProcessCall \in AllCalls /\ InputCalls \subseteq AllCalls
  /\ ClientCalls \subseteq AllCalls
  /\ \A call \in InputCalls : call.fn = "uds_input_sdu"
  /\ \A call \in ClientCalls : call.fn = "uds_client_request"
BY DEF AllCalls, InputCalls, ClientCalls

\* SIDs are bytes.
LEMMA SidBytes == AsyncSids \subseteq Byte /\ ClientSids \subseteq Byte
BY ConfigAssumption, ThreadAssumption DEF AsyncSids, ServiceEntry

\* A message is a sequence of events.
LEMMA MessageType ==
  ASSUME NEW events \in Seq(Event)
  PROVE  Message(events) \in Seq(Event)
<1>1. CASE Spoken(events) = {}
  BY <1>1 DEF Message
<1>2. CASE Spoken(events) # {}
  <2> DEFINE i == CHOOSE i \in Spoken(events) : TRUE
  <2>1. i \in DOMAIN events
    BY <1>2 DEF Spoken
  <2>2. events[i] \in Event
    BY <2>1
  <2> QED
    BY <1>2, <2>2 DEF Message
<1> QED
  BY <1>1, <1>2

\* The message of the events that the threads meet.
LEMMA MessageFacts ==
  /\ Message(<<>>) = <<>>
  /\ \A e \in Event : Message(<<e>>) = IF e.k \in {"pos", "neg", "req"} THEN <<e>> ELSE <<>>
  /\ \A d, e \in Event : d.k \notin {"pos", "neg", "req"} /\ e.k \in {"pos", "neg", "req"} =>
       Message(<<d>> \o <<e>>) = <<e>>
<1>1. Message(<<>>) = <<>>
  BY DEF Message, Spoken
<1>2. ASSUME NEW e \in Event
      PROVE  Message(<<e>>) = IF e.k \in {"pos", "neg", "req"} THEN <<e>> ELSE <<>>
  <2>1. DOMAIN <<e>> = {1} /\ <<e>>[1] = e
    OBVIOUS
  <2>2. Spoken(<<e>>) = IF e.k \in {"pos", "neg", "req"} THEN {1} ELSE {}
    BY <2>1 DEF Spoken
  <2>3. CASE e.k \in {"pos", "neg", "req"}
    <3>1. (CHOOSE i \in Spoken(<<e>>) : TRUE) = 1 /\ Spoken(<<e>>) # {}
      BY <2>2, <2>3
    <3> QED
      BY <2>1, <2>3, <3>1 DEF Message
  <2> QED
    BY <2>2, <2>3 DEF Message
<1>3. ASSUME NEW d \in Event, NEW e \in Event, d.k \notin {"pos", "neg", "req"},
             e.k \in {"pos", "neg", "req"}
      PROVE  Message(<<d>> \o <<e>>) = <<e>>
  <2> DEFINE both == <<d>> \o <<e>>
  <2>1. <<d>> \in Seq(Event) /\ Len(<<d>>) = 1 /\ <<e>> \in Seq(Event) /\ Len(<<e>>) = 1
    OBVIOUS
  <2>2. both \in Seq(Event) /\ Len(both) = 2
    BY <2>1
  <2>3. both[1] = d /\ both[2] = e
    BY <2>1
  <2>4. DOMAIN both = {1, 2}
    BY <2>2
  <2> HIDE DEF both
  <2>5. Spoken(both) = {2}
    BY <1>3, <2>3, <2>4 DEF Spoken
  <2>6. (CHOOSE i \in Spoken(both) : TRUE) = 2 /\ Spoken(both) # {}
    BY <2>5
  <2>7. Message(both) = <<e>>
    BY <2>3, <2>6 DEF Message
  <2> QED
    BY <2>7 DEF both
<1> QED
  BY <1>1, <1>2, <1>3

\* A request that the application will answer later belongs to a service of its
\* own, and has begun the wait.
LEMMA PendsFor ==
  ASSUME NEW c \in Ctx, NEW p, NEW r \in Request, NEW a \in Answer, NEW t \in Time,
         uds_input_sdu(c, p, r, a, t).ret = "pending"
  PROVE  LET o == uds_input_sdu(c, p, r, a, t)
         IN  /\ r.sid \in AsyncSids /\ o.ctx.pending_sid = r.sid
             /\ o.ctx.p2_msg_pending /\ o.ctx.p2_star_active /\ o.ctx.p2_timer_start = t
<1> DEFINE o == uds_input_sdu(c, p, r, a, t)
           d == [c EXCEPT !.last_msg_time = t]
           e == [d EXCEPT !.p2_timer_start = t, !.p2_msg_pending = FALSE,
                          !.p2_star_active = FALSE, !.rcrrp_count = 0]
           h == handle_request(e, p, r, a, t)
<1>1. d \in Ctx /\ e \in Ctx
  <2>1. 0 \in 0 .. RCRRP_MOD - 1
    BY TimingAssumption
  <2> QED
    BY <2>1 DEF Ctx
<1>2. \A x, y : Outcome(x, y).ret = "done"
  BY DEF Outcome
<1>3. /\ uds_send_nrc(d, r.sid, BUSY_REPEAT_REQUEST).ret = "done"
      /\ client_response(d, r, a).ret = "done"
  BY <1>2 DEF uds_send_nrc, client_response
<1>4. o = h
  <2>1. o \in {Outcome(c, <<>>), Outcome(d, <<>>),
               uds_send_nrc(d, r.sid, BUSY_REPEAT_REQUEST), client_response(d, r, a), h}
    BY DEF uds_input_sdu
  <2>2. o.ret = "pending"
    OBVIOUS
  <2> HIDE DEF o, d, e, h
  <2> QED
    BY <1>2, <1>3, <2>1, <2>2
<1>5. RequestCase(e, r, a, t, h)
  BY <1>1, RequestCases
<1> HIDE DEF h
<1>6. h.ret = "pending"
  BY <1>4
<1>7. \A f \in Ctx : /\ handle_session_control(f, r, a, t).ret = "done"
                     /\ handle_security_access(f, r, a, t).ret = "done"
  BY SafeSessionControl, SafeSecurityAccess
<1>8. PICK f \in Ctx : /\ Services(r.sid) # {}
                       /\ h = AwaitApplication(f, r, t, <<Call(r.sid, 0)>>)
  BY <1>5, <1>6, <1>7 DEF RequestCase, Quiet, Calm
<1>9. r.sid \in AsyncSids
  BY <1>8 DEF Services, AsyncSids
<1>10. uds_send_nrc(f, r.sid, RESPONSE_PENDING).ctx \in Ctx
  <2>1. r.sid \in Byte
    BY DEF Request
  <2> QED
    BY <2>1, QuietNrc, Codes DEF Quiet, Calm, OutcomeType
<1> DEFINE g == uds_send_nrc(f, r.sid, RESPONSE_PENDING).ctx
<1>11. h.ctx = [g EXCEPT !.p2_msg_pending = TRUE, !.p2_star_active = TRUE,
                         !.p2_timer_start = t, !.pending_sid = r.sid]
  BY <1>8 DEF AwaitApplication
<1>12. g \in Ctx
  BY <1>10
<1> HIDE DEF g
<1>13. /\ h.ctx.pending_sid = r.sid /\ h.ctx.p2_msg_pending /\ h.ctx.p2_star_active
       /\ h.ctx.p2_timer_start = t
  BY <1>11, <1>12 DEF Ctx
<1> HIDE DEF o
<1>14. o.ctx = h.ctx
  BY <1>4
<1> QED
  BY <1>9, <1>13, <1>14 DEF o

-----------------------------------------------------------------------------
(* Types *)

\* The shape of a frame: where a request made from a callback may be, what is
\* still to be sent, and who arms, answers or disarms.
FrameInv(f) ==
  /\ f.at = "idle" => f.outer = <<>>
  /\ f.at = "lock" => Locks(f.call)
  /\ f.at \in {"idle", "lock", "run", "answer", "clear"} => f.path = "plain"
  /\ f.at \in {"idle", "lock", "run", "answer", "send"} => f.sent = <<>>
  /\ f.outer # <<>> =>
       /\ f.at \in {"lock", "run", "send", "after", "leave"}
       /\ f.call \in ClientCalls /\ f.path = "plain"
       /\ \E call \in InputCalls : f.outer = <<call>>
  /\ f.path = "arm" => f.call \in InputCalls
  /\ f.path = "abort" => RCRRP_LIMIT > 0
  /\ f.at = "answer" => f.call.fn = "uds_send_response"
  /\ f.at = "clear" => f.call \in InputCalls

TypeInv ==
  /\ ctx \in Ctx /\ settled \in Ctx
  /\ now \in Time
  /\ jobs \subseteq AsyncSids
  /\ tx_buffer \in Seq(Event)
  /\ thr \in [Thread -> Frame]
  /\ mutex \in [owner: Thread \cup {"nobody"}, depth: Nat]
  /\ \A th \in Thread : FrameInv(thr[th])

\* Thread th gets the frame g, the others keep theirs.
Moves(th, g) == thr' = [thr EXCEPT ![th] = g]

\* The frames after such a step.
LEMMA Moved ==
  ASSUME TypeInv, NEW th \in Thread, NEW g, Moves(th, g)
  PROVE  thr'[th] = g /\ \A x \in Thread \ {th} : thr'[x] = thr[x]
BY DEF TypeInv, Moves

\* If g is a frame, they are frames.
LEMMA MovedType ==
  ASSUME TypeInv, NEW th \in Thread, NEW g \in Frame, FrameInv(g), Moves(th, g)
  PROVE  thr' \in [Thread -> Frame] /\ \A x \in Thread : FrameInv(thr'[x])
BY Moved DEF TypeInv, Moves

\* The fields of a frame that goes to another point and path.
LEMMA FrameAt ==
  ASSUME NEW f \in Frame, NEW at \in Points, NEW path \in Paths
  PROVE  /\ LET g == [f EXCEPT !.at = at]
            IN  /\ g \in Frame /\ g.at = at /\ g.call = f.call /\ g.outer = f.outer
                /\ g.path = f.path /\ g.sent = f.sent
         /\ LET g == [f EXCEPT !.at = at, !.path = path]
            IN  /\ g \in Frame /\ g.at = at /\ g.call = f.call /\ g.outer = f.outer
                /\ g.path = path /\ g.sent = f.sent
BY DEF Frame

\* A thread's frame is a frame.
LEMMA FrameOf ==
  ASSUME TypeInv, NEW th \in Thread
  PROVE  thr[th] \in Frame /\ FrameInv(thr[th]) /\ thr[th].call \in AllCalls
BY DEF TypeInv, Frame

\* A call begins.
LEMMA StartMoves ==
  ASSUME TypeInv, NEW th \in Thread, NEW call \in Offered(th), Start(th, call)
  PROVE  LET at == IF Locks(call) THEN "lock" ELSE "run"
             g == thr'[th]
         IN  /\ TypeInv' /\ Moves(th, g) /\ g.at = at /\ g.call = call
             /\ thr[th].at = "idle" /\ g.outer = <<>> /\ g.path = "plain" /\ g.sent = <<>>
             /\ UNCHANGED <<ctx, now, tx_buffer, mutex, settled, wire>>
             /\ jobs' = IF call.fn = "uds_send_response" THEN jobs \ {call.sid} ELSE jobs
             /\ call.fn = "uds_send_response" => th = "app"
<1> DEFINE at == IF Locks(call) THEN "lock" ELSE "run"
           f == thr[th]
           g == [f EXCEPT !.at = at, !.call = call]
<1>1. f \in Frame /\ FrameInv(f) /\ f.at = "idle"
  BY FrameOf DEF Start, At
<1>2. jobs \subseteq AsyncSids
  BY DEF TypeInv
<1>3. call \in AllCalls
  <2>1. RespondCalls(jobs) \subseteq RespondCalls(AsyncSids)
    BY <1>2 DEF RespondCalls
  <2> QED
    BY <2>1 DEF Offered, Thread, AllCalls
<1>4. call.fn = "uds_send_response" => th = "app"
  BY CallKinds DEF Offered, Thread, ProcessCall
<1>5. Moves(th, g)
  BY DEF Start, Moves, TypeInv
<1>6. /\ g \in Frame /\ g.at = at /\ g.call = call /\ g.outer = f.outer
      /\ g.path = f.path /\ g.sent = f.sent
  <2>1. at \in Points
    BY DEF Points
  <2> HIDE DEF at
  <2> QED
    BY <1>1, <1>3, <2>1 DEF Frame
<1>7. at \in {"lock", "run"} /\ (at = "lock" => Locks(call))
  OBVIOUS
<1> HIDE DEF g, at
<1>8. FrameInv(g) /\ g.outer = <<>> /\ g.path = "plain" /\ g.sent = <<>>
  BY <1>1, <1>6, <1>7 DEF FrameInv
<1>9. /\ UNCHANGED <<ctx, now, tx_buffer, mutex, settled, wire>>
      /\ jobs' = IF call.fn = "uds_send_response" THEN jobs \ {call.sid} ELSE jobs
  BY DEF Start
<1>10. TypeInv'
  <2>1. thr' \in [Thread -> Frame] /\ \A x \in Thread : FrameInv(thr'[x])
    BY <1>5, <1>6, <1>8, MovedType
  <2> QED
    BY <1>9, <2>1 DEF TypeInv
<1>11. thr'[th] = g
  BY <1>5, Moved
<1> QED
  BY <1>1, <1>4, <1>5, <1>6, <1>8, <1>9, <1>10, <1>11 DEF at

\* The mutex is taken.
LEMMA AcquireMoves ==
  ASSUME TypeInv, NEW th \in Thread, Acquire(th)
  PROVE  LET g == [thr[th] EXCEPT !.at = "run"]
         IN  /\ TypeInv' /\ Moves(th, g) /\ g.at = "run" /\ g.call = thr[th].call
             /\ g.outer = thr[th].outer /\ g.path = thr[th].path /\ g.sent = thr[th].sent
             /\ UNCHANGED <<ctx, now, jobs, tx_buffer, settled, wire>>
             /\ mutex.owner \in {"nobody", th} /\ thr[th].at = "lock"
             /\ mutex'.owner = th /\ mutex'.depth = mutex.depth + 1
<1> DEFINE f == thr[th]
           g == [f EXCEPT !.at = "run"]
<1>1. f \in Frame /\ FrameInv(f) /\ f.at = "lock"
  BY FrameOf DEF Acquire, At
<1>2. /\ g \in Frame /\ g.at = "run" /\ g.call = f.call /\ g.outer = f.outer
      /\ g.path = f.path /\ g.sent = f.sent
  BY <1>1 DEF Frame, Points
<1>3. Moves(th, g)
  BY DEF Acquire, Moves, TypeInv
<1>4. UNCHANGED <<ctx, now, jobs, tx_buffer, settled, wire>>
  BY DEF Acquire
<1>5. /\ mutex.owner \in {"nobody", th}
      /\ mutex'.owner = th /\ mutex'.depth = mutex.depth + 1
      /\ mutex' \in [owner: Thread \cup {"nobody"}, depth: Nat]
  <2>1. mutex \in [owner: Thread \cup {"nobody"}, depth: Nat]
    BY DEF TypeInv
  <2> QED
    BY <2>1 DEF Acquire, Free
<1> HIDE DEF g
<1>6. FrameInv(g)
  BY <1>1, <1>2 DEF FrameInv
<1>7. TypeInv'
  <2>1. thr' \in [Thread -> Frame] /\ \A x \in Thread : FrameInv(thr'[x])
    BY <1>2, <1>3, <1>6, MovedType
  <2> QED
    BY <1>4, <1>5, <2>1 DEF TypeInv
<1> QED
  BY <1>1, <1>2, <1>3, <1>4, <1>5, <1>7 DEF g

\* The context and the message of a whole call have their types.
LEMMA EffectType ==
  ASSUME NEW call \in AllCalls, NEW c \in Ctx, NEW t \in Time
  PROVE  Effect(call, c, t).ctx \in Ctx /\ Effect(call, c, t).msg \in Seq(Event)
<1>1. ASSUME NEW o \in OutcomeType
      PROVE  /\ Composed(o.ctx, o.out).ctx \in Ctx
             /\ Composed(o.ctx, o.out).msg \in Seq(Event)
  BY <1>1, MessageType DEF Composed, OutcomeType
<1>2. CASE call.fn = "uds_process"
  <2>1. uds_process(c, t) \in OutcomeType
    BY SafeProcess DEF Safe
  <2> QED
    BY <1>1, <1>2, <2>1 DEF Effect
<1>3. CASE call.fn = "uds_input_sdu"
  <2>1. uds_input_sdu(c, NoPeriodic, call.r, call.a, t) \in OutcomeType
    BY <1>3, CallCases, SafeInput DEF Safe
  <2> QED
    BY <1>1, <1>3, <2>1 DEF Effect
<1>4. CASE call.fn = "uds_send_response"
  <2>1. call.sid \in Byte
    BY <1>4, CallCases, SidBytes
  <2>2. uds_send_response(c, call.sid, 2) \in OutcomeType
    BY <2>1, QuietResponse DEF Quiet, Calm
  <2> QED
    BY <1>1, <1>4, <2>2 DEF Effect
<1>5. CASE call.fn = "uds_client_request"
  <2>1. call.sid \in Byte
    BY <1>5, CallCases, SidBytes
  <2>2. uds_client_request(c, call.sid) \in OutcomeType
    <3> DEFINE d == [c EXCEPT !.pending_sid = call.sid, !.client_cb = TRUE]
    <3>1. d \in Ctx
      BY <2>1 DEF Ctx
    <3>2. Asked(call.sid) \in Event
      BY <2>1 DEF Asked, Event, EventKinds, Byte
    <3>3. <<Asked(call.sid)>> \in Seq(Event)
      BY <3>2
    <3> HIDE DEF d
    <3>4. Outcome(d, <<Asked(call.sid)>>) \in OutcomeType
      BY <3>1, <3>3 DEF Outcome, OutcomeType, Returns
    <3> QED
      BY <3>4 DEF d, uds_client_request
  <2> QED
    BY <1>1, <1>5, <2>2 DEF Effect
<1> QED
  BY <1>2, <1>3, <1>4, <1>5, CallCases

\* Thread th has composed the message of its call; what its path says remains
\* to be done after the send makes the effect of the call complete.
Composes(th) ==
  LET o == Effect(thr[th].call, ctx, now)
      g == thr'[th]
  IN  /\ thr[th].at = "run" /\ g.call = thr[th].call /\ g.outer = thr[th].outer
      /\ g.sent = <<>> /\ g.at = (IF o.msg = <<>> THEN "after" ELSE "send")
      /\ tx_buffer' = (IF o.msg = <<>> THEN tx_buffer ELSE o.msg)
      /\ Finished(ctx', g, now) = o.ctx
      /\ UNCHANGED <<now, mutex, settled, wire>>

\* A step that composes.
LEMMA ComposeMoves ==
  ASSUME TypeInv, NEW th \in Thread, thr[th].at = "run",
         NEW o, NEW path \in Paths, Compose(th, o, path), o.ctx \in Ctx,
         o.msg = Effect(thr[th].call, ctx, now).msg,
         \A g \in Frame : g.path = path /\ g.call = thr[th].call =>
           Finished(o.ctx, g, now) = Effect(thr[th].call, ctx, now).ctx,
         path = "arm" => thr[th].call \in InputCalls,
         path = "abort" => RCRRP_LIMIT > 0,
         thr[th].outer # <<>> => path = "plain",
         jobs' \subseteq AsyncSids, UNCHANGED <<now, mutex, settled, wire>>
  PROVE  TypeInv' /\ Moves(th, thr'[th]) /\ Composes(th)
<1> DEFINE f == thr[th]
           at == IF o.msg = <<>> THEN "after" ELSE "send"
           g == [f EXCEPT !.at = at, !.path = path]
<1>1. f \in Frame /\ FrameInv(f) /\ f.call \in AllCalls
  BY FrameOf
<1>2. at \in Points /\ at \in {"after", "send"}
  BY DEF Points
<1>3. Moves(th, g)
  BY DEF Compose, Moves, TypeInv
<1> HIDE DEF at
<1>4. /\ g \in Frame /\ g.at = at /\ g.call = f.call /\ g.outer = f.outer
      /\ g.path = path /\ g.sent = f.sent
  BY <1>1, <1>2 DEF Frame
<1> HIDE DEF g
<1>5. FrameInv(g) /\ g.sent = <<>>
  BY <1>1, <1>2, <1>4 DEF FrameInv
<1>6. ctx' = o.ctx /\ tx_buffer' = (IF o.msg = <<>> THEN tx_buffer ELSE o.msg)
  BY DEF Compose
<1>7. o.msg \in Seq(Event)
  BY <1>1, EffectType DEF TypeInv
<1>8. thr'[th] = g
  BY <1>3, Moved
<1>9. TypeInv'
  <2>1. thr' \in [Thread -> Frame] /\ \A x \in Thread : FrameInv(thr'[x])
    BY <1>3, <1>4, <1>5, MovedType
  <2>2. tx_buffer' \in Seq(Event)
    BY <1>6, <1>7 DEF TypeInv
  <2> QED
    BY <1>6, <2>1, <2>2 DEF TypeInv
<1>10. Composes(th)
  BY <1>4, <1>5, <1>6, <1>8 DEF Composes, at
<1> QED
  BY <1>3, <1>8, <1>9, <1>10

\* uds_process composes.
LEMMA ProcessMoves ==
  ASSUME TypeInv, NEW th \in Thread, RunProcess(th)
  PROVE  TypeInv' /\ Moves(th, thr'[th]) /\ Composes(th) /\ jobs' = jobs
<1> DEFINE f == thr[th]
           c == revert_session(ctx, now)
           path == IF ~P2Expired(c, now) THEN "plain"
                   ELSE IF RcrrpExhausted(c) THEN "abort" ELSE "repeat"
           nrc == IF path = "abort" THEN CONDITIONS_NOT_CORRECT ELSE RESPONSE_PENDING
           o == IF path = "plain" THEN Outcome(c, <<>>) ELSE uds_send_nrc(c, c.pending_sid, nrc)
           u == uds_process(ctx, now)
<1>1. /\ f.at = "run" /\ f.call.fn = "uds_process"
      /\ Compose(th, Composed(o.ctx, o.out), path)
      /\ UNCHANGED <<now, mutex, settled, wire>> /\ jobs' = jobs
  BY DEF RunProcess, Running, At
<1>2. f \in Frame /\ FrameInv(f) /\ ctx \in Ctx /\ now \in Time /\ jobs \subseteq AsyncSids
  BY FrameOf DEF TypeInv
<1>3. c \in Ctx
  <2>1. DEFAULT \in Sessions /\ 0 \in 0 .. 63
    BY DEF Sessions, DEFAULT
  <2>2. [ctx EXCEPT !.active_session = DEFAULT, !.security_level = 0] \in Ctx
    BY <1>2, <2>1 DEF Ctx
  <2> QED
    BY <1>2, <2>2 DEF revert_session
<1>4. f.outer = <<>>
  BY <1>1, <1>2, CallKinds DEF FrameInv
<1>5. path \in Paths /\ path # "arm" /\ (path = "abort" => RCRRP_LIMIT > 0)
  BY DEF Paths, RcrrpExhausted
<1>6. c.pending_sid \in Byte /\ nrc \in Byte
  BY <1>3, Codes DEF Ctx
<1>7. o.ctx \in Ctx
  <2>1. uds_send_nrc(c, c.pending_sid, nrc).ctx \in Ctx
    BY <1>3, <1>6, QuietNrc DEF Quiet, Calm, OutcomeType
  <2>2. Outcome(c, <<>>).ctx = c
    BY DEF Outcome
  <2> QED
    BY <1>3, <2>1, <2>2
<1>8. /\ path = "plain" => u.ctx = o.ctx /\ u.out = o.out
      /\ path = "abort" => u.ctx = [o.ctx EXCEPT !.rcrrp_count = 0] /\ u.out = o.out
      /\ path = "repeat" => /\ u.ctx = [o.ctx EXCEPT !.rcrrp_count = (@ + 1) % RCRRP_MOD,
                                                     !.p2_star_active = TRUE,
                                                     !.p2_timer_start = now]
                            /\ u.out = o.out
  <2>4. \A n \in Byte : uds_send_nrc(c, c.pending_sid, n) \in OutcomeType
    BY <1>3, <1>6, QuietNrc DEF Quiet, Calm
  <2>1. CASE path = "plain"
    BY <2>1 DEF uds_process
  <2>2. CASE path = "abort"
    <3>1. u = abort_pending(c) /\ o = uds_send_nrc(c, c.pending_sid, CONDITIONS_NOT_CORRECT)
      BY <2>2 DEF uds_process
    <3>2. o \in OutcomeType
      BY <2>4, <3>1, Codes
    <3> QED
      BY <2>2, <3>1, <3>2 DEF abort_pending, OutcomeType
  <2>3. CASE path = "repeat"
    <3>1. u = repeat_pending(c, now) /\ o = uds_send_nrc(c, c.pending_sid, RESPONSE_PENDING)
      BY <2>3 DEF uds_process
    <3>2. o \in OutcomeType
      BY <2>4, <3>1, Codes
    <3> QED
      BY <2>3, <3>1, <3>2 DEF repeat_pending, OutcomeType
  <2> QED
    BY <2>1, <2>2, <2>3
<1>9. Effect(f.call, ctx, now) = Composed(u.ctx, u.out)
  BY <1>1 DEF Effect
<1> HIDE DEF path, o, u, c
<1>10. path \in {"plain", "abort", "repeat"}
  BY DEF path
<1>11. u.out = o.out /\ \A g \in Frame : g.path = path => Finished(o.ctx, g, now) = u.ctx
  BY <1>8, <1>10 DEF Finished
<1> DEFINE q == Composed(o.ctx, o.out)
<1>12. q.ctx = o.ctx /\ q.msg = Effect(f.call, ctx, now).msg
         /\ Effect(f.call, ctx, now).ctx = u.ctx
  BY <1>9, <1>11 DEF Composed
<1>13. Compose(th, q, path)
  BY <1>1
<1> HIDE DEF q
<1> QED
  BY <1>1, <1>2, <1>4, <1>5, <1>7, <1>11, <1>12, <1>13, ComposeMoves

\* Up to the send, uds_process may end a wait and changes no other.
LEMMA ProcessWaits ==
  ASSUME TypeInv, NEW th \in Thread, RunProcess(th)
  PROVE  /\ ctx'.p2_msg_pending => ctx.p2_msg_pending
         /\ ctx'.client_cb = ctx.client_cb /\ ctx'.pending_sid = ctx.pending_sid
         /\ thr'[th].path # "arm"
<1> DEFINE c == revert_session(ctx, now)
           path == IF ~P2Expired(c, now) THEN "plain"
                   ELSE IF RcrrpExhausted(c) THEN "abort" ELSE "repeat"
           nrc == IF path = "abort" THEN CONDITIONS_NOT_CORRECT ELSE RESPONSE_PENDING
           x == uds_send_nrc(c, c.pending_sid, nrc)
           o == IF path = "plain" THEN Outcome(c, <<>>) ELSE x
<1>1. Compose(th, Composed(o.ctx, o.out), path)
  BY DEF RunProcess
<1>2. ctx \in Ctx
  BY DEF TypeInv
<1>3. /\ c \in Ctx /\ c.p2_msg_pending = ctx.p2_msg_pending
      /\ c.client_cb = ctx.client_cb /\ c.pending_sid = ctx.pending_sid
  <2>1. DEFAULT \in Sessions /\ 0 \in 0 .. 63
    BY DEF Sessions, DEFAULT
  <2> DEFINE d == [ctx EXCEPT !.active_session = DEFAULT, !.security_level = 0]
  <2>2. /\ d \in Ctx /\ d.p2_msg_pending = ctx.p2_msg_pending
        /\ d.client_cb = ctx.client_cb /\ d.pending_sid = ctx.pending_sid
    BY <1>2, <2>1 DEF Ctx
  <2> QED
    BY <1>2, <2>2 DEF revert_session
<1>4. c.pending_sid \in Byte /\ nrc \in Byte
  BY <1>3, Codes DEF Ctx
<1> HIDE DEF c
<1>5. Quiet(c, c.pending_sid, x)
  BY <1>3, <1>4, QuietNrc
<1>6. path # "arm" /\ path \in Paths
  BY DEF Paths
<1> HIDE DEF path, nrc, x
<1>7. /\ o.ctx.p2_msg_pending => c.p2_msg_pending
      /\ o.ctx.client_cb = c.client_cb /\ o.ctx.pending_sid = c.pending_sid
  BY <1>5 DEF Outcome, Quiet, Calm
<1> HIDE DEF o
<1>8. ctx' = o.ctx
  BY <1>1 DEF Compose, Composed
<1>9. thr'[th].path = path
  BY <1>1, FrameOf DEF Compose, TypeInv, Frame
<1> QED
  BY <1>3, <1>6, <1>7, <1>8, <1>9

\* uds_input_sdu composes; if the application will answer later, the wait is
\* still to be armed.
LEMMA InputMoves ==
  ASSUME TypeInv, NEW th \in Thread, RunInput(th)
  PROVE  /\ TypeInv' /\ Moves(th, thr'[th]) /\ Composes(th)
         /\ thr[th].call \in InputCalls /\ thr[th].outer = <<>>
         /\ \/ /\ thr'[th].path = "arm" /\ ~ctx'.p2_msg_pending
               /\ jobs' = jobs \cup {thr[th].call.r.sid}
            \/ /\ thr'[th].path = "plain" /\ jobs' = jobs
               /\ ctx'.p2_msg_pending /\ ~ctx'.client_cb =>
                    /\ ctx.p2_msg_pending /\ ~ctx.client_cb
                    /\ ctx'.pending_sid = ctx.pending_sid
<1> DEFINE f == thr[th]
           r == f.call.r
           a == f.call.a
           u == uds_input_sdu(ctx, NoPeriodic, r, a, now)
           pends == u.ret = "pending"
           unarmed == [u.ctx EXCEPT !.p2_msg_pending = FALSE, !.p2_star_active = FALSE,
                                    !.pending_sid = ctx.pending_sid]
           c == IF pends THEN unarmed ELSE u.ctx
           path == IF pends THEN "arm" ELSE "plain"
           q == Composed(c, u.out)
<1>1. /\ f.at = "run" /\ f.call.fn = "uds_input_sdu" /\ Compose(th, q, path)
      /\ jobs' = (IF pends THEN jobs \cup {r.sid} ELSE jobs)
      /\ UNCHANGED <<now, mutex, settled, wire>>
  BY DEF RunInput, Running, At
<1>2. /\ f \in Frame /\ FrameInv(f) /\ f.call \in AllCalls
      /\ ctx \in Ctx /\ now \in Time /\ jobs \subseteq AsyncSids
  BY FrameOf DEF TypeInv
<1>3. f.call \in InputCalls /\ r \in Request /\ a \in Answer
  BY <1>1, <1>2, CallCases
<1>4. f.outer = <<>>
  BY <1>1, <1>2, CallKinds DEF FrameInv
<1>5. u \in OutcomeType /\ Waits(ctx, r, u)
  BY <1>2, <1>3, SafeInput DEF Safe
<1>6. pends => /\ r.sid \in AsyncSids /\ u.ctx.pending_sid = r.sid
               /\ u.ctx.p2_msg_pending /\ u.ctx.p2_star_active /\ u.ctx.p2_timer_start = now
  BY <1>2, <1>3, PendsFor
<1>7. Effect(f.call, ctx, now) = Composed(u.ctx, u.out)
  BY <1>1 DEF Effect
<1> HIDE DEF u
<1>8. u.ctx \in Ctx
  BY <1>5 DEF OutcomeType
<1>9. unarmed \in Ctx /\ ~unarmed.p2_msg_pending
  BY <1>2, <1>8 DEF Ctx
<1>10. pends => [unarmed EXCEPT !.p2_msg_pending = TRUE, !.p2_star_active = TRUE,
                                !.p2_timer_start = now, !.pending_sid = r.sid] = u.ctx
  BY <1>6, <1>8 DEF Ctx
<1> HIDE DEF unarmed, r
<1>11. path \in Paths /\ (pends <=> path = "arm") /\ path # "abort"
  BY DEF Paths
<1>12. \A g \in Frame : g.path = path /\ g.call = f.call => Finished(c, g, now) = u.ctx
  BY <1>10, <1>11 DEF Finished, r
<1>13. c \in Ctx
  BY <1>8, <1>9
<1>14. jobs' \subseteq AsyncSids
  BY <1>1, <1>2, <1>6
<1>15. /\ pends => ~c.p2_msg_pending
       /\ ~pends => c = u.ctx
  BY <1>9
<1> HIDE DEF c, path, pends
<1>16. /\ q.ctx = c /\ q.msg = Effect(f.call, ctx, now).msg
       /\ Effect(f.call, ctx, now).ctx = u.ctx
  BY <1>7 DEF Composed
<1>17. ctx' = c /\ thr'[th].path = path
  <2>1. thr \in [Thread -> Frame]
    BY DEF TypeInv
  <2> QED
    BY <1>1, <1>2, <1>16, <2>1 DEF Compose, Frame
<1> HIDE DEF q
<1>18. TypeInv' /\ Moves(th, thr'[th]) /\ Composes(th)
  BY <1>1, <1>3, <1>4, <1>11, <1>12, <1>13, <1>14, <1>16, ComposeMoves
<1>19. CASE pends
  BY <1>1, <1>3, <1>4, <1>11, <1>15, <1>17, <1>18, <1>19 DEF r
<1>20. CASE ~pends
  <2>1. path = "plain" /\ u.ret # "pending"
    BY <1>20 DEF path, pends
  <2> QED
    BY <1>1, <1>3, <1>4, <1>5, <1>15, <1>17, <1>18, <1>20, <2>1 DEF Waits
<1> QED
  BY <1>19, <1>20

\* uds_client_request composes, and arms the callback.
LEMMA ClientMoves ==
  ASSUME TypeInv, NEW th \in Thread, RunClient(th)
  PROVE  /\ TypeInv' /\ Moves(th, thr'[th]) /\ Composes(th) /\ jobs' = jobs
         /\ thr'[th].path = "plain" /\ thr[th].call.fn = "uds_client_request"
         /\ ctx' = uds_client_request(ctx, thr[th].call.sid).ctx
         /\ ctx'.client_cb /\ ctx'.p2_msg_pending = ctx.p2_msg_pending
<1> DEFINE f == thr[th]
           u == uds_client_request(ctx, f.call.sid)
           q == Composed(u.ctx, u.out)
<1>1. /\ f.at = "run" /\ f.call.fn = "uds_client_request" /\ Compose(th, q, "plain")
      /\ UNCHANGED <<now, jobs, mutex, settled, wire>>
  BY DEF RunClient, Running, At
<1>2. f \in Frame /\ FrameInv(f) /\ f.call \in AllCalls /\ ctx \in Ctx /\ now \in Time
        /\ jobs \subseteq AsyncSids
  BY FrameOf DEF TypeInv
<1>3. Effect(f.call, ctx, now) = q
  BY <1>1 DEF Effect
<1>4. q.ctx = u.ctx
  BY DEF Composed
<1>5. q.ctx \in Ctx
  BY <1>2, <1>3, EffectType
<1>6. u.ctx.client_cb /\ u.ctx.p2_msg_pending = ctx.p2_msg_pending
  BY <1>2 DEF uds_client_request, Outcome, Ctx
<1> HIDE DEF u, q
<1>7. \A g \in Frame : g.path = "plain" => Finished(q.ctx, g, now) = q.ctx
  BY DEF Finished
<1>8. "plain" \in Paths
  BY DEF Paths
<1>9. TypeInv' /\ Moves(th, thr'[th]) /\ Composes(th)
  BY <1>1, <1>2, <1>3, <1>5, <1>7, <1>8, ComposeMoves
<1>10. ctx' = q.ctx /\ thr'[th].path = "plain"
  <2>1. thr \in [Thread -> Frame]
    BY DEF TypeInv
  <2> QED
    BY <1>1, <1>2, <2>1 DEF Compose, Frame
<1> QED
  BY <1>1, <1>4, <1>6, <1>9, <1>10 DEF u

\* A step that changes no more than the context, the buffer and th's frame.
LEMMA InnerType ==
  ASSUME TypeInv, NEW th \in Thread, NEW g \in Frame, FrameInv(g), Moves(th, g),
         ctx' \in Ctx, tx_buffer' \in Seq(Event), UNCHANGED <<now, jobs, mutex, settled>>
  PROVE  TypeInv'
<1>1. thr' \in [Thread -> Frame] /\ \A x \in Thread : FrameInv(thr'[x])
  BY MovedType
<1> QED
  BY <1>1 DEF TypeInv

\* The client's callback runs.
LEMMA CallbackMoves ==
  ASSUME TypeInv, NEW th \in Thread, RunCallback(th)
  PROVE  LET f == thr[th]
             g == thr'[th]
         IN  /\ TypeInv' /\ Moves(th, g) /\ UNCHANGED <<now, jobs, mutex, settled, wire>>
             /\ f.at = "run" /\ f.call \in InputCalls /\ CallsBack(f.call) /\ f.outer = <<>>
             /\ ctx' = [ctx EXCEPT !.last_msg_time = now]
             /\ g.path = "plain" /\ g.sent = <<>>
             /\ \/ /\ ctx.client_cb /\ f.call.a.chain # 0 /\ g.at = "lock"
                   /\ g.call \in ClientCalls /\ g.call.sid = f.call.a.chain
                   /\ g.outer = <<f.call>>
                \/ /\ ~(ctx.client_cb /\ f.call.a.chain # 0) /\ g.at = "clear"
                   /\ g.call = f.call /\ g.outer = <<>>
<1> DEFINE f == thr[th]
           next == [fn |-> "uds_client_request", sid |-> f.call.a.chain]
           again == ctx.client_cb /\ f.call.a.chain # 0
           x == [f EXCEPT !.at = "lock", !.call = next, !.outer = <<f.call>>]
           y == [f EXCEPT !.at = "clear"]
           g == IF again THEN x ELSE y
<1>1. /\ f.at = "run" /\ f.call.fn = "uds_input_sdu" /\ CallsBack(f.call)
      /\ ctx' = [ctx EXCEPT !.last_msg_time = now] /\ thr' = [thr EXCEPT ![th] = g]
      /\ UNCHANGED <<now, jobs, tx_buffer, mutex, settled, wire>>
  BY DEF RunCallback, Running, At
<1>2. /\ f \in Frame /\ FrameInv(f) /\ f.call \in AllCalls /\ ctx \in Ctx /\ now \in Time
      /\ tx_buffer \in Seq(Event)
  BY FrameOf DEF TypeInv
<1>3. f.call \in InputCalls /\ f.call.a.chain \in ClientSids \cup {0}
  BY <1>1, <1>2, CallCases
<1>4. f.outer = <<>> /\ f.path = "plain" /\ f.sent = <<>>
  BY <1>1, <1>2, CallKinds DEF FrameInv
<1>5. ctx' \in Ctx
  BY <1>1, <1>2 DEF Ctx
<1>6. again => next \in ClientCalls /\ next \in AllCalls /\ next.sid = f.call.a.chain
  BY <1>3 DEF ClientCalls, AllCalls
<1> HIDE DEF next
<1>7. <<f.call>> \in Seq(AllCalls) /\ <<f.call>> # <<>>
  BY <1>2
<1>8. again => /\ x \in Frame /\ x.at = "lock" /\ x.call = next /\ x.outer = <<f.call>>
               /\ x.path = f.path /\ x.sent = f.sent
  BY <1>2, <1>6, <1>7 DEF Frame, Points
<1>9. /\ y \in Frame /\ y.at = "clear" /\ y.call = f.call /\ y.outer = f.outer
      /\ y.path = f.path /\ y.sent = f.sent
  BY <1>2 DEF Frame, Points
<1> HIDE DEF x, y
<1>10. again => FrameInv(x)
  <2>1. again => Locks(x.call)
    BY <1>6, <1>8, CallKinds DEF Locks
  <2> QED
    BY <1>3, <1>4, <1>6, <1>8, <2>1 DEF FrameInv
<1>11. FrameInv(y)
  BY <1>3, <1>4, <1>9 DEF FrameInv
<1>12. g \in Frame /\ FrameInv(g)
  BY <1>8, <1>9, <1>10, <1>11
<1>13. /\ g.path = "plain" /\ g.sent = <<>>
       /\ \/ /\ again /\ g.at = "lock" /\ g.call \in ClientCalls
             /\ g.call.sid = f.call.a.chain /\ g.outer = <<f.call>>
          \/ ~again /\ g.at = "clear" /\ g.call = f.call /\ g.outer = <<>>
  BY <1>4, <1>6, <1>8, <1>9
<1> HIDE DEF g
<1>14. Moves(th, g) /\ thr'[th] = g
  BY <1>1, Moved DEF Moves
<1>15. TypeInv'
  BY <1>1, <1>2, <1>5, <1>12, <1>14, InnerType
<1> QED
  BY <1>1, <1>3, <1>4, <1>13, <1>14, <1>15

\* The request that was called back is disarmed.
LEMMA ClearMoves ==
  ASSUME TypeInv, NEW th \in Thread, Clear(th)
  PROVE  LET f == thr[th]
             g == thr'[th]
         IN  /\ TypeInv' /\ Moves(th, g) /\ UNCHANGED <<now, jobs, mutex, settled, wire>>
             /\ f.at = "clear" /\ g.at = "leave" /\ g.call = f.call /\ g.outer = f.outer
             /\ g.path = f.path /\ g.sent = f.sent
             /\ ctx' = [ctx EXCEPT !.client_cb = FALSE, !.pending_sid = 0]
<1> DEFINE f == thr[th]
           g == [f EXCEPT !.at = "leave"]
<1>1. /\ f.at = "clear" /\ ctx' = [ctx EXCEPT !.client_cb = FALSE, !.pending_sid = 0]
      /\ UNCHANGED <<now, jobs, tx_buffer, mutex, settled, wire>>
  BY DEF Clear, At
<1>2. f \in Frame /\ FrameInv(f) /\ ctx \in Ctx /\ tx_buffer \in Seq(Event)
  BY FrameOf DEF TypeInv
<1>3. ctx' \in Ctx
  <2>1. 0 \in Byte
    BY DEF Byte
  <2> QED
    BY <1>1, <1>2, <2>1 DEF Ctx
<1>4. /\ g \in Frame /\ g.at = "leave" /\ g.call = f.call /\ g.outer = f.outer
      /\ g.path = f.path /\ g.sent = f.sent
  BY <1>2 DEF Frame, Points
<1>5. Moves(th, g)
  BY DEF Clear, Moves, TypeInv
<1> HIDE DEF g
<1>6. FrameInv(g)
  BY <1>1, <1>2, <1>4 DEF FrameInv
<1>7. thr'[th] = g
  BY <1>5, Moved
<1>8. TypeInv'
  BY <1>1, <1>2, <1>3, <1>4, <1>5, <1>6, InnerType
<1> QED
  BY <1>1, <1>4, <1>5, <1>7, <1>8

\* The application writes its answer.
LEMMA RespondMoves ==
  ASSUME TypeInv, NEW th \in Thread, RunRespond(th)
  PROVE  LET f == thr[th]
             g == thr'[th]
         IN  /\ TypeInv' /\ Moves(th, g) /\ UNCHANGED <<ctx, now, jobs, mutex, settled, wire>>
             /\ f.at = "run" /\ g.at = "answer" /\ g.call = f.call /\ g.outer = f.outer
             /\ g.path = f.path /\ g.sent = f.sent
             /\ tx_buffer' = <<Pos(f.call.sid)>>
<1> DEFINE f == thr[th]
           g == [f EXCEPT !.at = "answer"]
<1>1. /\ f.at = "run" /\ f.call.fn = "uds_send_response"
      /\ tx_buffer' = <<Pos(f.call.sid)>>
      /\ UNCHANGED <<ctx, now, jobs, mutex, settled, wire>>
  BY DEF RunRespond, Running, At
<1>2. f \in Frame /\ FrameInv(f) /\ f.call \in AllCalls /\ ctx \in Ctx
  BY FrameOf DEF TypeInv
<1>3. f.call.sid \in Byte
  BY <1>1, <1>2, CallCases, SidBytes
<1>4. Pos(f.call.sid) \in Event
  BY <1>3 DEF Pos, Event, EventKinds, Byte
<1>5. tx_buffer' \in Seq(Event)
  BY <1>1, <1>4
<1>6. /\ g \in Frame /\ g.at = "answer" /\ g.call = f.call /\ g.outer = f.outer
      /\ g.path = f.path /\ g.sent = f.sent
  BY <1>2 DEF Frame, Points
<1>7. Moves(th, g)
  BY DEF RunRespond, Moves, TypeInv
<1>8. f.outer = <<>>
  BY <1>1, <1>2, CallKinds DEF FrameInv
<1> HIDE DEF g
<1>9. FrameInv(g)
  BY <1>1, <1>2, <1>6, <1>8 DEF FrameInv
<1>10. thr'[th] = g
  BY <1>7, Moved
<1>11. TypeInv'
  BY <1>1, <1>2, <1>5, <1>6, <1>7, <1>9, InnerType
<1> QED
  BY <1>1, <1>6, <1>7, <1>10, <1>11

\* uds_send_response decides whether it is sent.
LEMMA AnswerMoves ==
  ASSUME TypeInv, NEW th \in Thread, AnswerJob(th)
  PROVE  LET f == thr[th]
             g == thr'[th]
             o == uds_send_response(ctx, f.call.sid, 2)
         IN  /\ TypeInv' /\ Moves(th, g) /\ UNCHANGED <<now, jobs, mutex, settled, wire>>
             /\ f.at = "answer" /\ f.call.fn = "uds_send_response" /\ f.outer = <<>>
             /\ g.at = (IF o.out = <<>> THEN "leave" ELSE "send")
             /\ g.call = f.call /\ g.outer = f.outer
             /\ g.path = f.path /\ g.sent = f.sent
             /\ tx_buffer' = tx_buffer /\ ctx' = o.ctx
<1> DEFINE f == thr[th]
           o == uds_send_response(ctx, f.call.sid, 2)
           at == IF o.out = <<>> THEN "leave" ELSE "send"
           g == [f EXCEPT !.at = at]
<1>1. /\ f.at = "answer" /\ ctx' = o.ctx
      /\ UNCHANGED <<now, jobs, tx_buffer, mutex, settled, wire>>
  BY DEF AnswerJob, At
<1>2. /\ f \in Frame /\ FrameInv(f) /\ f.call \in AllCalls /\ ctx \in Ctx
      /\ tx_buffer \in Seq(Event)
  BY FrameOf DEF TypeInv
<1>3. f.call.fn = "uds_send_response"
  BY <1>1, <1>2 DEF FrameInv
<1>4. f.call.sid \in Byte
  BY <1>2, <1>3, CallCases, SidBytes
<1>5. ctx' \in Ctx
  BY <1>1, <1>2, <1>4, QuietResponse DEF Quiet, Calm, OutcomeType
<1>6. Moves(th, g)
  BY DEF AnswerJob, Moves, TypeInv
<1>7. at \in Points /\ at \in {"leave", "send"}
  BY DEF Points
<1> HIDE DEF at
<1>8. /\ g \in Frame /\ g.at = at /\ g.call = f.call /\ g.outer = f.outer
      /\ g.path = f.path /\ g.sent = f.sent
  BY <1>2, <1>7 DEF Frame
<1>9. f.outer = <<>>
  BY <1>1, <1>2 DEF FrameInv
<1> HIDE DEF g, o
<1>10. FrameInv(g)
  BY <1>1, <1>2, <1>7, <1>8, <1>9 DEF FrameInv
<1>11. thr'[th] = g
  BY <1>6, Moved
<1>12. TypeInv'
  BY <1>1, <1>2, <1>5, <1>6, <1>8, <1>10, InnerType
<1> QED
  BY <1>1, <1>3, <1>6, <1>8, <1>9, <1>11, <1>12 DEF o, at

\* The transport takes the buffer.
LEMMA SendMoves ==
  ASSUME TypeInv, NEW th \in Thread, Send(th)
  PROVE  LET f == thr[th]
             g == thr'[th]
         IN  /\ TypeInv' /\ Moves(th, g)
             /\ UNCHANGED <<ctx, now, jobs, tx_buffer, mutex, settled, wire>>
             /\ f.at = "send" /\ g.at = "after" /\ g.call = f.call /\ g.outer = f.outer
             /\ g.path = f.path /\ g.sent = tx_buffer
<1> DEFINE f == thr[th]
           sent == f.sent \o tx_buffer
           g == [f EXCEPT !.at = "after", !.sent = sent]
<1>1. f.at = "send" /\ UNCHANGED <<ctx, now, jobs, tx_buffer, mutex, settled, wire>>
  BY DEF Send, At
<1>2. /\ f \in Frame /\ FrameInv(f) /\ ctx \in Ctx /\ tx_buffer \in Seq(Event)
      /\ thr \in [Thread -> Frame]
  BY FrameOf DEF TypeInv
<1>3. f.sent = <<>>
  BY <1>1, <1>2 DEF FrameInv
<1>4. sent = tx_buffer
  BY <1>2, <1>3
<1>5. Moves(th, g)
  BY <1>2 DEF Send, Moves
<1> HIDE DEF sent
<1>6. /\ g \in Frame /\ g.at = "after" /\ g.call = f.call /\ g.outer = f.outer
      /\ g.path = f.path /\ g.sent = sent
  BY <1>2, <1>4 DEF Frame, Points
<1> HIDE DEF g
<1>7. FrameInv(g)
  BY <1>1, <1>2, <1>6 DEF FrameInv
<1>8. thr'[th] = g
  BY <1>5, Moved
<1>9. TypeInv'
  BY <1>1, <1>2, <1>5, <1>6, <1>7, InnerType
<1> QED
  BY <1>1, <1>4, <1>5, <1>6, <1>8, <1>9

\* What follows the send keeps the context a context, and touches the wait only
\* to arm it.
LEMMA FinishedFacts ==
  ASSUME NEW c \in Ctx, NEW f \in Frame, FrameInv(f), NEW t \in Time
  PROVE  LET d == Finished(c, f, t)
         IN  /\ d \in Ctx /\ d.client_cb = c.client_cb
             /\ IF f.path = "arm" THEN d.pending_sid = f.call.r.sid
                ELSE d.pending_sid = c.pending_sid /\ d.p2_msg_pending = c.p2_msg_pending
<1>1. f.path \in Paths /\ f.call \in AllCalls
  BY DEF Frame
<1>2. CASE f.path = "plain"
  BY <1>2 DEF Finished
<1>3. CASE f.path = "abort"
  <2>1. 0 \in 0 .. RCRRP_MOD - 1
    BY TimingAssumption
  <2> QED
    BY <1>3, <2>1 DEF Finished, Ctx
<1>4. CASE f.path = "repeat"
  <2> DEFINE n == (c.rcrrp_count + 1) % RCRRP_MOD
  <2>1. n \in 0 .. RCRRP_MOD - 1
    BY TimingAssumption DEF Ctx
  <2> DEFINE d == [c EXCEPT !.rcrrp_count = n, !.p2_star_active = TRUE,
                            !.p2_timer_start = t]
  <2>2. Finished(c, f, t) = d
    BY <1>4 DEF Finished
  <2> HIDE DEF n
  <2>3. /\ d \in Ctx /\ d.client_cb = c.client_cb /\ d.pending_sid = c.pending_sid
        /\ d.p2_msg_pending = c.p2_msg_pending
    BY <2>1 DEF Ctx
  <2> QED
    BY <1>4, <2>2, <2>3
<1>5. CASE f.path = "arm"
  <2>1. f.call.fn = "uds_input_sdu"
    BY <1>5, CallKinds DEF FrameInv
  <2>2. f.call.r.sid \in Byte
    BY <1>1, <2>1, CallCases DEF Request
  <2> DEFINE d == [c EXCEPT !.p2_msg_pending = TRUE, !.p2_star_active = TRUE,
                            !.p2_timer_start = t, !.pending_sid = f.call.r.sid]
  <2>3. Finished(c, f, t) = d
    BY <1>5 DEF Finished
  <2>4. d \in Ctx /\ d.client_cb = c.client_cb /\ d.pending_sid = f.call.r.sid
    BY <2>2 DEF Ctx
  <2> QED
    BY <1>5, <2>3, <2>4
<1> QED
  BY <1>1, <1>2, <1>3, <1>4, <1>5 DEF Paths

\* The rest of the call.
LEMMA AfterMoves ==
  ASSUME TypeInv, NEW th \in Thread, After(th)
  PROVE  LET f == thr[th]
             g == thr'[th]
         IN  /\ TypeInv' /\ Moves(th, g) /\ UNCHANGED <<now, jobs, mutex, settled, wire>>
             /\ f.at = "after" /\ g.at = "leave" /\ g.call = f.call /\ g.outer = f.outer
             /\ g.path = f.path /\ g.sent = f.sent
             /\ ctx' = Finished(ctx, f, now)
<1> DEFINE f == thr[th]
           g == [f EXCEPT !.at = "leave"]
<1>1. /\ f.at = "after" /\ ctx' = Finished(ctx, f, now)
      /\ UNCHANGED <<now, jobs, tx_buffer, mutex, settled, wire>>
  BY DEF After, At
<1>2. /\ f \in Frame /\ FrameInv(f) /\ ctx \in Ctx /\ now \in Time
      /\ tx_buffer \in Seq(Event)
  BY FrameOf DEF TypeInv
<1>3. ctx' \in Ctx
  BY <1>1, <1>2, FinishedFacts
<1>4. /\ g \in Frame /\ g.at = "leave" /\ g.call = f.call /\ g.outer = f.outer
      /\ g.path = f.path /\ g.sent = f.sent
  BY <1>2 DEF Frame, Points
<1>5. Moves(th, g)
  BY DEF After, Moves, TypeInv
<1> HIDE DEF g
<1>6. FrameInv(g)
  BY <1>1, <1>2, <1>4 DEF FrameInv
<1>7. thr'[th] = g
  BY <1>5, Moved
<1>8. TypeInv'
  BY <1>1, <1>2, <1>3, <1>4, <1>5, <1>6, InnerType
<1> QED
  BY <1>1, <1>4, <1>5, <1>7, <1>8

-----------------------------------------------------------------------------
(* The mutex *)

\* How often the call in frame f, with the one it was called back from, has
\* taken the mutex.
Held(f) ==
  (IF Locks(f.call) /\ f.at \notin {"idle", "lock"} THEN 1 ELSE 0)
    + (IF f.outer # <<>> THEN 1 ELSE 0)

\* Who has taken the mutex owns it, as often as it has taken it; and where no
\* call returns without unlocking, only such a thread does.
MutexInv ==
  /\ \A th \in Thread : Held(thr[th]) > 0 =>
       mutex.owner = th /\ mutex.depth >= Held(thr[th])
  /\ mutex.owner = "nobody" => mutex.depth = 0
  /\ RCRRP_LIMIT = 0 =>
       \A th \in Thread : mutex.owner = th =>
         Held(thr[th]) > 0 /\ mutex.depth = Held(thr[th])

\* A call takes the mutex at most once, and twice with the one it was called
\* back from.
LEMMA HeldFacts ==
  ASSUME NEW f \in Frame, FrameInv(f)
  PROVE  /\ Held(f) \in Nat /\ Held(f) <= 2
         /\ f.at = "idle" => Held(f) = 0
         /\ f.outer # <<>> => Locks(f.call)
         /\ f.at = "lock" => Held(f) = IF f.outer # <<>> THEN 1 ELSE 0
         /\ f.at \notin {"idle", "lock"} => Held(f) =
              (IF Locks(f.call) THEN 1 ELSE 0) + (IF f.outer # <<>> THEN 1 ELSE 0)
<1>1. f.outer # <<>> => Locks(f.call)
  BY CallKinds DEF FrameInv, Locks
<1>2. f.at = "idle" => f.outer = <<>>
  BY DEF FrameInv
<1> QED
  BY <1>1, <1>2 DEF Held

\* A step that neither takes the mutex nor gives it back.
LEMMA InnerMutex ==
  ASSUME TypeInv, MutexInv, NEW th \in Thread, NEW g, Moves(th, g),
         Held(g) = Held(thr[th]), mutex' = mutex
  PROVE  MutexInv'
<1>1. \A x \in Thread : Held(thr[x])' = Held(thr[x])
  <2>1. \A x \in Thread : Held(thr'[x]) = Held(thr[x])
    BY Moved
  <2> QED
    BY <2>1 DEF Held
<1> QED
  BY <1>1 DEF MutexInv

\* A thread outside the stack has a frame, too.
LEMMA IdleFrame ==
  /\ Idle \in Frame /\ FrameInv(Idle) /\ Idle.at = "idle" /\ Idle.outer = <<>>
  /\ Idle.path = "plain" /\ Idle.sent = <<>>
<1>1. /\ Idle.at = "idle" /\ Idle.outer = <<>> /\ Idle.path = "plain" /\ Idle.sent = <<>>
      /\ Idle.call = ProcessCall
  BY DEF Idle
<1>2. FrameInv(Idle)
  BY <1>1 DEF FrameInv
<1>3. /\ ProcessCall \in AllCalls /\ "idle" \in Points /\ "plain" \in Paths
      /\ <<>> \in Seq(AllCalls) /\ <<>> \in Seq(Event)
  BY CallKinds DEF Points, Paths
<1>4. Idle \in Frame
  BY <1>3 DEF Idle, Frame
<1> QED
  BY <1>1, <1>2, <1>4

\* A call returns.
LEMMA LeaveMoves ==
  ASSUME TypeInv, MutexInv, NEW th \in Thread, Leave(th)
  PROVE  LET f == thr[th]
             g == thr'[th]
         IN  /\ TypeInv' /\ MutexInv' /\ Moves(th, g)
             /\ UNCHANGED <<ctx, now, jobs, tx_buffer>> /\ f.at = "leave"
             /\ IF f.outer = <<>>
                THEN g = Idle /\ settled' = ctx /\ wire' = f.sent
                ELSE /\ g.at = "clear" /\ g.call = f.outer[1] /\ g.outer = <<>>
                     /\ g.path = f.path /\ g.sent = f.sent /\ f.path = "plain"
                     /\ settled' = settled /\ wire' = wire
<1> DEFINE f == thr[th]
           x == [f EXCEPT !.at = "clear", !.outer = <<>>, !.call = f.outer[1]]
           g == IF f.outer = <<>> THEN Idle ELSE x
<1>1. /\ f.at = "leave" /\ UNCHANGED <<ctx, now, jobs, tx_buffer>>
      /\ mutex' = IF ~Unlocks(f) THEN mutex
                  ELSE IF mutex.depth = 1 THEN Free
                  ELSE [mutex EXCEPT !.depth = @ - 1]
      /\ thr' = [thr EXCEPT ![th] = g]
      /\ IF f.outer = <<>> THEN settled' = ctx /\ wire' = f.sent
         ELSE settled' = settled /\ wire' = wire
  BY DEF Leave, At
<1>2. f \in Frame /\ FrameInv(f) /\ f.outer \in Seq(AllCalls)
  BY FrameOf DEF Frame
<1>3. f.outer # <<>> => /\ f.outer[1] \in InputCalls /\ f.outer[1] \in AllCalls
                        /\ f.call \in ClientCalls /\ f.path = "plain"
  BY <1>2, CallKinds DEF FrameInv
<1>4. Idle \in Frame /\ FrameInv(Idle) /\ Idle.at = "idle"
  BY IdleFrame
<1>5. f.outer # <<>> =>
        /\ x \in Frame /\ x.at = "clear" /\ x.call = f.outer[1] /\ x.outer = <<>>
        /\ x.path = f.path /\ x.sent = f.sent
  <2>1. <<>> \in Seq(AllCalls) /\ "clear" \in Points
    BY DEF Points
  <2>2. ASSUME NEW call \in AllCalls
        PROVE  LET y == [f EXCEPT !.at = "clear", !.outer = <<>>, !.call = call]
               IN  /\ y \in Frame /\ y.at = "clear" /\ y.call = call /\ y.outer = <<>>
                   /\ y.path = f.path /\ y.sent = f.sent
    BY <1>2, <2>1 DEF Frame
  <2> QED
    BY <1>3, <2>2
<1> HIDE DEF x
<1>6. f.outer # <<>> => FrameInv(x)
  BY <1>3, <1>5 DEF FrameInv
<1>7. g \in Frame /\ FrameInv(g)
  BY <1>4, <1>5, <1>6
<1>8. f.outer # <<>> => Locks(x.call) /\ Held(x) = 1 /\ Unlocks(f) /\ Held(f) = 2
  <2>1. f.outer # <<>> => Locks(x.call) /\ Locks(f.call)
    BY <1>3, <1>5, CallKinds DEF Locks
  <2> QED
    BY <1>1, <1>2, <1>3, <1>5, <1>6, <2>1, HeldFacts DEF Unlocks
<1>9. f.outer = <<>> => /\ Held(Idle) = 0
                        /\ Held(f) = IF Locks(f.call) THEN 1 ELSE 0
  BY <1>1, <1>2, <1>4, HeldFacts
<1>10. /\ f.outer = <<>> => g = Idle
       /\ f.outer # <<>> => g = x
  OBVIOUS
<1> HIDE DEF g
<1>11. Moves(th, g) /\ thr'[th] = g
  BY <1>1, Moved DEF Moves
<1>12. mutex \in [owner: Thread \cup {"nobody"}, depth: Nat]
  BY DEF TypeInv
<1>13. Unlocks(f) => mutex.owner = th /\ mutex.depth >= Held(f) /\ Held(f) > 0
  <2>1. Unlocks(f) => Held(f) > 0
    BY <1>8, <1>9 DEF Unlocks
  <2> QED
    BY <2>1 DEF MutexInv
<1>14. mutex' \in [owner: Thread \cup {"nobody"}, depth: Nat]
  <2>1. CASE ~Unlocks(f)
    BY <1>1, <1>12, <2>1
  <2>2. CASE Unlocks(f) /\ mutex.depth = 1
    BY <1>1, <2>2 DEF Free
  <2>3. CASE Unlocks(f) /\ mutex.depth # 1
    <3>1. mutex.depth - 1 \in Nat
      BY <1>8, <1>9, <1>12, <1>13, <2>3
    <3> QED
      BY <1>1, <1>12, <2>3, <3>1
  <2> QED
    BY <2>1, <2>2, <2>3
<1>15. TypeInv'
  <2>1. thr' \in [Thread -> Frame] /\ \A y \in Thread : FrameInv(thr'[y])
    BY <1>7, <1>11, MovedType
  <2>2. settled' \in Ctx
    BY <1>1 DEF TypeInv
  <2> QED
    BY <1>1, <1>14, <2>1, <2>2 DEF TypeInv
<1>16. MutexInv'
  <2>1. \A y \in Thread \ {th} : Held(thr'[y]) = Held(thr[y])
    BY <1>11, Moved
  <2>2. Held(thr'[th]) = IF f.outer = <<>> THEN 0 ELSE 1
    BY <1>8, <1>9, <1>10, <1>11
  <2>3. \A y \in Thread : Held(thr[y])' = Held(thr'[y])
    BY DEF Held
  <2>4. \A y \in Thread : Held(thr[y]) \in Nat
    BY FrameOf, HeldFacts
  <2>5. CASE ~Unlocks(f)
    <3>1. f.outer = <<>> /\ mutex' = mutex
      BY <1>1, <1>8, <2>5
    <3>2. Held(f) = 0 \/ RCRRP_LIMIT # 0
      <4>1. ~Locks(f.call) \/ f.path = "abort"
        BY <2>5 DEF Unlocks
      <4>2. f.path = "abort" => RCRRP_LIMIT # 0
        BY <1>2, TimingAssumption DEF FrameInv
      <4> QED
        BY <1>9, <3>1, <4>1, <4>2
    <3> QED
      BY <2>1, <2>2, <2>3, <2>4, <3>1, <3>2 DEF MutexInv
  <2>6. CASE Unlocks(f)
    <3>1. /\ mutex.owner = th /\ mutex.depth >= Held(f) /\ Held(f) > 0
          /\ RCRRP_LIMIT = 0 => mutex.depth = Held(f)
          /\ \A y \in Thread \ {th} : ~(Held(thr[y]) > 0)
      BY <1>13, <2>6 DEF MutexInv
    <3>2. \A y \in Thread \ {th} : ~(Held(thr'[y]) > 0)
      BY <2>1, <3>1
    <3>3. Held(f) = IF f.outer = <<>> THEN 1 ELSE 2
      BY <1>8, <1>9, <2>6 DEF Unlocks
    <3>4. CASE mutex.depth = 1
      <4>1. mutex'.owner = "nobody" /\ mutex'.depth = 0 /\ f.outer = <<>>
        BY <1>1, <2>6, <3>1, <3>3, <3>4 DEF Free
      <4>2. "nobody" \notin Thread
        BY DEF Thread
      <4> QED
        BY <2>2, <2>3, <3>2, <4>1, <4>2 DEF MutexInv
    <3>5. CASE mutex.depth # 1
      <4>1. mutex'.owner = th /\ mutex'.depth = mutex.depth - 1
        BY <1>1, <1>12, <2>6, <3>1, <3>5
      <4>2. th # "nobody" /\ mutex.depth \in Nat
        BY <1>12 DEF Thread
      <4>3. f.outer = <<>> => RCRRP_LIMIT # 0
        BY <3>1, <3>3, <3>5
      <4> QED
        BY <2>2, <2>3, <3>1, <3>2, <3>3, <4>1, <4>2, <4>3 DEF MutexInv
    <3> QED
      BY <3>4, <3>5
  <2> QED
    BY <2>5, <2>6
<1> QED
  BY <1>1, <1>3, <1>5, <1>10, <1>11, <1>15, <1>16

\* The context that uds_init leaves.
LEMMA InitContext == uds_init(EmptyNvm) \in Ctx
<1>1. /\ DEFAULT \in Sessions /\ 0 \in 0 .. 63 /\ 0 \in Byte /\ 0 \in 0 .. 5
      /\ 0 \in Time /\ 0 \in 0 .. ATTEMPTS_MOD - 1 /\ 0 \in 0 .. RCRRP_MOD - 1
  BY TimingAssumption DEF Sessions, DEFAULT, Byte, Time
<1> QED
  BY <1>1 DEF uds_init, EmptyNvm, Ctx

\* The start of a call takes no mutex.
LEMMA StartMutex ==
  ASSUME TypeInv, MutexInv, NEW th \in Thread, NEW call \in Offered(th), Start(th, call)
  PROVE  MutexInv'
<1> DEFINE g == thr'[th]
<1>1. /\ Moves(th, g) /\ g.at = (IF Locks(call) THEN "lock" ELSE "run") /\ g.call = call
      /\ g.outer = <<>> /\ thr[th].at = "idle" /\ mutex' = mutex
  BY StartMoves
<1>2. Held(g) = 0
  <2>1. g.at = "lock" \/ ~Locks(g.call)
    BY <1>1
  <2> HIDE DEF g
  <2> QED
    BY <1>1, <2>1 DEF Held
<1>3. thr[th] \in Frame /\ FrameInv(thr[th])
  BY FrameOf
<1>4. Held(thr[th]) = 0
  BY <1>1, <1>3, HeldFacts
<1> QED
  BY <1>1, <1>2, <1>4, InnerMutex

\* Nobody gets the mutex while another thread has it.
LEMMA AcquireMutex ==
  ASSUME TypeInv, MutexInv, NEW th \in Thread, Acquire(th)
  PROVE  MutexInv'
<1> DEFINE f == thr[th]
           g == [f EXCEPT !.at = "run"]
<1>1. /\ Moves(th, g) /\ g.at = "run" /\ g.call = f.call /\ g.outer = f.outer
      /\ mutex.owner \in {"nobody", th} /\ f.at = "lock"
      /\ mutex'.owner = th /\ mutex'.depth = mutex.depth + 1
      /\ TypeInv'
  BY AcquireMoves
<1> HIDE DEF g
<1>2. thr'[th] = g /\ \A x \in Thread \ {th} : thr'[x] = thr[x]
  BY <1>1, Moved
<1>3. f \in Frame /\ FrameInv(f) /\ mutex.depth \in Nat /\ th # "nobody"
        /\ "nobody" \notin Thread
  BY FrameOf DEF TypeInv, Thread
<1>4. Held(g) <= Held(f) + 1 /\ Held(g) \in Nat /\ Held(f) \in Nat
        /\ (Locks(f.call) => Held(g) = Held(f) + 1)
  BY <1>1 DEF Held
<1>5. Locks(f.call)
  BY <1>1, <1>3 DEF FrameInv
<1>6. \A x \in Thread \ {th} : ~(Held(thr'[x]) > 0)
  BY <1>1, <1>2, <1>3 DEF MutexInv
<1>7. mutex.depth >= Held(f)
  BY <1>3, <1>4 DEF MutexInv
<1>8. RCRRP_LIMIT = 0 => mutex.depth = Held(f)
  <2>1. CASE mutex.owner = th
    BY <2>1 DEF MutexInv
  <2>2. CASE mutex.owner = "nobody"
    <3>1. mutex.depth = 0 /\ ~(Held(f) > 0)
      BY <1>3, <2>2 DEF MutexInv
    <3> QED
      BY <1>4, <3>1
  <2> QED
    BY <1>1, <2>1, <2>2
<1>9. \A x \in Thread : Held(thr[x])' = Held(thr'[x])
  BY DEF Held
<1> QED
  BY <1>1, <1>2, <1>3, <1>4, <1>5, <1>6, <1>7, <1>8, <1>9 DEF MutexInv

\* Between the lock and the unlock the count stays.
LEMMA SameHeld ==
  ASSUME NEW f, NEW g, f.at \notin {"idle", "lock"}, g.at \notin {"idle", "lock"},
         g.call = f.call, g.outer = f.outer
  PROVE  Held(g) = Held(f)
BY DEF Held

\* Every step of the specification keeps the types and the mutex.
LEMMA ThreadStep ==
  ASSUME TypeInv, MutexInv, [ThreadNext]_vars
  PROVE  TypeInv' /\ MutexInv'
<1>1. ASSUME NEW th \in Thread, NEW call \in Offered(th), Start(th, call)
      PROVE  TypeInv' /\ MutexInv'
  BY <1>1, StartMoves, StartMutex
<1>2. ASSUME NEW th \in Thread, Acquire(th)
      PROVE  TypeInv' /\ MutexInv'
  BY <1>2, AcquireMoves, AcquireMutex
<1>3. ASSUME NEW th \in Thread, TypeInv', Moves(th, thr'[th]), mutex' = mutex,
             thr[th].at \notin {"idle", "lock"}, thr'[th].at \notin {"idle", "lock"},
             thr'[th].call = thr[th].call, thr'[th].outer = thr[th].outer
      PROVE  MutexInv'
  BY <1>3, SameHeld, InnerMutex
<1>4. ASSUME NEW th \in Thread, TypeInv', Moves(th, thr'[th]), Composes(th)
      PROVE  MutexInv'
  <2>1. /\ mutex' = mutex /\ thr[th].at = "run" /\ thr'[th].at \in {"send", "after"}
        /\ thr'[th].call = thr[th].call /\ thr'[th].outer = thr[th].outer
    BY <1>4 DEF Composes
  <2> QED
    BY <1>3, <1>4, <2>1
<1>5. ASSUME NEW th \in Thread, RunCallback(th)
      PROVE  TypeInv' /\ MutexInv'
  <2> DEFINE f == thr[th]
             g == thr'[th]
  <2>1. /\ TypeInv' /\ Moves(th, g) /\ mutex' = mutex
        /\ f.at = "run" /\ f.call \in InputCalls /\ f.outer = <<>>
        /\ \/ g.at = "lock" /\ g.outer = <<f.call>>
           \/ g.at = "clear" /\ g.call = f.call /\ g.outer = <<>>
    BY <1>5, CallbackMoves
  <2>2. Locks(f.call)
    BY <2>1, CallKinds DEF Locks
  <2>3. Held(f) = 1
    BY <2>1, <2>2 DEF Held
  <2> HIDE DEF f, g
  <2>4. Held(g) = 1
    <3>1. CASE g.at = "lock" /\ g.outer = <<f.call>>
      <4>1. g.outer # <<>>
        BY <3>1
      <4> QED
        BY <3>1, <4>1 DEF Held
    <3>2. CASE g.at = "clear" /\ g.call = f.call /\ g.outer = <<>>
      <4>1. Locks(g.call)
        BY <2>2, <3>2
      <4> QED
        BY <3>2, <4>1 DEF Held
    <3> QED
      BY <2>1, <3>1, <3>2
  <2> QED
    BY <2>1, <2>3, <2>4, InnerMutex DEF f
<1>6. ASSUME NEW th \in Thread, Step(th)
      PROVE  TypeInv' /\ MutexInv'
  <2>1. CASE RunProcess(th) \/ RunInput(th) \/ RunClient(th)
    BY <1>4, <2>1, ProcessMoves, InputMoves, ClientMoves
  <2>2. CASE RunRespond(th)
    BY <1>3, <2>2, RespondMoves
  <2>3. CASE AnswerJob(th)
    <3>1. /\ TypeInv' /\ Moves(th, thr'[th]) /\ mutex' = mutex /\ thr[th].at = "answer"
          /\ thr'[th].at \in {"leave", "send"}
          /\ thr'[th].call = thr[th].call /\ thr'[th].outer = thr[th].outer
      BY <2>3, AnswerMoves
    <3> QED
      BY <1>3, <3>1
  <2>4. CASE Send(th)
    BY <1>3, <2>4, SendMoves
  <2>5. CASE After(th)
    BY <1>3, <2>5, AfterMoves
  <2>6. CASE Clear(th)
    BY <1>3, <2>6, ClearMoves
  <2>7. CASE Leave(th)
    BY <2>7, LeaveMoves
  <2> QED
    BY <1>5, <1>6, <2>1, <2>2, <2>3, <2>4, <2>5, <2>6, <2>7 DEF Step
<1>7. CASE ThreadTick
  <2>1. /\ UNCHANGED <<ctx, jobs, tx_buffer, mutex, thr, settled>>
        /\ now' = (now + 1) % TIME_MOD
    BY <1>7 DEF ThreadTick
  <2>2. now' \in Time
    BY <2>1, TimingAssumption, SMTT(30) DEF TypeInv, Time
  <2> QED
    BY <2>1, <2>2 DEF TypeInv, MutexInv
<1>8. CASE UNCHANGED vars
  BY <1>8 DEF vars, TypeInv, MutexInv
<1> QED
  BY <1>1, <1>2, <1>6, <1>7, <1>8 DEF ThreadNext

\* They hold in the beginning.
LEMMA ThreadStart ==
  ASSUME ThreadInit
  PROVE  TypeInv /\ MutexInv
<1>1. thr = [th \in Thread |-> Idle] /\ \A th \in Thread : thr[th] = Idle
  BY DEF ThreadInit
<1>2. thr \in [Thread -> Frame] /\ \A th \in Thread : FrameInv(thr[th])
  BY <1>1, IdleFrame
<1>3. \A th \in Thread : Held(thr[th]) = 0
  BY <1>1, IdleFrame, HeldFacts
<1>4. uds_init(EmptyNvm) \in Ctx
  BY InitContext
<1>5. mutex.owner = "nobody" /\ mutex.depth = 0 /\ "nobody" \notin Thread
        /\ mutex \in [owner: Thread \cup {"nobody"}, depth: Nat]
  BY DEF ThreadInit, Free, Thread
<1>6. TypeInv
  BY <1>2, <1>4, <1>5, TimingAssumption DEF TypeInv, ThreadInit, Time
<1>7. MutexInv
  BY <1>3, <1>5 DEF MutexInv
<1> QED
  BY <1>6, <1>7

\* The inductive invariant holds, whether or not the application locks, whether
\* or not the mutex may be taken again, and for any limit of repetitions.
THEOREM ThreadInvariance == ThreadSpec => [](TypeInv /\ MutexInv)
<1>1. ThreadInit => TypeInv /\ MutexInv
  BY ThreadStart
<1>2. (TypeInv /\ MutexInv) /\ [ThreadNext]_vars => (TypeInv /\ MutexInv)'
  BY ThreadStep
<1> QED
  BY <1>1, <1>2, PTL DEF ThreadSpec

\* Without a limit of repetitions every return of uds_process, uds_input_sdu and
\* uds_client_request unlocks as often as the call locked, also a request made
\* from a callback, whether or not the application locks.
THEOREM LocksReleased == RCRRP_LIMIT = 0 => (ThreadSpec => []MutexReleased)
<1> SUFFICES ASSUME RCRRP_LIMIT = 0 PROVE ThreadSpec => []MutexReleased
  OBVIOUS
<1>1. TypeInv /\ MutexInv => MutexReleased
  <2> SUFFICES ASSUME TypeInv, MutexInv, NEW th \in Thread, thr[th].at = "idle"
               PROVE  mutex.owner # th
    BY DEF MutexReleased, At
  <2>1. Held(thr[th]) = 0
    BY FrameOf, HeldFacts
  <2> QED
    BY <2>1 DEF MutexInv
<1> QED
  BY <1>1, ThreadInvariance, PTL

\* Then the mutex is never taken more than twice, and all variables keep their
\* types, for any deliveries and services.
THEOREM ThreadTypes == RCRRP_LIMIT = 0 => (ThreadSpec => []ThreadTypeOK)
<1> SUFFICES ASSUME RCRRP_LIMIT = 0 PROVE ThreadSpec => []ThreadTypeOK
  OBVIOUS
<1>1. TypeInv /\ MutexInv => ThreadTypeOK
  <2> SUFFICES ASSUME TypeInv, MutexInv
               PROVE  mutex.depth \in 0 .. 2 /\ mutex.owner \in Thread \cup {"nobody"}
    BY DEF TypeInv, ThreadTypeOK
  <2>1. mutex.depth \in Nat /\ mutex.owner \in Thread \cup {"nobody"}
    BY DEF TypeInv
  <2>2. \A th \in Thread : Held(thr[th]) \in Nat /\ Held(thr[th]) <= 2
    BY FrameOf, HeldFacts
  <2>3. mutex.depth <= 2
    BY <2>1, <2>2 DEF MutexInv
  <2> QED
    BY <2>1, <2>3
<1> QED
  BY <1>1, ThreadInvariance, PTL

-----------------------------------------------------------------------------
(* Atomic calls: all that follows is about an application that answers under *)
(* the mutex.                                                                *)

\* A thread is inside the stack: between the lock and the unlock of its call,
\* or of the call it was called back from.
Inside(f) == f.at \notin {"idle", "lock"} \/ f.outer # <<>>

\* It is inside exactly while it holds the mutex.
LEMMA InsideHeld ==
  ASSUME APP_LOCKS, NEW f \in Frame, FrameInv(f)
  PROVE  Inside(f) <=> Held(f) > 0
<1>1. \A call : Locks(call)
  BY DEF Locks
<1>2. f.at = "idle" => f.outer = <<>>
  BY DEF FrameInv
<1> QED
  BY <1>1, <1>2 DEF Inside, Held

\* At most one thread is inside.
LEMMA Alone ==
  ASSUME APP_LOCKS, TypeInv, MutexInv, NEW x \in Thread, NEW y \in Thread,
         Inside(thr[x]), Inside(thr[y])
  PROVE  x = y
BY FrameOf, InsideHeld DEF MutexInv

\* How far the one call inside has got, from the context in which the last call
\* settled to its own effect.
Whole(f) ==
  LET o == Effect(f.call, settled, now)
  IN  /\ f.at \in {"run", "answer"} => ctx = settled
      /\ f.at = "answer" => tx_buffer = <<Pos(f.call.sid)>>
      /\ f.at = "send" => tx_buffer = o.msg
      /\ f.at \in {"send", "after"} => Finished(ctx, f, now) = o.ctx
      /\ f.at \in {"after", "clear", "leave"} => f.sent = o.msg
      /\ f.at = "clear" => [ctx EXCEPT !.client_cb = FALSE, !.pending_sid = 0] = o.ctx
      /\ f.at = "leave" => ctx = o.ctx

\* The same of a request made from the callback of another call.
InCallback(f) ==
  LET r == f.outer[1].r
      c == [settled EXCEPT !.last_msg_time = now]
      said == <<Asked(f.call.sid)>>
  IN  /\ r.len > 0 /\ ~settled.p2_msg_pending /\ IsResponse(settled, r)
      /\ settled.client_cb /\ f.call.sid = f.outer[1].a.chain /\ f.call.sid # 0
      /\ f.at \in {"lock", "run"} => ctx = c
      /\ f.at \in {"send", "after", "leave"} => ctx = uds_client_request(c, f.call.sid).ctx
      /\ f.at = "send" => tx_buffer = said
      /\ f.at \in {"after", "leave"} => f.sent = said

Underway(f) == IF f.outer = <<>> THEN Whole(f) ELSE InCallback(f)

DataInv ==
  /\ \A th \in Thread : Inside(thr[th]) => Underway(thr[th])
  /\ (\A th \in Thread : ~Inside(thr[th])) => ctx = settled

\* A call that is only a callback.
LEMMA CallbackEffect ==
  ASSUME NEW call \in InputCalls, NEW c \in Ctx, NEW t \in Time,
         call.r.len > 0, ~c.p2_msg_pending, IsResponse(c, call.r)
  PROVE  LET d == [c EXCEPT !.last_msg_time = t]
             o == Effect(call, c, t)
         IN  /\ c.client_cb /\ call.a.chain # 0 =>
                  /\ o.ctx = [uds_client_request(d, call.a.chain).ctx EXCEPT
                                !.client_cb = FALSE, !.pending_sid = 0]
                  /\ o.msg = <<Asked(call.a.chain)>>
             /\ ~(c.client_cb /\ call.a.chain # 0) =>
                  /\ o.ctx = [d EXCEPT !.client_cb = FALSE, !.pending_sid = 0]
                  /\ o.msg = <<>>
<1> DEFINE d == [c EXCEPT !.last_msg_time = t]
           u == client_response(d, call.r, call.a)
           sid == call.a.chain
<1>1. /\ call \in AllCalls /\ call.fn = "uds_input_sdu" /\ call.r \in Request
      /\ sid \in ClientSids \cup {0}
  BY CallKinds, CallCases
<1>2. d \in Ctx /\ d.client_cb = c.client_cb
  BY DEF Ctx
<1>3. uds_input_sdu(c, NoPeriodic, call.r, call.a, t) = u
  <2>1. call.r.len # 0
    BY <1>1 DEF Request
  <2> QED
    BY <2>1 DEF uds_input_sdu
<1>4. Effect(call, c, t).ctx = u.ctx /\ Effect(call, c, t).msg = Message(u.out)
  BY <1>1, <1>3 DEF Effect, Composed
<1> HIDE DEF d
<1>5. Cb(call.r) \in Event /\ Cb(call.r).k = "cb"
  BY <1>1, SMTT(30) DEF Cb, Event, EventKinds, Request, Byte
<1>6. CASE c.client_cb /\ sid # 0
  <2>1. sid \in Byte
    BY <1>1, SidBytes, <1>6
  <2>2. Asked(sid) \in Event /\ Asked(sid).k = "req"
    BY <2>1 DEF Asked, Event, EventKinds, Byte
  <2>3. uds_client_request(d, sid).out = <<Asked(sid)>>
    BY DEF uds_client_request, Outcome
  <2>4. /\ u.ctx = [uds_client_request(d, sid).ctx EXCEPT !.client_cb = FALSE,
                                                         !.pending_sid = 0]
        /\ u.out = <<Cb(call.r)>> \o <<Asked(sid)>>
    BY <1>2, <1>6, <2>3 DEF client_response, Outcome
  <2>6. Message(u.out) = <<Asked(sid)>>
    BY <1>5, <2>2, <2>4, MessageFacts
  <2> HIDE DEF u
  <2> QED
    BY <1>4, <1>6, <2>4, <2>6 DEF d
<1>7. CASE c.client_cb /\ sid = 0
  <2>1. u.ctx = [d EXCEPT !.client_cb = FALSE, !.pending_sid = 0]
    BY <1>2, <1>7 DEF client_response, Outcome
  <2>2. u.out = <<Cb(call.r)>>
    BY <1>2, <1>7 DEF client_response, Outcome
  <2>3. Message(u.out) = <<>>
    BY <1>5, <2>2, MessageFacts
  <2> HIDE DEF u
  <2> QED
    BY <1>4, <1>7, <2>1, <2>3 DEF d
<1>8. CASE ~c.client_cb
  <2>1. u.ctx = [d EXCEPT !.pending_sid = 0] /\ u.out = <<>>
    BY <1>2, <1>8 DEF client_response, Outcome
  <2>2. [d EXCEPT !.pending_sid = 0] = [d EXCEPT !.client_cb = FALSE, !.pending_sid = 0]
    BY <1>2, <1>8 DEF Ctx
  <2>3. Message(u.out) = <<>>
    BY <2>1, MessageFacts
  <2> HIDE DEF u
  <2> QED
    BY <1>4, <1>8, <2>1, <2>2, <2>3 DEF d
<1> QED
  BY <1>6, <1>7, <1>8

\* A step of the thread that is inside afterwards.
LEMMA DataMoves ==
  ASSUME APP_LOCKS, TypeInv', MutexInv', NEW th \in Thread, Inside(thr'[th]),
         Underway(thr[th])'
  PROVE  DataInv'
<1>1. \A x \in Thread : Inside(thr'[x]) => x = th
  <2>1. \A x, y \in Thread : Inside(thr'[x]) /\ Inside(thr'[y]) => x = y
    <3> SUFFICES ASSUME NEW x \in Thread, NEW y \in Thread, Inside(thr'[x]), Inside(thr'[y])
                 PROVE  x = y
      OBVIOUS
    <3>1. \A z \in Thread : thr'[z] \in Frame /\ FrameInv(thr'[z])
      BY DEF TypeInv, FrameInv
    <3>2. \A z \in Thread : Inside(thr'[z]) <=> Held(thr'[z]) > 0
      BY <3>1, InsideHeld
    <3>3. \A z \in Thread : Held(thr'[z]) > 0 => mutex'.owner = z
      BY DEF MutexInv, Held
    <3> QED
      BY <3>2, <3>3
  <2> QED
    BY <2>1
<1>2. \A x \in Thread : Inside(thr[x])' <=> Inside(thr'[x])
  BY DEF Inside
<1> QED
  BY <1>1, <1>2 DEF DataInv

\* A step of a thread that stays outside.
LEMMA DataStays ==
  ASSUME TypeInv, DataInv, NEW th \in Thread, Moves(th, thr'[th]),
         ~Inside(thr[th]), ~Inside(thr'[th]), UNCHANGED <<ctx, now, tx_buffer, settled>>
  PROVE  DataInv'
<1>1. \A x \in Thread : Inside(thr'[x]) => thr'[x] = thr[x]
  BY Moved
<1>2. \A x \in Thread : Inside(thr'[x]) <=> Inside(thr[x])
  BY Moved
<1>3. \A x \in Thread : thr'[x] = thr[x] => (Underway(thr[x])' <=> Underway(thr[x]))
  BY DEF Underway, Whole, InCallback
<1> QED
  BY <1>1, <1>2, <1>3 DEF DataInv

\* When a thread outside may take the mutex, nobody is inside.
LEMMA NobodyInside ==
  ASSUME APP_LOCKS, TypeInv, MutexInv, DataInv, NEW th \in Thread, ~Inside(thr[th]),
         mutex.owner \in {"nobody", th}
  PROVE  ctx = settled
<1>1. \A x \in Thread : Inside(thr[x]) => mutex.owner = x
  BY FrameOf, InsideHeld DEF MutexInv
<1>2. "nobody" \notin Thread
  BY DEF Thread
<1> QED
  BY <1>1, <1>2 DEF DataInv

\* The start of a call changes nothing that a call sees.
LEMMA StartData ==
  ASSUME APP_LOCKS, TypeInv, DataInv, NEW th \in Thread, NEW call \in Offered(th),
         Start(th, call)
  PROVE  DataInv' /\ UNCHANGED <<settled, now, wire>>
<1>1. Locks(call)
  BY DEF Locks
<1>2. /\ Moves(th, thr'[th]) /\ thr'[th].at = "lock" /\ thr[th].at = "idle"
      /\ thr'[th].outer = <<>> /\ UNCHANGED <<ctx, now, tx_buffer, mutex, settled, wire>>
  BY <1>1, StartMoves
<1>3. thr[th].outer = <<>>
  BY <1>2, FrameOf DEF FrameInv
<1>4. ~Inside(thr[th]) /\ ~Inside(thr'[th])
  BY <1>2, <1>3 DEF Inside
<1> QED
  BY <1>2, <1>4, DataStays

\* A call that gets the mutex starts from the settled context.
LEMMA AcquireData ==
  ASSUME APP_LOCKS, TypeInv, MutexInv, DataInv, NEW th \in Thread, Acquire(th)
  PROVE  DataInv' /\ UNCHANGED <<settled, now, wire>>
<1> DEFINE f == thr[th]
           g == thr'[th]
<1>1. /\ TypeInv' /\ f.at = "lock" /\ mutex.owner \in {"nobody", th}
      /\ UNCHANGED <<ctx, now, jobs, tx_buffer, settled, wire>>
      /\ g.at = "run" /\ g.call = f.call /\ g.outer = f.outer /\ g.sent = f.sent
  <2> DEFINE x == [f EXCEPT !.at = "run"]
  <2>1. /\ TypeInv' /\ f.at = "lock" /\ mutex.owner \in {"nobody", th}
        /\ UNCHANGED <<ctx, now, jobs, tx_buffer, settled, wire>> /\ Moves(th, x)
        /\ x.at = "run" /\ x.call = f.call /\ x.outer = f.outer /\ x.sent = f.sent
    BY AcquireMoves
  <2> HIDE DEF x
  <2>2. g = x
    BY <2>1, Moved
  <2> QED
    BY <2>1, <2>2
<1>2. MutexInv'
  BY AcquireMutex
<1>3. Inside(g)
  BY <1>1 DEF Inside
<1>4. CASE f.outer = <<>>
  <2>1. ~Inside(f)
    BY <1>1, <1>4 DEF Inside
  <2>2. ctx = settled
    BY <1>1, <2>1, NobodyInside
  <2>3. Underway(thr[th])'
    BY <1>1, <1>4, <2>2 DEF Underway, Whole
  <2> QED
    BY <1>1, <1>2, <1>3, <2>3, DataMoves
<1>5. CASE f.outer # <<>>
  <2>1. Underway(f)
    BY <1>5 DEF DataInv, Inside
  <2>2. Underway(thr[th])'
    BY <1>1, <1>5, <2>1 DEF Underway, InCallback
  <2> QED
    BY <1>1, <1>2, <1>3, <2>2, DataMoves
<1> QED
  BY <1>4, <1>5

\* What a call composes is its effect on the settled context.
LEMMA ComposeData ==
  ASSUME APP_LOCKS, TypeInv, MutexInv, DataInv, TypeInv', MutexInv', NEW th \in Thread,
         Composes(th), thr[th].outer = <<>>
  PROVE  DataInv' /\ UNCHANGED <<settled, now, wire>>
<1> DEFINE f == thr[th]
           g == thr'[th]
           o == Effect(f.call, settled, now)
<1>1. f.at = "run" /\ UNCHANGED <<now, mutex, settled, wire>>
  BY DEF Composes
<1>2. Underway(f)
  BY <1>1 DEF DataInv, Inside
<1>3. ctx = settled
  BY <1>1, <1>2 DEF Underway, Whole
<1>4. /\ g.call = f.call /\ g.outer = <<>> /\ g.sent = <<>>
      /\ g.at = (IF o.msg = <<>> THEN "after" ELSE "send")
      /\ tx_buffer' = (IF o.msg = <<>> THEN tx_buffer ELSE o.msg)
      /\ Finished(ctx', g, now) = o.ctx
  BY <1>3 DEF Composes
<1>5. Effect(thr[th].call, settled, now)' = o
  <2>1. Effect(thr[th].call, settled, now)' = Effect(g.call, settled', now')
    OBVIOUS
  <2> QED
    BY <1>1, <1>4, <2>1
<1>6. Finished(ctx, thr[th], now)' = o.ctx
  <2>1. Finished(ctx, thr[th], now)' = Finished(ctx', g, now')
    OBVIOUS
  <2> QED
    BY <1>1, <1>4, <2>1
<1> HIDE DEF o
<1>7. Whole(thr[th])'
  BY <1>4, <1>5, <1>6 DEF Whole
<1>8. Underway(thr[th])'
  BY <1>4, <1>7 DEF Underway
<1>9. Inside(g)
  BY <1>4 DEF Inside
<1> QED
  BY <1>1, <1>8, <1>9, DataMoves

\* A request made from a callback composes one message.
LEMMA NestedData ==
  ASSUME APP_LOCKS, TypeInv, MutexInv, DataInv, TypeInv', MutexInv', NEW th \in Thread,
         RunClient(th), thr[th].outer # <<>>
  PROVE  DataInv' /\ UNCHANGED <<settled, now, wire>>
<1> DEFINE f == thr[th]
           g == thr'[th]
           said == <<Asked(f.call.sid)>>
           o == Effect(f.call, ctx, now)
<1>1. /\ Composes(th) /\ f.call.fn = "uds_client_request" /\ g.path = "plain"
      /\ ctx' = uds_client_request(ctx, f.call.sid).ctx
  BY ClientMoves
<1>2. f.call \in AllCalls
  BY FrameOf
<1>3. f.call.sid \in Byte
  BY <1>1, <1>2, CallCases, SidBytes
<1>4. Asked(f.call.sid) \in Event /\ Asked(f.call.sid).k = "req"
  BY <1>3 DEF Asked, Event, EventKinds, Byte
<1>5. o.msg = said
  <2>1. uds_client_request(ctx, f.call.sid).out = said
    BY DEF uds_client_request, Outcome
  <2>2. Message(said) = said
    BY <1>4, MessageFacts
  <2> QED
    BY <1>1, <2>1, <2>2 DEF Effect, Composed
<1>6. said # <<>>
  OBVIOUS
<1> HIDE DEF said, o
<1>7. /\ f.at = "run" /\ g.call = f.call /\ g.outer = f.outer
      /\ g.at = "send" /\ tx_buffer' = said /\ UNCHANGED <<now, mutex, settled, wire>>
  BY <1>1, <1>5, <1>6 DEF Composes, o
<1>8. Underway(f)
  BY DEF DataInv, Inside
<1>9. InCallback(f)
  BY <1>8 DEF Underway
<1>10. InCallback(thr[th])'
  BY <1>1, <1>7, <1>9 DEF InCallback, said
<1>11. Underway(thr[th])' /\ Inside(g)
  BY <1>7, <1>10 DEF Underway, Inside
<1> QED
  BY <1>7, <1>11, DataMoves

\* The callback of a response, and what it leaves to be done.
LEMMA CallbackData ==
  ASSUME APP_LOCKS, TypeInv, MutexInv, DataInv, TypeInv', MutexInv', NEW th \in Thread,
         RunCallback(th)
  PROVE  DataInv' /\ UNCHANGED <<settled, now, wire>>
<1> DEFINE f == thr[th]
           g == thr'[th]
           c == [settled EXCEPT !.last_msg_time = now]
           o == Effect(f.call, settled, now)
<1>1. /\ UNCHANGED <<now, jobs, mutex, settled, wire>>
      /\ f.at = "run" /\ f.call \in InputCalls /\ CallsBack(f.call) /\ f.outer = <<>>
      /\ ctx' = [ctx EXCEPT !.last_msg_time = now]
      /\ g.path = "plain" /\ g.sent = <<>>
      /\ \/ /\ ctx.client_cb /\ f.call.a.chain # 0 /\ g.at = "lock"
            /\ g.call \in ClientCalls /\ g.call.sid = f.call.a.chain
            /\ g.outer = <<f.call>>
         \/ /\ ~(ctx.client_cb /\ f.call.a.chain # 0) /\ g.at = "clear"
            /\ g.call = f.call /\ g.outer = <<>>
  BY CallbackMoves
<1>2. Underway(f)
  BY <1>1 DEF DataInv, Inside
<1>3. ctx = settled
  BY <1>1, <1>2 DEF Underway, Whole
<1>4. ctx' = c /\ settled \in Ctx /\ now \in Time
  BY <1>1, <1>3 DEF TypeInv
<1>5. f.call.r.len > 0 /\ ~settled.p2_msg_pending /\ IsResponse(settled, f.call.r)
  BY <1>1, <1>3 DEF CallsBack
<1>6. CASE settled.client_cb /\ f.call.a.chain # 0
  <2>1. /\ g.at = "lock" /\ g.call.sid = f.call.a.chain /\ g.outer = <<f.call>>
    BY <1>1, <1>3, <1>6
  <2>2. g.outer # <<>> /\ g.outer[1] = f.call
    BY <2>1
  <2>3. InCallback(thr[th])'
    <3>1. /\ settled' = settled /\ now' = now /\ ctx' = c
      BY <1>1, <1>4
    <3>2. IsResponse(settled, g.outer[1].r)
      BY <1>5, <2>2
    <3>3. IsResponse(settled, thr[th].outer[1].r)' <=> IsResponse(settled', g.outer[1].r)
      OBVIOUS
    <3> QED
      BY <1>5, <1>6, <2>1, <2>2, <3>1, <3>2, <3>3 DEF InCallback
  <2>4. Underway(thr[th])' /\ Inside(g)
    BY <2>2, <2>3 DEF Underway, Inside
  <2> QED
    BY <1>1, <2>4, DataMoves
<1>7. CASE ~(settled.client_cb /\ f.call.a.chain # 0)
  <2>1. g.at = "clear" /\ g.call = f.call /\ g.outer = <<>>
    BY <1>1, <1>3, <1>7
  <2>2. /\ o.ctx = [c EXCEPT !.client_cb = FALSE, !.pending_sid = 0]
        /\ o.msg = <<>>
    <3>1. f.call \in InputCalls
      BY <1>1
    <3> HIDE DEF f
    <3> QED
      BY <1>4, <1>5, <1>7, <3>1, CallbackEffect, ZenonT(40)
  <2>3. Effect(thr[th].call, settled, now)' = o
    <3>1. Effect(thr[th].call, settled, now)' = Effect(g.call, settled', now')
      OBVIOUS
    <3> QED
      BY <1>1, <2>1, <3>1
  <2> HIDE DEF o
  <2>4. Whole(thr[th])'
    BY <1>1, <1>4, <2>1, <2>2, <2>3 DEF Whole
  <2>5. Underway(thr[th])' /\ Inside(g)
    BY <2>1, <2>4 DEF Underway, Inside
  <2> QED
    BY <1>1, <2>5, DataMoves
<1> QED
  BY <1>6, <1>7

\* The request that was called back is disarmed.
LEMMA ClearData ==
  ASSUME APP_LOCKS, TypeInv, MutexInv, DataInv, TypeInv', MutexInv', NEW th \in Thread,
         Clear(th)
  PROVE  DataInv' /\ UNCHANGED <<settled, now, wire>>
<1> DEFINE f == thr[th]
           g == thr'[th]
           o == Effect(f.call, settled, now)
<1>1. /\ UNCHANGED <<now, jobs, mutex, settled, wire>>
      /\ f.at = "clear" /\ g.at = "leave" /\ g.call = f.call /\ g.outer = f.outer
      /\ g.sent = f.sent
      /\ ctx' = [ctx EXCEPT !.client_cb = FALSE, !.pending_sid = 0]
  BY ClearMoves
<1>2. f.outer = <<>>
  BY <1>1, FrameOf DEF FrameInv
<1>3. Whole(f)
  BY <1>1, <1>2 DEF DataInv, Inside, Underway
<1>4. Effect(thr[th].call, settled, now)' = o
  <2>1. Effect(thr[th].call, settled, now)' = Effect(g.call, settled', now')
    OBVIOUS
  <2> QED
    BY <1>1, <2>1
<1>5. [ctx EXCEPT !.client_cb = FALSE, !.pending_sid = 0] = o.ctx /\ f.sent = o.msg
  BY <1>1, <1>3 DEF Whole
<1> HIDE DEF o
<1>6. Whole(thr[th])'
  BY <1>1, <1>4, <1>5 DEF Whole
<1>7. Underway(thr[th])' /\ Inside(g)
  BY <1>1, <1>2, <1>6 DEF Underway, Inside
<1> QED
  BY <1>1, <1>7, DataMoves

\* The application's answer is composed ...
LEMMA RespondData ==
  ASSUME APP_LOCKS, TypeInv, MutexInv, DataInv, TypeInv', MutexInv', NEW th \in Thread,
         RunRespond(th)
  PROVE  DataInv' /\ UNCHANGED <<settled, now, wire>>
<1> DEFINE f == thr[th]
           g == thr'[th]
<1>1. /\ UNCHANGED <<ctx, now, jobs, mutex, settled, wire>>
      /\ f.at = "run" /\ g.at = "answer" /\ g.call = f.call /\ g.outer = f.outer
      /\ tx_buffer' = <<Pos(f.call.sid)>>
  BY RespondMoves
<1>2. thr'[th] \in Frame /\ FrameInv(thr'[th])
  BY DEF TypeInv, FrameInv
<1>3. g.outer = <<>>
  BY <1>1, <1>2 DEF FrameInv
<1>4. Whole(f)
  BY <1>1, <1>3 DEF DataInv, Inside, Underway
<1>5. ctx = settled
  BY <1>1, <1>4 DEF Whole
<1>6. Whole(thr[th])'
  BY <1>1, <1>5 DEF Whole
<1>7. Underway(thr[th])' /\ Inside(g)
  BY <1>1, <1>3, <1>6 DEF Underway, Inside
<1> QED
  BY <1>1, <1>7, DataMoves

\* ... and sent, or not.
LEMMA AnswerData ==
  ASSUME APP_LOCKS, TypeInv, MutexInv, DataInv, TypeInv', MutexInv', NEW th \in Thread,
         AnswerJob(th)
  PROVE  DataInv' /\ UNCHANGED <<settled, now, wire>>
<1> DEFINE f == thr[th]
           g == thr'[th]
           u == uds_send_response(settled, f.call.sid, 2)
           o == Effect(f.call, settled, now)
<1>1. /\ UNCHANGED <<now, jobs, mutex, settled, wire>>
      /\ f.at = "answer" /\ f.call.fn = "uds_send_response" /\ f.outer = <<>>
      /\ g.call = f.call /\ g.outer = f.outer /\ g.path = f.path /\ g.sent = f.sent
      /\ tx_buffer' = tx_buffer
  BY AnswerMoves
<1>2. Whole(f)
  BY <1>1 DEF DataInv, Inside, Underway
<1>3. ctx = settled /\ tx_buffer = <<Pos(f.call.sid)>>
  BY <1>1, <1>2 DEF Whole
<1>4. g.at = (IF u.out = <<>> THEN "leave" ELSE "send") /\ ctx' = u.ctx
  BY <1>3, AnswerMoves
<1>5. f.call \in AllCalls /\ f.path = "plain" /\ f.sent = <<>>
  BY <1>1, FrameOf DEF FrameInv
<1>6. Pos(f.call.sid) \in Event /\ Pos(f.call.sid).k = "pos"
  <2>1. f.call.sid \in Byte
    BY <1>1, <1>5, CallCases, SidBytes
  <2> QED
    BY <2>1 DEF Pos, Event, EventKinds, Byte
<1>7. Message(u.out) = u.out /\ u.out \in {<<>>, <<Pos(f.call.sid)>>}
  <2>1. u.out \in {<<>>, <<Pos(f.call.sid)>>}
    BY DEF uds_send_response, Outcome
  <2> QED
    BY <1>6, <2>1, MessageFacts
<1>8. o.ctx = u.ctx /\ o.msg = u.out
  BY <1>1, <1>7 DEF Effect, Composed
<1>9. Effect(thr[th].call, settled, now)' = o
  <2>1. Effect(thr[th].call, settled, now)' = Effect(g.call, settled', now')
    OBVIOUS
  <2> QED
    BY <1>1, <2>1
<1>10. Finished(ctx, thr[th], now)' = ctx'
  <2>1. Finished(ctx, thr[th], now)' = Finished(ctx', g, now')
    OBVIOUS
  <2> QED
    BY <1>1, <1>5, <2>1 DEF Finished
<1> HIDE DEF o, u
<1>11. Whole(thr[th])'
  BY <1>1, <1>3, <1>4, <1>5, <1>7, <1>8, <1>9, <1>10 DEF Whole
<1>12. Underway(thr[th])' /\ Inside(g)
  BY <1>1, <1>4, <1>11 DEF Underway, Inside
<1> QED
  BY <1>1, <1>12, DataMoves

\* The transport takes the message of the call that is inside.
LEMMA SendData ==
  ASSUME APP_LOCKS, TypeInv, MutexInv, DataInv, TypeInv', MutexInv', NEW th \in Thread,
         Send(th)
  PROVE  DataInv' /\ UNCHANGED <<settled, now, wire>>
<1> DEFINE f == thr[th]
           g == thr'[th]
           o == Effect(f.call, settled, now)
<1>1. /\ UNCHANGED <<ctx, now, jobs, tx_buffer, mutex, settled, wire>>
      /\ f.at = "send" /\ g.at = "after" /\ g.call = f.call /\ g.outer = f.outer
      /\ g.path = f.path /\ g.sent = tx_buffer
  BY SendMoves
<1>2. Underway(f)
  BY <1>1 DEF DataInv, Inside
<1>3. CASE f.outer = <<>>
  <2>1. tx_buffer = o.msg /\ Finished(ctx, f, now) = o.ctx
    BY <1>1, <1>2, <1>3 DEF Underway, Whole
  <2>2. Effect(thr[th].call, settled, now)' = o
    <3>1. Effect(thr[th].call, settled, now)' = Effect(g.call, settled', now')
      OBVIOUS
    <3> QED
      BY <1>1, <3>1
  <2>3. Finished(ctx, thr[th], now)' = Finished(ctx, f, now)
    <3>1. Finished(ctx, thr[th], now)' = Finished(ctx', g, now')
      OBVIOUS
    <3> QED
      BY <1>1, <3>1 DEF Finished
  <2> HIDE DEF o
  <2>4. Whole(thr[th])'
    BY <1>1, <2>1, <2>2, <2>3 DEF Whole
  <2> QED
    BY <1>1, <1>3, <2>4, DataMoves DEF Underway, Inside
<1>4. CASE f.outer # <<>>
  <2>1. InCallback(f)
    BY <1>2, <1>4 DEF Underway
  <2>2. InCallback(thr[th])'
    BY <1>1, <2>1 DEF InCallback
  <2>3. Underway(thr[th])' /\ Inside(g)
    BY <1>1, <1>4, <2>2 DEF Underway, Inside
  <2> QED
    BY <1>1, <2>3, DataMoves
<1> QED
  BY <1>3, <1>4

\* What follows the send completes the effect of the call.
LEMMA AfterData ==
  ASSUME APP_LOCKS, TypeInv, MutexInv, DataInv, TypeInv', MutexInv', NEW th \in Thread,
         After(th)
  PROVE  DataInv' /\ UNCHANGED <<settled, now, wire>>
<1> DEFINE f == thr[th]
           g == thr'[th]
           o == Effect(f.call, settled, now)
<1>1. /\ UNCHANGED <<now, jobs, mutex, settled, wire>>
      /\ f.at = "after" /\ g.at = "leave" /\ g.call = f.call /\ g.outer = f.outer
      /\ g.path = f.path /\ g.sent = f.sent /\ ctx' = Finished(ctx, f, now)
  BY AfterMoves
<1>2. Underway(f)
  BY <1>1 DEF DataInv, Inside
<1>3. CASE f.outer = <<>>
  <2>1. f.sent = o.msg /\ ctx' = o.ctx
    BY <1>1, <1>2, <1>3 DEF Underway, Whole
  <2>2. Effect(thr[th].call, settled, now)' = o
    <3>1. Effect(thr[th].call, settled, now)' = Effect(g.call, settled', now')
      OBVIOUS
    <3> QED
      BY <1>1, <3>1
  <2> HIDE DEF o
  <2>3. Whole(thr[th])'
    BY <1>1, <2>1, <2>2 DEF Whole
  <2>4. Underway(thr[th])' /\ Inside(g)
    BY <1>1, <1>3, <2>3 DEF Underway, Inside
  <2> QED
    BY <1>1, <2>4, DataMoves
<1>4. CASE f.outer # <<>>
  <2>1. InCallback(f)
    BY <1>2, <1>4 DEF Underway
  <2>2. f.path = "plain"
    BY <1>4, FrameOf DEF FrameInv
  <2>3. ctx' = ctx
    BY <1>1, <2>2 DEF Finished
  <2>4. InCallback(thr[th])'
    BY <1>1, <2>1, <2>3 DEF InCallback
  <2>5. Underway(thr[th])' /\ Inside(g)
    BY <1>1, <1>4, <2>4 DEF Underway, Inside
  <2> QED
    BY <1>1, <2>5, DataMoves
<1> QED
  BY <1>3, <1>4

\* A call returns: it was a call of the atomic specification, unless it returns
\* to the callback that made it.
LEMMA LeaveData ==
  ASSUME APP_LOCKS, TypeInv, MutexInv, DataInv, NEW th \in Thread, Leave(th)
  PROVE  DataInv' /\ [Atomic!AtomicNext]_<<settled, now, wire>>
<1> DEFINE f == thr[th]
           g == thr'[th]
<1>1. /\ TypeInv' /\ MutexInv' /\ Moves(th, g)
      /\ UNCHANGED <<ctx, now, jobs, tx_buffer>> /\ f.at = "leave"
  BY LeaveMoves
<1>2. Underway(f) /\ Inside(f)
  BY <1>1 DEF DataInv, Inside
<1>3. f \in Frame /\ FrameInv(f) /\ f.call \in AllCalls /\ settled \in Ctx /\ now \in Time
  BY FrameOf DEF TypeInv
<1>4. CASE f.outer = <<>>
  <2> DEFINE o == Effect(f.call, settled, now)
  <2>1. g = Idle /\ settled' = ctx /\ wire' = f.sent
    BY <1>4, LeaveMoves
  <2>2. ctx = o.ctx /\ f.sent = o.msg
    BY <1>1, <1>2, <1>4 DEF Underway, Whole
  <2>3. Atomic!AtomicNext
    BY <1>1, <1>3, <2>1, <2>2 DEF Atomic!AtomicNext, Atomic!Perform
  <2>4. \A x \in Thread : ~Inside(thr'[x])
    <3>1. ~Inside(Idle)
      BY IdleFrame DEF Inside
    <3>2. \A x \in Thread : Inside(thr[x]) => x = th
      BY <1>2, Alone
    <3> QED
      BY <1>1, <2>1, <3>1, <3>2, Moved
  <2>5. \A x \in Thread : Inside(thr[x])' <=> Inside(thr'[x])
    BY DEF Inside
  <2>6. DataInv'
    BY <1>1, <2>1, <2>4, <2>5 DEF DataInv
  <2> QED
    BY <2>3, <2>6
<1>5. CASE f.outer # <<>>
  <2>1. PICK call \in InputCalls : f.outer = <<call>>
    BY <1>3, <1>5 DEF FrameInv
  <2>2. f.outer[1] = call
    BY <2>1
  <2>3. /\ g.at = "clear" /\ g.call = call /\ g.outer = <<>> /\ g.sent = f.sent
        /\ settled' = settled /\ wire' = wire
    BY <1>5, <2>2, LeaveMoves
  <2> DEFINE c == [settled EXCEPT !.last_msg_time = now]
             o == Effect(call, settled, now)
             sid == call.a.chain
  <2>4. InCallback(f)
    BY <1>2, <1>5 DEF Underway
  <2>5. /\ call.r.len > 0 /\ ~settled.p2_msg_pending /\ IsResponse(settled, call.r)
        /\ settled.client_cb /\ f.call.sid = sid /\ sid # 0
        /\ ctx = uds_client_request(c, sid).ctx /\ f.sent = <<Asked(sid)>>
    BY <1>1, <2>2, <2>4 DEF InCallback
  <2>6. /\ o.ctx = [uds_client_request(c, sid).ctx EXCEPT !.client_cb = FALSE,
                                                          !.pending_sid = 0]
        /\ o.msg = <<Asked(sid)>>
    BY <1>3, <2>5, CallbackEffect
  <2>7. Effect(thr[th].call, settled, now)' = o
    <3>1. Effect(thr[th].call, settled, now)' = Effect(g.call, settled', now')
      OBVIOUS
    <3> QED
      BY <1>1, <2>3, <3>1
  <2>8. o.ctx = [ctx EXCEPT !.client_cb = FALSE, !.pending_sid = 0] /\ f.sent = o.msg
    BY <2>5, <2>6
  <2> HIDE DEF o
  <2>9. Whole(thr[th])'
    BY <1>1, <2>3, <2>7, <2>8 DEF Whole
  <2>10. Underway(thr[th])' /\ Inside(g)
    BY <2>3, <2>9 DEF Underway, Inside
  <2>11. DataInv'
    BY <1>1, <2>10, DataMoves
  <2> QED
    BY <1>1, <2>3, <2>11
<1> QED
  BY <1>4, <1>5

\* Time passes while nobody is inside.
LEMMA TickData ==
  ASSUME TypeInv, DataInv, ThreadTick
  PROVE  DataInv' /\ Atomic!AtomicNext
<1>1. /\ UNCHANGED <<ctx, jobs, tx_buffer, mutex, thr, settled>>
      /\ now' = (now + 1) % TIME_MOD /\ wire' = <<>> /\ ~Midway
  BY DEF ThreadTick
<1>2. \A th \in Thread : ~Inside(thr[th])
  <2>1. \A th \in Thread : thr[th].at = "idle" => thr[th].outer = <<>>
    BY FrameOf DEF FrameInv
  <2> QED
    BY <1>1, <2>1 DEF Midway, At, Inside
<1>3. \A th \in Thread : Inside(thr[th])' <=> Inside(thr[th])
  BY <1>1 DEF Inside
<1>4. DataInv'
  BY <1>1, <1>2, <1>3 DEF DataInv
<1> QED
  BY <1>1, <1>4 DEF Atomic!AtomicNext, Atomic!AtomicTick

\* Every step keeps the invariant and is a step of the atomic specification, or
\* none.
LEMMA DataStep ==
  ASSUME APP_LOCKS, TypeInv, MutexInv, DataInv, [ThreadNext]_vars
  PROVE  DataInv' /\ [Atomic!AtomicNext]_<<settled, now, wire>>
<1>1. TypeInv' /\ MutexInv'
  BY ThreadStep
<1>2. ASSUME DataInv', UNCHANGED <<settled, now, wire>>
      PROVE  DataInv' /\ [Atomic!AtomicNext]_<<settled, now, wire>>
  BY <1>2
<1>3. ASSUME NEW th \in Thread, NEW call \in Offered(th), Start(th, call)
      PROVE  DataInv' /\ [Atomic!AtomicNext]_<<settled, now, wire>>
  BY <1>2, <1>3, StartData
<1>4. ASSUME NEW th \in Thread, Acquire(th)
      PROVE  DataInv' /\ [Atomic!AtomicNext]_<<settled, now, wire>>
  BY <1>2, <1>4, AcquireData
<1>5. ASSUME NEW th \in Thread, Step(th)
      PROVE  DataInv' /\ [Atomic!AtomicNext]_<<settled, now, wire>>
  <2>1. CASE RunProcess(th)
    <3>1. Composes(th)
      BY <2>1, ProcessMoves
    <3>2. thr[th].outer = <<>>
      BY <2>1, FrameOf, CallKinds DEF RunProcess, Running, FrameInv
    <3> QED
      BY <1>1, <1>2, <3>1, <3>2, ComposeData
  <2>2. CASE RunInput(th)
    <3>1. Composes(th) /\ thr[th].outer = <<>>
      BY <2>2, InputMoves
    <3> QED
      BY <1>1, <1>2, <3>1, ComposeData
  <2>3. CASE RunClient(th)
    <3>1. Composes(th)
      BY <2>3, ClientMoves
    <3> QED
      BY <1>1, <1>2, <2>3, <3>1, ComposeData, NestedData
  <2>4. CASE RunCallback(th)
    BY <1>1, <1>2, <2>4, CallbackData
  <2>5. CASE RunRespond(th)
    BY <1>1, <1>2, <2>5, RespondData
  <2>6. CASE AnswerJob(th)
    BY <1>1, <1>2, <2>6, AnswerData
  <2>7. CASE Send(th)
    BY <1>1, <1>2, <2>7, SendData
  <2>8. CASE After(th)
    BY <1>1, <1>2, <2>8, AfterData
  <2>9. CASE Clear(th)
    BY <1>1, <1>2, <2>9, ClearData
  <2>10. CASE Leave(th)
    BY <2>10, LeaveData
  <2> QED
    BY <1>5, <2>1, <2>2, <2>3, <2>4, <2>5, <2>6, <2>7, <2>8, <2>9, <2>10 DEF Step
<1>6. CASE ThreadTick
  BY <1>6, TickData
<1>7. CASE UNCHANGED vars
  <2>1. UNCHANGED <<ctx, now, tx_buffer, thr, settled, wire>>
    BY <1>7 DEF vars
  <2>2. DataInv'
    BY <2>1 DEF DataInv, Inside, Underway, Whole, InCallback
  <2> QED
    BY <2>1, <2>2
<1> QED
  BY <1>3, <1>4, <1>5, <1>6, <1>7 DEF ThreadNext

\* In the beginning nobody is inside, and the context is as uds_init leaves it.
LEMMA DataStart ==
  ASSUME ThreadInit
  PROVE  DataInv /\ Atomic!AtomicInit
<1>1. \A th \in Thread : thr[th] = Idle
  BY DEF ThreadInit
<1>2. \A th \in Thread : ~Inside(thr[th])
  BY <1>1, IdleFrame DEF Inside
<1> QED
  BY <1>2 DEF DataInv, ThreadInit, Atomic!AtomicInit

\* If the application answers under the mutex, the calls of all threads take
\* effect one after the other, each of them whole, with the message that it
\* composed: docs/OSAL.md, for any deliveries and services, with or without a
\* mutex that its owner may take again, and with any limit of repetitions.
THEOREM CallsAreAtomic == APP_LOCKS => (ThreadSpec => AtomicCalls)
<1> SUFFICES ASSUME APP_LOCKS PROVE ThreadSpec => AtomicCalls
  OBVIOUS
<1>1. ThreadInit => DataInv /\ Atomic!AtomicInit
  BY DataStart
<1>2. TypeInv /\ MutexInv /\ DataInv /\ [ThreadNext]_vars =>
        DataInv' /\ [Atomic!AtomicNext]_<<settled, now, wire>>
  BY DataStep
<1> QED
  BY <1>1, <1>2, ThreadInvariance, PTL DEF ThreadSpec, AtomicCalls, Atomic!AtomicSpec

-----------------------------------------------------------------------------
(* Waits and the work they wait for *)

\* The application works on the request, or is about to answer it.
Owed(sid) ==
  \/ sid \in jobs
  \/ /\ thr["app"].at \in {"lock", "run", "answer"}
     /\ thr["app"].call.fn = "uds_send_response" /\ thr["app"].call.sid = sid

\* A request whose wait is still to be armed is owed an answer; a callback runs
\* only while the stack waits for nothing.
Promised(f) ==
  /\ f.path = "arm" /\ f.at \in {"send", "after"} => Owed(f.call.r.sid)
  /\ f.at = "clear" \/ f.outer # <<>> => ~ctx.p2_msg_pending

WaitOwed == ctx.p2_msg_pending /\ ~ctx.client_cb => Owed(ctx.pending_sid)

WorkerInv == WaitOwed /\ \A th \in Thread : Promised(thr[th])

\* A step that neither takes a job away nor sends an answer.
LEMMA OwedKept ==
  ASSUME TypeInv, NEW th \in Thread, Moves(th, thr'[th]), jobs \subseteq jobs',
         \/ thr[th].at \notin {"lock", "run", "answer"}
         \/ thr[th].call.fn # "uds_send_response"
         \/ thr'[th].at \in {"lock", "run", "answer"} /\ thr'[th].call = thr[th].call
  PROVE  \A sid : Owed(sid) => Owed(sid)'
<1>1. "app" \in Thread
  BY DEF Thread
<1>2. CASE th = "app"
  BY <1>2 DEF Owed
<1>3. CASE th # "app"
  <2>1. thr'["app"] = thr["app"]
    BY <1>1, <1>3, Moved
  <2> QED
    BY <2>1 DEF Owed
<1> QED
  BY <1>2, <1>3

\* A step of the thread inside.
LEMMA WorkerMoves ==
  ASSUME APP_LOCKS, TypeInv, MutexInv, NEW th \in Thread, Moves(th, thr'[th]),
         Inside(thr[th]), WaitOwed', Promised(thr[th])'
  PROVE  WorkerInv'
<1>1. ASSUME NEW x \in Thread, x # th
      PROVE  Promised(thr[x])'
  <2>1. ~Inside(thr[x]) /\ thr'[x] = thr[x]
    BY <1>1, Alone, Moved
  <2>2. thr'[x].at \notin {"send", "after", "clear"} /\ thr'[x].outer = <<>>
    BY <2>1 DEF Inside
  <2> QED
    BY <2>2 DEF Promised
<1> QED
  BY <1>1 DEF WorkerInv

\* A step of a thread outside.
LEMMA WorkerStays ==
  ASSUME TypeInv, WorkerInv, NEW th \in Thread, Moves(th, thr'[th]),
         thr'[th].at \notin {"send", "after", "clear"},
         thr'[th].outer # <<>> => thr[th].outer # <<>>,
         ctx' = ctx, \A sid : Owed(sid) => Owed(sid)'
  PROVE  WorkerInv'
<1>1. WaitOwed'
  <2>1. Owed(ctx.pending_sid) => Owed(ctx.pending_sid)'
    OBVIOUS
  <2> QED
    BY <2>1 DEF WorkerInv, WaitOwed
<1>2. Promised(thr[th])'
  BY DEF WorkerInv, Promised
<1>3. ASSUME NEW x \in Thread, x # th
      PROVE  Promised(thr[x])'
  <2>1. thr'[x] = thr[x]
    BY <1>3, Moved
  <2>2. Owed(thr[x].call.r.sid) => Owed(thr[x].call.r.sid)'
    BY <2>1 DEF Owed
  <2> QED
    BY <2>1, <2>2 DEF WorkerInv, Promised
<1> QED
  BY <1>1, <1>2, <1>3 DEF WorkerInv

\* The start of an answer takes the job over.
LEMMA StartWorker ==
  ASSUME APP_LOCKS, TypeInv, WorkerInv, NEW th \in Thread, NEW call \in Offered(th),
         Start(th, call)
  PROVE  WorkerInv'
<1> DEFINE f == thr[th]
           g == thr'[th]
<1>1. Locks(call)
  BY DEF Locks
<1>2. /\ Moves(th, g) /\ g.at = "lock" /\ g.call = call /\ f.at = "idle" /\ g.outer = <<>>
      /\ ctx' = ctx
      /\ jobs' = IF call.fn = "uds_send_response" THEN jobs \ {call.sid} ELSE jobs
      /\ call.fn = "uds_send_response" => th = "app"
  BY <1>1, StartMoves
<1>3. \A sid : Owed(sid) => Owed(sid)'
  <2>1. CASE call.fn = "uds_send_response"
    <3>1. /\ th = "app" /\ thr'["app"].at = "lock" /\ thr'["app"].call = call
          /\ thr["app"].at = "idle" /\ jobs' = jobs \ {call.sid}
      BY <1>2, <2>1
    <3> QED
      BY <2>1, <3>1 DEF Owed
  <2>2. CASE call.fn # "uds_send_response"
    <3>1. jobs' = jobs
      BY <1>2, <2>2
    <3> QED
      BY <1>2, <3>1, OwedKept
  <2> QED
    BY <2>1, <2>2
<1> QED
  BY <1>2, <1>3, WorkerStays

\* So does the lock before it.
LEMMA AcquireWorker ==
  ASSUME TypeInv, WorkerInv, NEW th \in Thread, Acquire(th)
  PROVE  WorkerInv'
<1> DEFINE f == thr[th]
           g == thr'[th]
<1>1. /\ Moves(th, g) /\ f.at = "lock" /\ UNCHANGED <<ctx, jobs>>
      /\ g.at = "run" /\ g.call = f.call /\ g.outer = f.outer
  <2> DEFINE x == [f EXCEPT !.at = "run"]
  <2>1. /\ Moves(th, x) /\ f.at = "lock" /\ UNCHANGED <<ctx, now, jobs, tx_buffer, settled, wire>>
        /\ x.at = "run" /\ x.call = f.call /\ x.outer = f.outer
    BY AcquireMoves
  <2> HIDE DEF x
  <2>2. g = x
    BY <2>1, Moved
  <2> QED
    BY <2>1, <2>2
<1>2. \A sid : Owed(sid) => Owed(sid)'
  BY <1>1, OwedKept
<1> QED
  BY <1>1, <1>2, WorkerStays

\* uds_process may repeat or end a wait.
LEMMA ProcessWorker ==
  ASSUME APP_LOCKS, TypeInv, MutexInv, WorkerInv, NEW th \in Thread, RunProcess(th)
  PROVE  WorkerInv'
<1> DEFINE f == thr[th]
           g == thr'[th]
<1>1. Moves(th, g) /\ Composes(th) /\ jobs' = jobs
  BY ProcessMoves
<1>2. f.call.fn = "uds_process" /\ f.at = "run"
  BY DEF RunProcess, Running, At
<1>3. f.outer = <<>>
  BY <1>2, FrameOf, CallKinds DEF FrameInv
<1>4. g.outer = <<>> /\ g.at \in {"send", "after"}
  BY <1>1, <1>3 DEF Composes
<1>5. /\ ctx'.p2_msg_pending => ctx.p2_msg_pending
      /\ ctx'.client_cb = ctx.client_cb /\ ctx'.pending_sid = ctx.pending_sid
      /\ g.path # "arm"
  BY ProcessWaits
<1>6. \A sid : Owed(sid) => Owed(sid)'
  BY <1>1, <1>2, OwedKept
<1>7. WaitOwed'
  <2>1. Owed(ctx.pending_sid) => Owed(ctx.pending_sid)'
    BY <1>5, <1>6 DEF Owed
  <2> QED
    BY <1>5, <2>1 DEF WorkerInv, WaitOwed
<1>8. Promised(thr[th])'
  BY <1>4, <1>5 DEF Promised
<1>9. Inside(f)
  BY <1>2 DEF Inside
<1> QED
  BY <1>1, <1>7, <1>8, <1>9, WorkerMoves

\* A request begins the work before the wait is armed.
LEMMA InputWorker ==
  ASSUME APP_LOCKS, TypeInv, MutexInv, WorkerInv, NEW th \in Thread, RunInput(th)
  PROVE  WorkerInv'
<1> DEFINE f == thr[th]
           g == thr'[th]
<1>1. /\ Moves(th, g) /\ Composes(th) /\ f.call \in InputCalls /\ f.outer = <<>>
      /\ \/ /\ g.path = "arm" /\ ~ctx'.p2_msg_pending
            /\ jobs' = jobs \cup {f.call.r.sid}
         \/ /\ g.path = "plain" /\ jobs' = jobs
            /\ ctx'.p2_msg_pending /\ ~ctx'.client_cb =>
                 /\ ctx.p2_msg_pending /\ ~ctx.client_cb
                 /\ ctx'.pending_sid = ctx.pending_sid
  BY InputMoves
<1>2. /\ f.at = "run" /\ g.outer = <<>> /\ g.at \in {"send", "after"} /\ g.call = f.call
      /\ Inside(f)
  BY <1>1 DEF Composes, Inside
<1>3. f.call.fn # "uds_send_response"
  BY <1>1, CallKinds
<1>4. jobs \subseteq jobs'
  BY <1>1
<1>5. \A sid : Owed(sid) => Owed(sid)'
  BY <1>1, <1>3, <1>4, OwedKept
<1>6. CASE g.path = "arm"
  <2>1. ~ctx'.p2_msg_pending /\ jobs' = jobs \cup {g.call.r.sid}
    BY <1>1, <1>2, <1>6
  <2>2. WaitOwed'
    BY <2>1 DEF WaitOwed
  <2>3. Promised(thr[th])'
    BY <1>2, <2>1 DEF Promised, Owed
  <2> QED
    BY <1>1, <1>2, <2>2, <2>3, WorkerMoves
<1>7. CASE g.path # "arm"
  <2>1. ctx'.p2_msg_pending /\ ~ctx'.client_cb =>
          /\ ctx.p2_msg_pending /\ ~ctx.client_cb /\ ctx'.pending_sid = ctx.pending_sid
    BY <1>1, <1>7
  <2>2. ctx'.pending_sid = ctx.pending_sid =>
          (Owed(ctx.pending_sid) => Owed(ctx.pending_sid)')
    BY <1>5 DEF Owed
  <2>3. WaitOwed'
    BY <2>1, <2>2 DEF WorkerInv, WaitOwed
  <2>4. Promised(thr[th])'
    BY <1>2, <1>7 DEF Promised
  <2> QED
    BY <1>1, <1>2, <2>3, <2>4, WorkerMoves
<1> QED
  BY <1>6, <1>7

\* A client request takes the pending SID over; from a callback it finds no wait.
LEMMA ClientWorker ==
  ASSUME APP_LOCKS, TypeInv, MutexInv, WorkerInv, NEW th \in Thread, RunClient(th)
  PROVE  WorkerInv'
<1> DEFINE f == thr[th]
           g == thr'[th]
<1>1. /\ Moves(th, g) /\ Composes(th) /\ g.path = "plain"
      /\ ctx'.client_cb /\ ctx'.p2_msg_pending = ctx.p2_msg_pending
  BY ClientMoves
<1>2. f.at = "run" /\ g.outer = f.outer /\ g.at \in {"send", "after"} /\ Inside(f)
  BY <1>1 DEF Composes, Inside
<1>3. WaitOwed'
  BY <1>1 DEF WaitOwed
<1>4. Promised(f)
  BY DEF WorkerInv
<1>5. Promised(thr[th])'
  BY <1>1, <1>2, <1>4 DEF Promised
<1> QED
  BY <1>1, <1>2, <1>3, <1>5, WorkerMoves

\* The callback runs, and ends, while the stack waits for nothing.
LEMMA CallbackWorker ==
  ASSUME APP_LOCKS, TypeInv, MutexInv, WorkerInv, NEW th \in Thread,
         RunCallback(th) \/ Clear(th)
  PROVE  WorkerInv'
<1> DEFINE f == thr[th]
           g == thr'[th]
<1>1. ctx \in Ctx
  BY DEF TypeInv
<1>2. /\ Moves(th, g) /\ Inside(f) /\ ~ctx.p2_msg_pending /\ g.at \in {"lock", "clear", "leave"}
      /\ ctx'.p2_msg_pending = ctx.p2_msg_pending
  <2>1. CASE RunCallback(th)
    <3>1. /\ Moves(th, g) /\ f.at = "run" /\ g.at \in {"lock", "clear"} /\ CallsBack(f.call)
          /\ ctx' = [ctx EXCEPT !.last_msg_time = now]
      BY <2>1, CallbackMoves
    <3>2. ctx'.p2_msg_pending = ctx.p2_msg_pending
      BY <1>1, <3>1 DEF Ctx
    <3> QED
      BY <3>1, <3>2 DEF CallsBack, Inside
  <2>2. CASE Clear(th)
    <3>1. /\ Moves(th, g) /\ f.at = "clear" /\ g.at = "leave"
          /\ ctx' = [ctx EXCEPT !.client_cb = FALSE, !.pending_sid = 0]
      BY <2>2, ClearMoves
    <3>2. ctx'.p2_msg_pending = ctx.p2_msg_pending
      BY <1>1, <3>1 DEF Ctx
    <3> QED
      BY <3>1, <3>2 DEF WorkerInv, Promised, Inside
  <2> QED
    BY <2>1, <2>2
<1>3. WaitOwed' /\ Promised(thr[th])'
  BY <1>2 DEF WaitOwed, Promised
<1> QED
  BY <1>2, <1>3, WorkerMoves

\* An answer that fits the buffer ends the wait.
LEMMA AnswerWorker ==
  ASSUME APP_LOCKS, TX_SIZE >= 2, TypeInv, MutexInv, WorkerInv, NEW th \in Thread,
         RunRespond(th) \/ AnswerJob(th)
  PROVE  WorkerInv'
<1> DEFINE f == thr[th]
           g == thr'[th]
<1>1. CASE RunRespond(th)
  <2>1. /\ Moves(th, g) /\ UNCHANGED <<ctx, jobs>>
        /\ f.at = "run" /\ g.at = "answer" /\ g.call = f.call /\ g.outer = f.outer
    BY <1>1, RespondMoves
  <2>2. \A sid : Owed(sid) => Owed(sid)'
    BY <2>1, OwedKept
  <2> QED
    BY <2>1, <2>2, WorkerStays
<1>2. CASE AnswerJob(th)
  <2> DEFINE o == uds_send_response(ctx, f.call.sid, 2)
  <2>1. /\ Moves(th, g) /\ f.at = "answer" /\ f.outer = <<>> /\ g.outer = f.outer
        /\ g.path = f.path /\ ctx' = o.ctx /\ g.at \in {"leave", "send"}
    BY <1>2, AnswerMoves
  <2>2. f.path = "plain"
    BY <2>1, FrameOf DEF FrameInv
  <2>3. ctx \in Ctx /\ TX_SIZE \in Nat
    BY ConfigAssumption DEF TypeInv
  <2>4. ~o.ctx.p2_msg_pending
    <3>1. ~(2 > TX_SIZE)
      BY <2>3
    <3> QED
      BY <2>3, <3>1 DEF uds_send_response, Outcome, Ctx
  <2> HIDE DEF o
  <2>5. WaitOwed' /\ Promised(thr[th])'
    BY <2>1, <2>2, <2>4 DEF WaitOwed, Promised
  <2>6. Inside(f)
    BY <2>1 DEF Inside
  <2> QED
    BY <2>1, <2>5, <2>6, WorkerMoves
<1> QED
  BY <1>1, <1>2

\* The wait is armed for the request whose work has begun.
LEMMA SendWorker ==
  ASSUME APP_LOCKS, TypeInv, MutexInv, WorkerInv, NEW th \in Thread, Send(th) \/ After(th)
  PROVE  WorkerInv'
<1> DEFINE f == thr[th]
           g == thr'[th]
<1>1. f \in Frame /\ FrameInv(f) /\ ctx \in Ctx /\ now \in Time /\ Promised(f) /\ WaitOwed
  BY FrameOf DEF TypeInv, WorkerInv
<1>2. CASE Send(th)
  <2>1. /\ Moves(th, g) /\ UNCHANGED <<ctx, jobs>> /\ f.at = "send" /\ g.at = "after"
        /\ g.call = f.call /\ g.outer = f.outer /\ g.path = f.path
    BY <1>2, SendMoves
  <2>2. \A sid : Owed(sid) => Owed(sid)'
    BY <2>1, OwedKept
  <2>3. WaitOwed'
    <3>1. Owed(ctx.pending_sid) => Owed(ctx.pending_sid)'
      BY <2>1, <2>2 DEF Owed
    <3> QED
      BY <1>1, <2>1, <3>1 DEF WaitOwed
  <2>4. Promised(thr[th])'
    <3>1. Owed(f.call.r.sid) => Owed(thr[th].call.r.sid)'
      BY <2>1, <2>2 DEF Owed
    <3> QED
      BY <1>1, <2>1, <3>1 DEF Promised
  <2>5. Inside(f)
    BY <2>1 DEF Inside
  <2> QED
    BY <2>1, <2>3, <2>4, <2>5, WorkerMoves
<1>3. CASE After(th)
  <2>1. /\ Moves(th, g) /\ jobs' = jobs /\ f.at = "after" /\ g.at = "leave"
        /\ g.call = f.call /\ g.outer = f.outer /\ g.path = f.path
        /\ ctx' = Finished(ctx, f, now)
    BY <1>3, AfterMoves
  <2>2. /\ ctx'.client_cb = ctx.client_cb
        /\ IF f.path = "arm" THEN ctx'.pending_sid = f.call.r.sid
           ELSE ctx'.pending_sid = ctx.pending_sid /\ ctx'.p2_msg_pending = ctx.p2_msg_pending
    BY <1>1, <2>1, FinishedFacts
  <2>3. \A sid : Owed(sid) => Owed(sid)'
    BY <2>1, OwedKept
  <2>4. WaitOwed'
    <3>1. CASE f.path = "arm"
      <4>1. Owed(f.call.r.sid)
        BY <1>1, <2>1, <3>1 DEF Promised
      <4>2. ctx'.pending_sid = f.call.r.sid
        BY <2>2, <3>1
      <4>3. Owed(ctx.pending_sid)'
        BY <2>3, <4>1, <4>2 DEF Owed
      <4> QED
        BY <4>3 DEF WaitOwed
    <3>2. CASE f.path # "arm"
      <4>1. ctx'.pending_sid = ctx.pending_sid /\ ctx'.p2_msg_pending = ctx.p2_msg_pending
        BY <2>2, <3>2
      <4>2. Owed(ctx.pending_sid) => Owed(ctx.pending_sid)'
        BY <2>3, <4>1 DEF Owed
      <4> QED
        BY <1>1, <2>2, <4>1, <4>2 DEF WaitOwed
    <3> QED
      BY <3>1, <3>2
  <2>5. Promised(thr[th])'
    <3>1. f.outer # <<>> => ~ctx'.p2_msg_pending
      BY <1>1, <2>2 DEF FrameInv, Promised
    <3> QED
      BY <2>1, <3>1 DEF Promised
  <2>6. Inside(f)
    BY <2>1 DEF Inside
  <2> QED
    BY <2>1, <2>4, <2>5, <2>6, WorkerMoves
<1> QED
  BY <1>2, <1>3

\* A call returns.
LEMMA LeaveWorker ==
  ASSUME APP_LOCKS, TypeInv, MutexInv, WorkerInv, NEW th \in Thread, Leave(th)
  PROVE  WorkerInv'
<1> DEFINE f == thr[th]
           g == thr'[th]
<1>1. Moves(th, g) /\ UNCHANGED <<ctx, jobs>> /\ f.at = "leave"
  BY LeaveMoves
<1>2. \A sid : Owed(sid) => Owed(sid)'
  BY <1>1, OwedKept
<1>3. WaitOwed'
  <2>1. Owed(ctx.pending_sid) => Owed(ctx.pending_sid)'
    BY <1>1, <1>2 DEF Owed
  <2> QED
    BY <1>1, <2>1 DEF WorkerInv, WaitOwed
<1>4. Promised(f) /\ Inside(f)
  BY <1>1 DEF WorkerInv, Inside
<1>5. CASE f.outer = <<>>
  <2>1. g.at = "idle" /\ g.outer = <<>>
    BY <1>5, LeaveMoves, IdleFrame
  <2>2. Promised(thr[th])'
    BY <2>1 DEF Promised
  <2> QED
    BY <1>1, <1>3, <1>4, <2>2, WorkerMoves
<1>6. CASE f.outer # <<>>
  <2>1. g.at = "clear" /\ g.outer = <<>>
    BY <1>6, LeaveMoves
  <2>2. Promised(thr[th])'
    BY <1>1, <1>4, <1>6, <2>1 DEF Promised
  <2> QED
    BY <1>1, <1>3, <1>4, <2>2, WorkerMoves
<1> QED
  BY <1>5, <1>6

\* Every step keeps what is owed.
LEMMA WorkerStep ==
  ASSUME APP_LOCKS, TX_SIZE >= 2, TypeInv, MutexInv, WorkerInv, [ThreadNext]_vars
  PROVE  WorkerInv'
<1>1. ASSUME NEW th \in Thread, NEW call \in Offered(th), Start(th, call)
      PROVE  WorkerInv'
  BY <1>1, StartWorker
<1>2. ASSUME NEW th \in Thread, Acquire(th)
      PROVE  WorkerInv'
  BY <1>2, AcquireWorker
<1>3. ASSUME NEW th \in Thread, Step(th)
      PROVE  WorkerInv'
  BY <1>3, ProcessWorker, InputWorker, ClientWorker, CallbackWorker, AnswerWorker,
     SendWorker, LeaveWorker DEF Step
<1>4. CASE ThreadTick \/ UNCHANGED vars
  <2>1. UNCHANGED <<ctx, jobs, thr>>
    BY <1>4 DEF ThreadTick, vars
  <2> QED
    BY <2>1 DEF WorkerInv, WaitOwed, Promised, Owed
<1> QED
  BY <1>1, <1>2, <1>3, <1>4 DEF ThreadNext

\* If the application answers under the mutex and the buffer holds an answer of
\* two bytes, the stack never waits for a job that nobody works on: no answer
\* gets in between the first 0x78 and the timer that execute_handler arms.
THEOREM WaitsHaveWorkers == APP_LOCKS /\ TX_SIZE >= 2 => (ThreadSpec => []WaitHasWorker)
<1> SUFFICES ASSUME APP_LOCKS, TX_SIZE >= 2 PROVE ThreadSpec => []WaitHasWorker
  OBVIOUS
<1>1. ThreadInit => WorkerInv
  <2> SUFFICES ASSUME ThreadInit PROVE WorkerInv
    OBVIOUS
  <2>1. ~ctx.p2_msg_pending
    BY DEF ThreadInit, uds_init, EmptyNvm
  <2>2. \A th \in Thread : thr[th].at = "idle"
    BY IdleFrame DEF ThreadInit
  <2> QED
    BY <2>1, <2>2 DEF WorkerInv, WaitOwed, Promised
<1>2. TypeInv /\ MutexInv /\ WorkerInv /\ [ThreadNext]_vars => WorkerInv'
  BY WorkerStep
<1>3. WorkerInv => WaitHasWorker
  BY DEF WorkerInv, WaitOwed, Owed, WaitHasWorker
<1> QED
  BY <1>1, <1>2, <1>3, ThreadInvariance, PTL DEF ThreadSpec
=============================================================================
