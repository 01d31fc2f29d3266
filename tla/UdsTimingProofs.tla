-------------------------- MODULE UdsTimingProofs --------------------------
(***************************************************************************)
(* Theorems about the clocks of UdsCore (S3, P2*, the security delay), the *)
(* number of repetitions, the answers and the client role.                 *)
(***************************************************************************)
EXTENDS UdsCoreProofs, WrapLemmas, WellFoundedInduction

-----------------------------------------------------------------------------
(* What each step does to the context and to the history *)

\* The fields of the history after a call.
LEMMA ObserveFields ==
  ASSUME NEW h \in HistType, NEW before, NEW c, NEW events
  PROVE  LET g == Observe(h, before, c, events)
             n == IF Sent78(events) THEN 1 ELSE 0
         IN  /\ g.idle = IF c.active_session = DEFAULT THEN 0 ELSE h.idle
             /\ g.quiet = IF Sent78(events) \/ ~c.p2_msg_pending THEN 0 ELSE h.quiet
             /\ g.n78 = IF ~c.p2_msg_pending THEN 0
                        ELSE IF ~before.p2_msg_pending THEN n
                        ELSE Capped(h.n78 + n, RCRRP_LIMIT + 2)
             /\ g.lock = IF HasSent(events, SECURITY_ACCESS, EXCEEDED_ATTEMPTS)
                         THEN SEC_DELAY ELSE h.lock
             /\ g.asked = AskedAfter(events, h.asked)
             /\ g.due = "none"
BY DEF Observe, HistType

\* A call has been recorded.
Recorded ==
  /\ now' = now
  /\ hist'.quiet = IF Sent78(out') \/ ~ctx'.p2_msg_pending THEN 0 ELSE hist.quiet
  /\ hist'.n78 = IF ~ctx'.p2_msg_pending THEN 0
                 ELSE IF ~ctx.p2_msg_pending THEN (IF Sent78(out') THEN 1 ELSE 0)
                 ELSE Capped(hist.n78 + (IF Sent78(out') THEN 1 ELSE 0), RCRRP_LIMIT + 2)
  /\ hist'.lock = IF HasSent(out', SECURITY_ACCESS, EXCEEDED_ATTEMPTS)
                  THEN SEC_DELAY ELSE hist.lock
  /\ hist'.asked = AskedAfter(out', hist.asked)

\* A message is delivered.
LEMMA InputFacts ==
  ASSUME IInv, NEW r \in Requests, NEW a \in Answers, InputSdu(r, a)
  PROVE  LET o == uds_input_sdu(ctx, per, r, a, now)
         IN  /\ r \in Request /\ a \in Answer /\ ctx' = o.ctx /\ out' = o.out
             /\ Timely(ctx, r, now, o) /\ LocksOut(ctx, a, now, o)
             /\ KeepsClient(ctx, r, a, o)
             /\ r.len # 0 /\ ~ctx.p2_msg_pending /\ ~IsResponse(ctx, r) =>
                  OneReply(r.sid, out')
             /\ Recorded /\ lag' = lag
             /\ hist'.idle = IF r.len # 0 \/ ctx'.active_session = DEFAULT THEN 0
                             ELSE hist.idle
             /\ hist'.sid = r.sid /\ hist'.due = DueFor(ctx, r)
<1> DEFINE o == uds_input_sdu(ctx, per, r, a, now)
           h == Observe(hist, ctx, o.ctx, o.out)
<1>1. r \in Request /\ a \in Answer
  BY EnvironmentAssumption
<1>2. ctx \in Ctx /\ now \in Time /\ hist \in HistType
  BY DEF IInv, TypeOK
<1>3. /\ Timely(ctx, r, now, o) /\ LocksOut(ctx, a, now, o) /\ KeepsClient(ctx, r, a, o)
      /\ r.len # 0 /\ ~ctx.p2_msg_pending /\ ~IsResponse(ctx, r) => OneReply(r.sid, o.out)
  BY <1>1, <1>2, InputInOrder
<1>4. o.ctx \in Ctx /\ o.out \in Seq(Event)
  BY <1>1, <1>2, SafeInput DEF Safe, OutcomeType
<1> DEFINE grant == IF KeyGranted(o.out, a)
                    THEN <<ctx.active_session, o.out[1].v>> ELSE h.grant
           wrong == IF KeyGranted(o.out, a) THEN 0
                    ELSE IF KeyCompared(o.out) THEN Capped(h.wrong + 1, MAX_ATTEMPTS)
                    ELSE h.wrong
           gap == [j \in Slot |-> IF per'.ids[j] = 0 \/ per'.ids[j] # per.ids[j]
                                  THEN 0 ELSE h.gap[j]]
           agreed == IF Agrees(r, a, o.out)
                     THEN <<o.ctx.active_session, o.ctx.security_level>> ELSE h.agreed
           g == [h EXCEPT !.idle = IF r.len = 0 THEN h.idle ELSE 0,
                          !.grant = grant, !.agreed = agreed, !.wrong = wrong,
                          !.sid = r.sid, !.due = DueFor(ctx, r), !.gap = gap]
<1>5. ctx' = o.ctx /\ out' = o.out /\ hist' = g /\ now' = now /\ lag' = lag
  BY DEF InputSdu
<1>6. h \in HistType
  BY <1>2, <1>4, ObserveType
<1>7. /\ h.idle = IF o.ctx.active_session = DEFAULT THEN 0 ELSE hist.idle
      /\ h.quiet = IF Sent78(o.out) \/ ~o.ctx.p2_msg_pending THEN 0 ELSE hist.quiet
      /\ h.n78 = IF ~o.ctx.p2_msg_pending THEN 0
                 ELSE IF ~ctx.p2_msg_pending THEN (IF Sent78(o.out) THEN 1 ELSE 0)
                 ELSE Capped(hist.n78 + (IF Sent78(o.out) THEN 1 ELSE 0), RCRRP_LIMIT + 2)
      /\ h.lock = IF HasSent(o.out, SECURITY_ACCESS, EXCEEDED_ATTEMPTS)
                  THEN SEC_DELAY ELSE hist.lock
      /\ h.asked = AskedAfter(o.out, hist.asked)
  BY <1>2, ObserveFields
<1> HIDE DEF o, h, grant, wrong, gap, agreed
<1>8. /\ g.idle = (IF r.len = 0 THEN h.idle ELSE 0) /\ g.quiet = h.quiet
      /\ g.n78 = h.n78 /\ g.lock = h.lock /\ g.asked = h.asked
      /\ g.sid = r.sid /\ g.due = DueFor(ctx, r)
  BY <1>6 DEF HistType
<1> HIDE DEF g
<1>9. Recorded
  BY <1>5, <1>7, <1>8 DEF Recorded
<1>10. hist'.idle = IF r.len # 0 \/ ctx'.active_session = DEFAULT THEN 0 ELSE hist.idle
  BY <1>5, <1>7, <1>8
<1> QED
  BY <1>1, <1>3, <1>5, <1>8, <1>9, <1>10 DEF o

\* The main loop runs.
LEMMA ProcessFacts ==
  ASSUME IInv, NEW has \in BOOLEAN, Process(has)
  PROVE  /\ ctx' = uds_process(ctx, now).ctx /\ out' = uds_process(ctx, now).out
         /\ Recorded /\ lag' = 0
         /\ hist'.idle = IF ctx'.active_session = DEFAULT THEN 0 ELSE hist.idle
         /\ hist'.due = "none"
<1> DEFINE o == uds_process(ctx, now)
           h == Observe(hist, ctx, o.ctx, o.out)
           gap == [j \in Slot |-> IF j \in Due(per, now) /\ ~SkipsScheduler(ctx, now)
                                  THEN 0 ELSE h.gap[j]]
           g == [h EXCEPT !.gap = gap]
<1>1. ctx \in Ctx /\ now \in Time /\ hist \in HistType
  BY DEF IInv, TypeOK
<1>2. ctx' = o.ctx /\ out' = o.out /\ hist' = g /\ now' = now /\ lag' = 0
  BY DEF Process
<1>3. o.ctx \in Ctx /\ o.out \in Seq(Event)
  BY <1>1, SafeProcess DEF Safe, OutcomeType
<1>4. h \in HistType
  BY <1>1, <1>3, ObserveType
<1>5. /\ h.idle = IF o.ctx.active_session = DEFAULT THEN 0 ELSE hist.idle
      /\ h.quiet = IF Sent78(o.out) \/ ~o.ctx.p2_msg_pending THEN 0 ELSE hist.quiet
      /\ h.n78 = IF ~o.ctx.p2_msg_pending THEN 0
                 ELSE IF ~ctx.p2_msg_pending THEN (IF Sent78(o.out) THEN 1 ELSE 0)
                 ELSE Capped(hist.n78 + (IF Sent78(o.out) THEN 1 ELSE 0), RCRRP_LIMIT + 2)
      /\ h.lock = IF HasSent(o.out, SECURITY_ACCESS, EXCEEDED_ATTEMPTS)
                  THEN SEC_DELAY ELSE hist.lock
      /\ h.asked = AskedAfter(o.out, hist.asked)
      /\ h.due = "none"
  BY <1>1, ObserveFields
<1> HIDE DEF o, h, gap
<1>6. /\ g.idle = h.idle /\ g.quiet = h.quiet /\ g.n78 = h.n78 /\ g.lock = h.lock
      /\ g.asked = h.asked /\ g.due = h.due
  BY <1>4 DEF HistType
<1> HIDE DEF g
<1>7. Recorded
  BY <1>2, <1>5, <1>6 DEF Recorded
<1> QED
  BY <1>2, <1>5, <1>6, <1>7 DEF o

\* A call of the application: all clocks stay as they are, and a wait that goes
\* on is the same.
Aside ==
  /\ Recorded /\ lag' = lag /\ hist'.due = "none"
  /\ hist'.idle = IF ctx'.active_session = DEFAULT THEN 0 ELSE hist.idle
  /\ ctx'.active_session = ctx.active_session
  /\ ctx'.last_msg_time = ctx.last_msg_time
  /\ ctx'.security_delay_end = ctx.security_delay_end
  /\ ctx'.p2_msg_pending =>
       /\ ctx.p2_msg_pending
       /\ ctx'.p2_timer_start = ctx.p2_timer_start
       /\ ctx'.p2_star_active = ctx.p2_star_active
       /\ ctx'.rcrrp_count = ctx.rcrrp_count
  /\ ~Sent78(out') /\ ~HasSent(out', SECURITY_ACCESS, EXCEEDED_ATTEMPTS)
  /\ ~KeyCompared(out')

\* An outcome recorded as the application's calls record it.
LEMMA AsideFacts ==
  ASSUME IInv, NEW o, NEW sid, Quiet(ctx, sid, o), ~Sent78(o.out),
         ~HasSent(o.out, SECURITY_ACCESS, EXCEEDED_ATTEMPTS),
         ctx' = o.ctx, out' = o.out, hist' = Observe(hist, ctx, o.ctx, o.out),
         now' = now, lag' = lag
  PROVE  /\ Aside /\ ctx'.client_cb = ctx.client_cb /\ ctx'.pending_sid = ctx.pending_sid
         /\ \A i \in DOMAIN out' : out'[i].k \notin {"req", "cb"}
<1>1. hist \in HistType
  BY DEF IInv, TypeOK
<1>2. /\ hist'.idle = IF ctx'.active_session = DEFAULT THEN 0 ELSE hist.idle
      /\ Recorded /\ hist'.due = "none"
  BY <1>1, ObserveFields DEF Recorded
<1> QED
  BY <1>2 DEF Aside, Quiet, Calm

\* The application answers.
LEMMA AnswerFacts ==
  ASSUME IInv, NEW sid \in jobs,
         AppReject(sid) \/ \E len \in {2, TX_SIZE + 1} : AppRespond(sid, len)
  PROVE  /\ Aside /\ ctx'.client_cb = ctx.client_cb /\ ctx'.pending_sid = ctx.pending_sid
         /\ \A i \in DOMAIN out' : out'[i].k \notin {"req", "cb"}
<1>1. ctx \in Ctx /\ sid \in Byte
  BY DEF IInv, TypeOK
<1>2. CASE AppReject(sid)
  <2> DEFINE o == uds_send_nrc(ctx, sid, CONDITIONS_NOT_CORRECT)
  <2>1. Quiet(ctx, sid, o)
    BY <1>1, QuietNrc, Codes
  <2>2. /\ CONDITIONS_NOT_CORRECT # RESPONSE_PENDING
        /\ CONDITIONS_NOT_CORRECT # EXCEEDED_ATTEMPTS
    BY DEF CONDITIONS_NOT_CORRECT, RESPONSE_PENDING, EXCEEDED_ATTEMPTS
  <2>3. ~HasSent(o.out, SECURITY_ACCESS, EXCEEDED_ATTEMPTS)
    BY <2>2, NrcSaid
  <2>4. ~Sent78(o.out)
    <3>1. o.out \in {<<>>, <<Neg(sid, CONDITIONS_NOT_CORRECT)>>}
      BY DEF uds_send_nrc, Outcome
    <3>2. Neg(sid, CONDITIONS_NOT_CORRECT).v = CONDITIONS_NOT_CORRECT
      BY DEF Neg
    <3> QED
      BY <2>2, <3>1, <3>2 DEF Sent78
  <2>5. /\ ctx' = o.ctx /\ out' = o.out /\ hist' = Observe(hist, ctx, o.ctx, o.out)
        /\ now' = now /\ lag' = lag
    BY <1>2 DEF AppReject
  <2> HIDE DEF o
  <2> QED
    BY <2>1, <2>3, <2>4, <2>5, AsideFacts
<1>3. ASSUME NEW len \in {2, TX_SIZE + 1}, AppRespond(sid, len)
      PROVE  /\ Aside /\ ctx'.client_cb = ctx.client_cb
             /\ ctx'.pending_sid = ctx.pending_sid
             /\ \A i \in DOMAIN out' : out'[i].k \notin {"req", "cb"}
  <2> DEFINE o == uds_send_response(ctx, sid, len)
  <2>1. Quiet(ctx, sid, o)
    BY <1>1, QuietResponse
  <2>2. ~HasSent(o.out, SECURITY_ACCESS, EXCEEDED_ATTEMPTS)
    BY ResponseSaid
  <2>3. ~Sent78(o.out)
    <3>1. o.out \in {<<>>, <<Pos(sid)>>}
      BY DEF uds_send_response, Outcome
    <3>2. Pos(sid).k = "pos"
      BY DEF Pos
    <3> QED
      BY <3>1, <3>2 DEF Sent78
  <2>4. /\ ctx' = o.ctx /\ out' = o.out /\ hist' = Observe(hist, ctx, o.ctx, o.out)
        /\ now' = now /\ lag' = lag
    BY <1>3 DEF AppRespond
  <2> HIDE DEF o
  <2> QED
    BY <2>1, <2>2, <2>3, <2>4, AsideFacts
<1> QED
  BY <1>2, <1>3

\* The application asks as a client.
LEMMA AskFacts ==
  ASSUME IInv, NEW sid \in ClientSids, ClientRequest(sid)
  PROVE  /\ Aside /\ sid # 0 /\ ctx'.client_cb /\ ctx'.pending_sid = sid
         /\ out' = <<Asked(sid)>>
<1> DEFINE d == [ctx EXCEPT !.pending_sid = sid, !.client_cb = TRUE]
<1>1. ctx \in Ctx /\ sid \in Byte /\ sid # 0 /\ hist \in HistType
  BY EnvironmentAssumption DEF IInv, TypeOK
<1>2. /\ d.active_session = ctx.active_session /\ d.last_msg_time = ctx.last_msg_time
      /\ d.security_delay_end = ctx.security_delay_end
      /\ d.p2_msg_pending = ctx.p2_msg_pending
      /\ d.p2_timer_start = ctx.p2_timer_start
      /\ d.p2_star_active = ctx.p2_star_active /\ d.rcrrp_count = ctx.rcrrp_count
      /\ d.client_cb /\ d.pending_sid = sid
  BY <1>1 DEF Ctx
<1>3. /\ ctx' = d /\ out' = <<Asked(sid)>> /\ hist' = Observe(hist, ctx, d, <<Asked(sid)>>)
      /\ now' = now /\ lag' = lag
  BY DEF ClientRequest, uds_client_request, Outcome
<1> HIDE DEF d
<1>4. Asked(sid).k = "req"
  BY DEF Asked
<1>5. /\ ~Sent78(<<Asked(sid)>>) /\ ~KeyCompared(<<Asked(sid)>>)
      /\ ~HasSent(<<Asked(sid)>>, SECURITY_ACCESS, EXCEEDED_ATTEMPTS)
  <2>1. \A s, n : Neg(s, n).k = "neg"
    BY DEF Neg
  <2> QED
    BY <1>4, <2>1 DEF Sent78, KeyCompared, HasSent
<1>6. /\ hist'.idle = IF ctx'.active_session = DEFAULT THEN 0 ELSE hist.idle
      /\ Recorded /\ hist'.due = "none"
  BY <1>1, <1>3, ObserveFields DEF Recorded
<1> QED
  BY <1>1, <1>2, <1>3, <1>5, <1>6 DEF Aside

\* A power cycle.
LEMMA RestartFacts ==
  ASSUME Restart
  PROVE  /\ now' \in BootTimes /\ lag' = 0 /\ out' = <<Boot>>
         /\ ctx'.last_msg_time = 0 /\ ~ctx'.p2_msg_pending /\ ~ctx'.client_cb
         /\ hist'.idle = 0 /\ hist'.n78 = 0 /\ hist'.lock = 0 /\ hist'.asked = 0
         /\ hist'.due = "none"
BY DEF Restart, uds_init, NoHistory

\* A tick.
LEMMA TickFacts ==
  ASSUME IInv, Tick
  PROVE  /\ ctx' = ctx /\ now' = (now + 1) % TIME_MOD /\ lag' = lag + 1 /\ lag < MAX_LAG
         /\ out' = <<>> /\ (WRAP \/ now + 1 + SEC_DELAY < TIME_MOD)
         /\ hist'.idle <= hist.idle + 1 /\ hist'.quiet <= hist.quiet + 1
         /\ hist'.lock = (IF hist.lock = 0 THEN 0 ELSE hist.lock - 1)
         /\ hist'.n78 = hist.n78 /\ hist'.asked = hist.asked /\ hist'.due = "none"
<1> DEFINE idle == IF ctx.active_session = DEFAULT THEN 0
                   ELSE Capped(hist.idle + 1, S3 + MAX_LAG + 1)
           quiet == IF ~ctx.p2_msg_pending THEN 0
                    ELSE Capped(hist.quiet + 1, P2STAR + MAX_LAG + 1)
           lock == IF hist.lock = 0 THEN 0 ELSE hist.lock - 1
           gap == [j \in Slot |-> IF per.ids[j] = 0 THEN 0
                                  ELSE Capped(hist.gap[j] + 1, MaxGap + 1)]
           g == [hist EXCEPT !.idle = idle, !.quiet = quiet, !.lock = lock,
                             !.sid = 0, !.due = "none", !.gap = gap]
<1>1. /\ ctx' = ctx /\ out' = <<>> /\ hist' = g /\ now' = (now + 1) % TIME_MOD
      /\ lag' = lag + 1 /\ lag < MAX_LAG /\ (WRAP \/ now + 1 + SEC_DELAY < TIME_MOD)
  BY DEF Tick
<1>2. hist \in HistType /\ hist.idle \in Nat /\ hist.quiet \in Nat
  BY DEF IInv, TypeOK, HistType
<1>3. idle <= hist.idle + 1 /\ quiet <= hist.quiet + 1
  BY <1>2, TimingAssumption, EnvironmentAssumption DEF Capped
<1> HIDE DEF idle, quiet, lock, gap
<1>4. /\ g.idle = idle /\ g.quiet = quiet /\ g.lock = lock /\ g.due = "none"
      /\ g.n78 = hist.n78 /\ g.asked = hist.asked
  BY <1>2 DEF HistType
<1> HIDE DEF g
<1> QED
  BY <1>1, <1>3, <1>4 DEF lock

-----------------------------------------------------------------------------
(* Sessions *)

\* S3 and a lap of the main loop fit in the clock, and the clock does not wrap
\* in the first lap after a boot: uds_init sets last_msg_time to 0, not to the
\* time of the boot.
S3Fits ==
  S3 + MAX_LAG < TIME_MOD /\ \A b \in BootTimes : b + MAX_LAG < TIME_MOD

\* Why a session ends in time: the tester has been silent for no longer than
\* last_msg_time shows, and that is at most S3 plus the lag of the main loop --
\* or the server has just booted and the main loop has not run yet.
S3Inv ==
  ctx.active_session # DEFAULT =>
    LET e == Elapsed(now, ctx.last_msg_time)
    IN  /\ hist.idle <= e
        /\ \/ e <= S3 + lag
           \/ hist.idle <= lag /\ e + (MAX_LAG - lag) < TIME_MOD

\* An elapsed time is a time, and grows with each tick until the clock comes
\* round.
LEMMA ElapsedFacts ==
  ASSUME NEW t \in Time, NEW s \in Time
  PROVE  /\ Elapsed(t, s) \in Time /\ Elapsed(t, s) \in Nat /\ Elapsed(t, t) = 0
         /\ Elapsed(t, 0) = t
         /\ Elapsed(t, s) # TIME_MOD - 1 =>
              Elapsed((t + 1) % TIME_MOD, s) = Elapsed(t, s) + 1
<1>1. TIME_MOD \in Nat \ {0} /\ t \in 0 .. TIME_MOD - 1 /\ s \in 0 .. TIME_MOD - 1
        /\ 0 \in 0 .. TIME_MOD - 1
  BY TimingAssumption DEF Time
<1>2. (t - s) % TIME_MOD \in 0 .. TIME_MOD - 1
  BY <1>1, WrapDifference
<1>3. (t - t) % TIME_MOD = 0 /\ (t - 0) % TIME_MOD = t
  BY <1>1, WrapDifference
<1>4. (((t + 1) % TIME_MOD) - s) % TIME_MOD =
        IF (t - s) % TIME_MOD = TIME_MOD - 1 THEN 0 ELSE ((t - s) % TIME_MOD) + 1
  BY <1>1, WrapElapsed
<1> QED
  BY <1>2, <1>3, <1>4 DEF Elapsed, Time

\* Every step keeps it.
LEMMA S3Step ==
  ASSUME S3Fits, IInv, S3Inv, [Next]_vars
  PROVE  S3Inv'
<1>1. ctx \in Ctx /\ now \in Time /\ lag \in 0 .. MAX_LAG /\ hist \in HistType
  BY DEF IInv, TypeOK
<1>2. ctx.last_msg_time \in Time /\ hist.idle \in Nat
  BY <1>1 DEF Ctx, HistType
<1>3. /\ S3 \in Nat /\ MAX_LAG \in Nat \ {0} /\ TIME_MOD \in Nat \ {0}
      /\ S3 + MAX_LAG < TIME_MOD
  BY TimingAssumption, EnvironmentAssumption DEF S3Fits
<1> DEFINE E == Elapsed(now, ctx.last_msg_time)
<1>4. E \in Nat
  BY <1>1, <1>2, ElapsedFacts
<1>5. ctx.active_session # DEFAULT =>
        /\ hist.idle <= E
        /\ E <= S3 + lag \/ (hist.idle <= lag /\ E + (MAX_LAG - lag) < TIME_MOD)
  BY DEF S3Inv
<1>6. ASSUME NEW r \in Requests, NEW a \in Answers, InputSdu(r, a)
      PROVE  S3Inv'
  <2> DEFINE o == uds_input_sdu(ctx, per, r, a, now)
  <2>1. /\ ctx' = o.ctx /\ Timely(ctx, r, now, o) /\ now' = now /\ lag' = lag
        /\ hist'.idle = IF r.len # 0 \/ ctx'.active_session = DEFAULT THEN 0
                        ELSE hist.idle
    BY <1>6, InputFacts DEF Recorded
  <2> HIDE DEF o
  <2>2. CASE r.len = 0
    <3>1. ctx' = ctx
      BY <2>1, <2>2 DEF Timely, Outcome
    <3> QED
      BY <1>5, <2>1, <2>2, <3>1 DEF S3Inv
  <2>3. CASE r.len # 0
    <3>1. Elapsed(now', ctx'.last_msg_time) = 0 /\ hist'.idle = 0
      BY <1>1, <2>1, <2>3, ElapsedFacts DEF Timely
    <3> QED
      BY <1>1, <1>3, <2>1, <3>1 DEF S3Inv
  <2> QED
    BY <2>2, <2>3
<1>7. ASSUME NEW has \in BOOLEAN, Process(has)
      PROVE  S3Inv'
  <2>1. /\ ctx'.last_msg_time = ctx.last_msg_time
        /\ ctx'.active_session = IF S3Expired(ctx, now) THEN DEFAULT ELSE ctx.active_session
        /\ now' = now /\ lag' = 0
        /\ hist'.idle = IF ctx'.active_session = DEFAULT THEN 0 ELSE hist.idle
    BY <1>1, <1>7, ProcessFacts, ProcessInOrder DEF Recorded
  <2>2. ctx'.active_session # DEFAULT => E <= S3
    BY <1>3, <1>4, <2>1 DEF S3Expired
  <2> HIDE DEF E
  <2>3. Elapsed(now', ctx'.last_msg_time) = E
    BY <2>1 DEF E
  <2>4. ctx'.active_session # DEFAULT => hist'.idle <= E
    BY <1>5, <2>1
  <2> QED
    BY <1>3, <1>4, <2>1, <2>2, <2>3, <2>4 DEF S3Inv
<1>8. ASSUME Aside PROVE S3Inv'
  <2>1. Elapsed(now', ctx'.last_msg_time) = E /\ lag' = lag
          /\ ctx'.active_session = ctx.active_session
          /\ (ctx'.active_session # DEFAULT => hist'.idle = hist.idle)
    BY <1>8 DEF Aside, Recorded
  <2> HIDE DEF E
  <2> QED
    BY <1>5, <2>1 DEF S3Inv
<1>9. ASSUME Restart PROVE S3Inv'
  <2>1. now' \in BootTimes /\ lag' = 0 /\ ctx'.last_msg_time = 0 /\ hist'.idle = 0
    BY <1>9, RestartFacts
  <2>2. now' \in Time /\ now' + MAX_LAG < TIME_MOD
    BY <2>1, EnvironmentAssumption DEF S3Fits
  <2>3. 0 \in Time
    BY <1>3 DEF Time
  <2>4. Elapsed(now', ctx'.last_msg_time) = now'
    BY <2>1, <2>2, <2>3, ElapsedFacts
  <2>5. now' \in Nat
    BY <2>2 DEF Time
  <2> QED
    BY <1>3, <2>1, <2>2, <2>4, <2>5 DEF S3Inv
<1>10. ASSUME Tick PROVE S3Inv'
  <2>1. /\ ctx' = ctx /\ now' = (now + 1) % TIME_MOD /\ lag' = lag + 1 /\ lag < MAX_LAG
        /\ hist'.idle <= hist.idle + 1
    BY <1>10, TickFacts
  <2>2. E # TIME_MOD - 1 => Elapsed(now', ctx'.last_msg_time) = E + 1
    BY <1>1, <1>2, <2>1, ElapsedFacts
  <2>3. hist'.idle \in Nat
    BY <1>10, TickKeeps DEF IInv, TypeOK, HistType
  <2> HIDE DEF E
  <2>4. CASE ctx.active_session # DEFAULT
    <3>1. E # TIME_MOD - 1
      BY <1>1, <1>3, <1>4, <1>5, <2>1, <2>4
    <3>2. hist'.idle <= E + 1
      BY <1>2, <1>4, <1>5, <2>1, <2>3, <2>4
    <3>3. \/ E + 1 <= S3 + lag'
          \/ hist'.idle <= lag' /\ (E + 1) + (MAX_LAG - lag') < TIME_MOD
      BY <1>1, <1>2, <1>3, <1>4, <1>5, <2>1, <2>3, <2>4
    <3> QED
      BY <2>2, <3>1, <3>2, <3>3 DEF S3Inv
  <2> QED
    BY <2>1, <2>4 DEF S3Inv
<1>11. CASE UNCHANGED vars
  BY <1>11 DEF vars, S3Inv
<1>12. CASE Next
  BY <1>6, <1>7, <1>8, <1>9, <1>10, <1>12, AnswerFacts, AskFacts DEF Next
<1> QED
  BY <1>11, <1>12

\* A non-default session outlives the tester's last message, or the boot that
\* restored it, by at most S3 plus the main loop's lag, at every phase of the
\* millisecond counter.
THEOREM SessionsExpire == S3Fits => (Spec => []SessionExpires)
<1> SUFFICES ASSUME S3Fits PROVE Spec => []SessionExpires
  OBVIOUS
<1>1. Init => S3Inv
  BY DEF Init, S3Inv, uds_init, EmptyNvm
<1>2. IInv /\ S3Inv /\ [Next]_vars => S3Inv'
  BY S3Step
<1>3. IInv /\ S3Inv => SessionExpires
  <2> SUFFICES ASSUME IInv, S3Inv, ctx.active_session # DEFAULT
               PROVE  hist.idle <= S3 + MAX_LAG
    BY DEF SessionExpires
  <2> DEFINE E == Elapsed(now, ctx.last_msg_time)
  <2>1. /\ E \in Nat /\ hist.idle \in Nat /\ lag \in 0 .. MAX_LAG
        /\ S3 \in Nat /\ MAX_LAG \in Nat
    BY ElapsedFacts, TimingAssumption, EnvironmentAssumption DEF IInv, TypeOK, Ctx, HistType
  <2>2. hist.idle <= E /\ (E <= S3 + lag \/ hist.idle <= lag)
    BY DEF S3Inv
  <2> HIDE DEF E
  <2> QED
    BY <2>1, <2>2
<1> QED
  BY <1>1, <1>2, <1>3, Invariance, PTL DEF Spec

-----------------------------------------------------------------------------
(* Asynchronous services *)

\* P2* is a period, it and a lap of the main loop fit in the clock, and the
\* transmit buffer holds a negative response.
P2Fits == P2STAR > 0 /\ P2STAR + MAX_LAG <= TIME_MOD /\ TX_SIZE >= 3

\* Why 0x78 comes in time: P2* is in force whenever the stack waits, the tester
\* has heard nothing for no longer than the timer shows, and the timer shows
\* less than P2* plus the lag.
WaitInv ==
  ctx.p2_msg_pending =>
    LET e == Elapsed(now, ctx.p2_timer_start)
    IN  ctx.p2_star_active /\ hist.quiet <= e /\ e <= P2STAR - 1 + lag

\* Every step keeps it.
LEMMA WaitStep ==
  ASSUME P2Fits, IInv, WaitInv, [Next]_vars
  PROVE  WaitInv'
<1>1. ctx \in Ctx /\ now \in Time /\ lag \in 0 .. MAX_LAG /\ hist \in HistType
  BY DEF IInv, TypeOK
<1>2. ctx.p2_timer_start \in Time /\ hist.quiet \in Nat
  BY <1>1 DEF Ctx, HistType
<1>3. /\ P2STAR \in Nat /\ P2STAR > 0 /\ MAX_LAG \in Nat \ {0} /\ TIME_MOD \in Nat \ {0}
      /\ P2STAR + MAX_LAG <= TIME_MOD /\ TX_SIZE >= 3
  BY TimingAssumption, EnvironmentAssumption DEF P2Fits
<1> DEFINE E == Elapsed(now, ctx.p2_timer_start)
<1>4. E \in Nat
  BY <1>1, <1>2, ElapsedFacts
<1>5. ctx.p2_msg_pending =>
        ctx.p2_star_active /\ hist.quiet <= E /\ E <= P2STAR - 1 + lag
  BY DEF WaitInv
<1>6. ASSUME ctx'.p2_timer_start = now', now' = now, lag' \in Nat, hist'.quiet = 0,
             ctx'.p2_star_active
      PROVE  WaitInv'
  <2>1. Elapsed(now', ctx'.p2_timer_start) = 0
    BY <1>1, <1>6, ElapsedFacts
  <2>2. 0 <= P2STAR - 1 + lag' /\ hist'.quiet <= 0
    <3>1. \A p, n \in Nat : p > 0 => 0 <= p - 1 + n
      OBVIOUS
    <3>2. P2STAR \in Nat /\ P2STAR > 0 /\ lag' \in Nat /\ hist'.quiet = 0
      BY <1>3, <1>6
    <3>3. 0 <= P2STAR - 1 + lag'
      BY <3>1, <3>2
    <3>4. hist'.quiet <= 0
      BY <3>2
    <3> QED
      BY <3>3, <3>4
  <2> QED
    BY <1>6, <2>1, <2>2 DEF WaitInv
<1>7. ASSUME ctx'.p2_timer_start = ctx.p2_timer_start, now' = now, lag' = lag,
             ctx'.p2_star_active = ctx.p2_star_active, ctx.p2_msg_pending,
             hist'.quiet \in {0, hist.quiet}
      PROVE  WaitInv'
  <2>1. Elapsed(now', ctx'.p2_timer_start) = E
    BY <1>7
  <2> HIDE DEF E
  <2> QED
    BY <1>4, <1>5, <1>7, <2>1 DEF WaitInv
<1>8. ASSUME NEW r \in Requests, NEW a \in Answers, InputSdu(r, a), ctx'.p2_msg_pending
      PROVE  WaitInv'
  <2> DEFINE o == uds_input_sdu(ctx, per, r, a, now)
  <2>1. /\ ctx' = o.ctx /\ out' = o.out /\ Timely(ctx, r, now, o) /\ now' = now /\ lag' = lag
        /\ hist'.quiet = IF Sent78(out') \/ ~ctx'.p2_msg_pending THEN 0 ELSE hist.quiet
    BY <1>8, InputFacts DEF Recorded
  <2> HIDE DEF o
  <2>2. CASE ctx.p2_msg_pending
    BY <1>7, <1>8, <2>1, <2>2 DEF Timely
  <2>3. CASE ~ctx.p2_msg_pending
    BY <1>1, <1>3, <1>6, <1>8, <2>1, <2>3 DEF Timely
  <2> QED
    BY <2>2, <2>3
<1>9. ASSUME NEW has \in BOOLEAN, Process(has), ctx'.p2_msg_pending
      PROVE  WaitInv'
  <2>1. /\ now' = now /\ lag' = 0 /\ ctx.p2_msg_pending
        /\ hist'.quiet = IF Sent78(out') \/ ~ctx'.p2_msg_pending THEN 0 ELSE hist.quiet
        /\ IF P2Expired(ctx, now)
           THEN Sent78(out') /\ ctx'.p2_timer_start = now /\ ctx'.p2_star_active
           ELSE /\ ~Sent78(out') /\ ctx'.p2_timer_start = ctx.p2_timer_start
                /\ ctx'.p2_star_active = ctx.p2_star_active
    BY <1>1, <1>3, <1>9, ProcessFacts, ProcessInOrder DEF Recorded
  <2>2. CASE P2Expired(ctx, now)
    BY <1>6, <2>1, <2>2
  <2>3. CASE ~P2Expired(ctx, now)
    <3>1. E < P2STAR
      BY <1>3, <1>4, <1>5, <2>1, <2>3 DEF P2Expired
    <3>2. /\ Elapsed(now', ctx'.p2_timer_start) = E /\ ctx'.p2_star_active
          /\ hist'.quiet = hist.quiet
      BY <1>5, <1>9, <2>1, <2>3
    <3> HIDE DEF E
    <3> QED
      BY <1>3, <1>4, <1>5, <2>1, <3>1, <3>2 DEF WaitInv
  <2> QED
    BY <2>2, <2>3
<1>10. ASSUME Aside, ctx'.p2_msg_pending PROVE WaitInv'
  BY <1>7, <1>10 DEF Aside, Recorded
<1>11. ASSUME Tick, ctx'.p2_msg_pending PROVE WaitInv'
  <2>1. /\ ctx' = ctx /\ now' = (now + 1) % TIME_MOD /\ lag' = lag + 1 /\ lag < MAX_LAG
        /\ hist'.quiet <= hist.quiet + 1
    BY <1>11, TickFacts
  <2>2. E # TIME_MOD - 1 => Elapsed(now', ctx'.p2_timer_start) = E + 1
    BY <1>1, <1>2, <2>1, ElapsedFacts
  <2>3. hist'.quiet \in Nat
    BY <1>11, TickKeeps DEF IInv, TypeOK, HistType
  <2> HIDE DEF E
  <2>4. E # TIME_MOD - 1 /\ hist'.quiet <= E + 1 /\ E + 1 <= P2STAR - 1 + lag'
    BY <1>1, <1>2, <1>3, <1>4, <1>5, <1>11, <2>1, <2>3
  <2> QED
    BY <1>5, <1>11, <2>1, <2>2, <2>4 DEF WaitInv
<1>12. ASSUME ~ctx'.p2_msg_pending PROVE WaitInv'
  BY <1>12 DEF WaitInv
<1>13. CASE UNCHANGED vars
  BY <1>13 DEF vars, WaitInv
<1>14. CASE Next
  BY <1>8, <1>9, <1>10, <1>11, <1>12, <1>14, AnswerFacts, AskFacts, RestartFacts DEF Next
<1> QED
  BY <1>13, <1>14

\* A tester that waits for an asynchronous service hears 0x78 within P2* plus
\* the main loop's lag, at every phase of the millisecond counter, whatever
\* else arrives or is sent in the meantime.
THEOREM WaitingIsHeard == P2Fits => (Spec => []P2StarKept)
<1> SUFFICES ASSUME P2Fits PROVE Spec => []P2StarKept
  OBVIOUS
<1>1. Init => WaitInv
  BY DEF Init, WaitInv, uds_init
<1>2. IInv /\ WaitInv /\ [Next]_vars => WaitInv'
  BY WaitStep
<1>3. IInv /\ WaitInv => P2StarKept
  <2> SUFFICES ASSUME IInv, WaitInv, ctx.p2_msg_pending
               PROVE  hist.quiet < P2STAR + MAX_LAG
    BY DEF P2StarKept
  <2> DEFINE E == Elapsed(now, ctx.p2_timer_start)
  <2>1. /\ E \in Nat /\ hist.quiet \in Nat /\ lag \in 0 .. MAX_LAG
        /\ P2STAR \in Nat /\ MAX_LAG \in Nat
    BY ElapsedFacts, TimingAssumption, EnvironmentAssumption DEF IInv, TypeOK, Ctx, HistType
  <2>2. hist.quiet <= E /\ E <= P2STAR - 1 + lag
    BY DEF WaitInv
  <2> HIDE DEF E
  <2> QED
    BY <2>1, <2>2
<1> QED
  BY <1>1, <1>2, <1>3, Invariance, PTL DEF Spec

\* Why the repetitions are bounded: rcrrp_count has counted all but the first
\* 0x78 of the wait that is on, and never exceeds the limit.
CountInv ==
  IF ctx.p2_msg_pending
  THEN hist.n78 <= ctx.rcrrp_count + 1 /\ ctx.rcrrp_count <= RCRRP_LIMIT
  ELSE hist.n78 = 0

\* Every step keeps it, where there is a limit.
LEMMA CountStep ==
  ASSUME RCRRP_LIMIT > 0, TX_SIZE >= 3, IInv, CountInv, [Next]_vars
  PROVE  CountInv'
<1>1. /\ ctx \in Ctx /\ now \in Time /\ hist.n78 \in Nat /\ ctx.rcrrp_count \in Nat
      /\ RCRRP_LIMIT \in Nat /\ RCRRP_LIMIT < RCRRP_MOD /\ RCRRP_MOD \in Nat \ {0}
  BY TimingAssumption, RangeAssumption DEF IInv, TypeOK, Ctx, HistType
<1>2. ASSUME Recorded, ~ctx'.p2_msg_pending PROVE CountInv'
  BY <1>2 DEF Recorded, CountInv
<1>3. ASSUME Recorded, ctx'.p2_msg_pending, ctx.p2_msg_pending, ~Sent78(out'),
             ctx'.rcrrp_count = ctx.rcrrp_count
      PROVE  CountInv'
  BY <1>1, <1>3 DEF Recorded, CountInv, Capped
<1>4. ASSUME Recorded, ctx'.p2_msg_pending, ~ctx.p2_msg_pending, ctx'.rcrrp_count = 0
      PROVE  CountInv'
  BY <1>1, <1>4 DEF Recorded, CountInv
<1>5. ASSUME NEW r \in Requests, NEW a \in Answers, InputSdu(r, a)
      PROVE  CountInv'
  <2> DEFINE o == uds_input_sdu(ctx, per, r, a, now)
  <2>1. ctx' = o.ctx /\ out' = o.out /\ Timely(ctx, r, now, o) /\ Recorded
    BY <1>5, InputFacts
  <2> HIDE DEF o
  <2> QED
    BY <1>2, <1>3, <1>4, <2>1 DEF Timely
<1>6. ASSUME NEW has \in BOOLEAN, Process(has)
      PROVE  CountInv'
  <2>1. /\ Recorded
        /\ ctx'.p2_msg_pending => ctx.p2_msg_pending
        /\ ctx'.p2_msg_pending =>
             IF P2Expired(ctx, now)
             THEN ~RcrrpExhausted(ctx) /\ ctx'.rcrrp_count = (ctx.rcrrp_count + 1) % RCRRP_MOD
             ELSE ~Sent78(out') /\ ctx'.rcrrp_count = ctx.rcrrp_count
    BY <1>1, <1>6, ProcessFacts, ProcessInOrder
  <2>2. CASE ctx'.p2_msg_pending /\ P2Expired(ctx, now)
    <3>1. ctx.rcrrp_count < RCRRP_LIMIT
      BY <1>1, <2>1, <2>2 DEF RcrrpExhausted
    <3>2. ctx'.rcrrp_count = ctx.rcrrp_count + 1
      <4>1. ctx.rcrrp_count + 1 \in 0 .. RCRRP_MOD - 1
        BY <1>1, <3>1
      <4> QED
        BY <1>1, <2>1, <2>2, <4>1, WrapSmall
    <3>3. hist.n78 <= ctx.rcrrp_count + 1 /\ ctx.p2_msg_pending
      BY <2>1, <2>2 DEF CountInv
    <3>4. hist'.n78 \in {hist.n78, hist.n78 + 1, RCRRP_LIMIT + 2}
            /\ hist'.n78 <= hist.n78 + 1
      BY <1>1, <2>1, <2>2, <3>3 DEF Recorded, Capped
    <3> QED
      BY <1>1, <2>2, <3>1, <3>2, <3>3, <3>4 DEF CountInv
  <2> QED
    BY <1>2, <1>3, <2>1, <2>2
<1>7. ASSUME Aside PROVE CountInv'
  BY <1>2, <1>3, <1>7 DEF Aside
<1>8. ASSUME Restart PROVE CountInv'
  BY <1>8, RestartFacts DEF CountInv
<1>9. ASSUME Tick PROVE CountInv'
  BY <1>9, TickFacts DEF CountInv
<1>10. CASE UNCHANGED vars
  BY <1>10 DEF vars, CountInv
<1>11. CASE Next
  BY <1>5, <1>6, <1>7, <1>8, <1>9, <1>11, AnswerFacts, AskFacts DEF Next
<1> QED
  BY <1>10, <1>11

\* A pending request is answered with at most rcrrp_limit repetitions of 0x78
\* after the first, whatever arrives in between, and although rcrrp_count is a
\* uint16_t that every accepted request resets.
THEOREM RepetitionsBounded == TX_SIZE >= 3 => (Spec => []RcrrpBounded)
<1> SUFFICES ASSUME TX_SIZE >= 3 PROVE Spec => []RcrrpBounded
  OBVIOUS
<1> DEFINE Inv == RCRRP_LIMIT > 0 => CountInv
<1>1. Init => Inv
  BY DEF Init, CountInv, uds_init, NoHistory
<1>2. IInv /\ Inv /\ [Next]_vars => Inv'
  BY CountStep
<1>3. IInv /\ Inv => RcrrpBounded
  <2>1. IInv => ctx.rcrrp_count \in Nat /\ hist.n78 \in Nat
    BY TimingAssumption DEF IInv, TypeOK, Ctx, HistType
  <2> QED
    BY <2>1, TimingAssumption DEF CountInv, RcrrpBounded
<1> HIDE DEF Inv
<1> QED
  BY <1>1, <1>2, <1>3, Invariance, PTL DEF Spec

\* A message for another service that arrives during a wait changes nothing but
\* the time of the last message, and is answered with 0x21 or not at all.
THEOREM BusyKeepsWait == Spec => BusyLeavesJobAlone
<1> DEFINE Step ==
      \A r \in Requests, a \in Answers :
        ctx.p2_msg_pending /\ r.sid # ctx.pending_sid /\ InputSdu(r, a) =>
          /\ ctx' = [ctx EXCEPT !.last_msg_time = ctx'.last_msg_time]
          /\ \A i \in DOMAIN out' : out'[i] = Neg(r.sid, BUSY_REPEAT_REQUEST)
<1>1. IInv => Step
  <2> SUFFICES ASSUME IInv, NEW r \in Requests, NEW a \in Answers, ctx.p2_msg_pending,
                      r.sid # ctx.pending_sid, InputSdu(r, a)
               PROVE  /\ ctx' = [ctx EXCEPT !.last_msg_time = ctx'.last_msg_time]
                      /\ \A i \in DOMAIN out' : out'[i] = Neg(r.sid, BUSY_REPEAT_REQUEST)
    OBVIOUS
  <2> DEFINE o == uds_input_sdu(ctx, per, r, a, now)
             d == [ctx EXCEPT !.last_msg_time = now]
  <2>1. ctx \in Ctx /\ now \in Time /\ r \in Request /\ a \in Answer
    BY EnvironmentAssumption DEF IInv, TypeOK
  <2>2. ctx' = o.ctx /\ out' = o.out
    BY DEF InputSdu
  <2>3. (r.len = 0 /\ o = Outcome(ctx, <<>>)) \/ Refused(ctx, r, now, o)
    BY <2>1, InputCases
  <2> HIDE DEF o
  <2>4. d.last_msg_time = now /\ d.p2_msg_pending = TRUE /\ d.pending_sid = ctx.pending_sid
          /\ d \in Ctx
    BY <2>1 DEF Ctx
  <2>5. uds_send_nrc(d, r.sid, BUSY_REPEAT_REQUEST).ctx = d
    <3>1. [d EXCEPT !.p2_msg_pending = TRUE] = d
      BY <2>4 DEF Ctx
    <3> HIDE DEF d
    <3>2. uds_send_nrc(d, r.sid, BUSY_REPEAT_REQUEST).ctx \in
            {d, [d EXCEPT !.p2_msg_pending =
                   d.p2_msg_pending
                   /\ ~(BUSY_REPEAT_REQUEST # RESPONSE_PENDING /\ r.sid = d.pending_sid)]}
      BY DEF uds_send_nrc, Outcome
    <3>3. (d.p2_msg_pending
            /\ ~(BUSY_REPEAT_REQUEST # RESPONSE_PENDING /\ r.sid = d.pending_sid)) = TRUE
      BY <2>4
    <3> QED
      BY <3>1, <3>2, <3>3
  <2>6. ctx = [ctx EXCEPT !.last_msg_time = ctx.last_msg_time]
    BY <2>1 DEF Ctx
  <2>7. CASE r.len = 0 /\ o = Outcome(ctx, <<>>)
    BY <2>2, <2>6, <2>7 DEF Outcome
  <2>8. CASE Refused(ctx, r, now, o)
    <3>1. o.ctx = d
      BY <2>5, <2>8 DEF Refused
    <3>2. ctx' = d /\ ctx'.last_msg_time = now
      BY <2>2, <2>4, <3>1
    <3> QED
      BY <2>2, <2>8, <3>2 DEF Refused
  <2> QED
    BY <2>3, <2>7, <2>8
<1>2. IInv => [Step]_vars
  BY <1>1
<1> QED
  BY <1>2, Invariance, PTL DEF BusyLeavesJobAlone

-----------------------------------------------------------------------------
(* The security delay *)

\* No callback returns NRC 0x36 of its own accord: the stack passes it on
\* without starting a delay.
OwnDelays == \A a \in Answers : NrcOf(a.res) # EXCEEDED_ATTEMPTS

\* A delay that a step announces ends before the clock wraps: security_delay_end
\* is an absolute time, so one that begins in the last security_delay_ms before
\* the wrap is cut short.
EndsBeforeWrap ==
  HasSent(out', SECURITY_ACCESS, EXCEEDED_ATTEMPTS) => now + SEC_DELAY < TIME_MOD

\* Why the delay is kept: what is left of it lies before security_delay_end.
LockInv ==
  hist.lock > 0 =>
    ctx.security_delay_end # 0 /\ now + hist.lock <= ctx.security_delay_end

\* While the delay runs the handler of 0x27 sees it.
LEMMA LockSeen ==
  ASSUME IInv, LockInv
  PROVE  hist.lock = 0 \/ Delayed(ctx, now)
<1>1. hist.lock \in Nat /\ now \in Nat /\ ctx.security_delay_end \in Nat
  BY DEF IInv, TypeOK, HistType, Ctx, Time
<1> QED
  BY <1>1 DEF LockInv, Delayed

\* A call of uds_process compares no key and sends no 0x36.
LEMMA ProcessSaysNoLock ==
  ASSUME IInv, NEW has \in BOOLEAN, Process(has)
  PROVE  /\ ~KeyCompared(out') /\ ~HasSent(out', SECURITY_ACCESS, EXCEEDED_ATTEMPTS)
         /\ \A i \in DOMAIN out' : out'[i].k \notin {"req", "cb"}
<1>1. ctx \in Ctx /\ now \in Time
  BY DEF IInv, TypeOK
<1>2. \A i \in DOMAIN out' : \E nrc \in {CONDITIONS_NOT_CORRECT, RESPONSE_PENDING} :
        out'[i] = Neg(ctx.pending_sid, nrc)
  BY <1>1, ProcessFacts, ProcessInOrder
<1>3. \A s, n : Neg(s, n).k = "neg" /\ Neg(s, n).v = n
  BY DEF Neg
<1>4. \A i \in DOMAIN out' : out'[i].k = "neg" /\ out'[i].v # EXCEEDED_ATTEMPTS
  BY <1>2, <1>3 DEF CONDITIONS_NOT_CORRECT, RESPONSE_PENDING, EXCEEDED_ATTEMPTS
<1>5. ~HasSent(out', SECURITY_ACCESS, EXCEEDED_ATTEMPTS)
  BY <1>3, <1>4 DEF HasSent
<1>6. out' = uds_process(ctx, now).out /\ out' \in Seq(Event)
  BY <1>1, ProcessFacts, SafeProcess DEF Safe, OutcomeType
<1>7. out' # <<>> => 1 \in DOMAIN out'
  BY <1>6
<1> QED
  BY <1>4, <1>5, <1>7 DEF KeyCompared

\* Every step keeps it, and compares a key only when no delay runs.
LEMMA LockStep ==
  ASSUME OwnDelays, EndsBeforeWrap, IInv, LockInv, [Next]_vars
  PROVE  LockInv' /\ (UNCHANGED vars \/ (KeyCompared(out') => hist.lock = 0))
<1>1. /\ hist.lock \in Nat /\ now \in Nat /\ now \in Time
      /\ ctx.security_delay_end \in Nat /\ SEC_DELAY \in Nat
      /\ TIME_MOD \in Nat \ {0} /\ ctx.security_delay_end < TIME_MOD
  <2>1. ctx \in Ctx /\ hist \in HistType /\ now \in Time
    BY DEF IInv, TypeOK
  <2>2. hist.lock \in Nat
    BY <2>1 DEF HistType
  <2>3. ctx.security_delay_end \in Time
    BY <2>1 DEF Ctx
  <2> QED
    BY <2>1, <2>2, <2>3, TimingAssumption DEF Time
<1>2. ASSUME now' = now, hist'.lock = hist.lock,
             ctx'.security_delay_end = ctx.security_delay_end
      PROVE  LockInv'
  BY <1>2 DEF LockInv
<1>3. ASSUME NEW r \in Requests, NEW a \in Answers, InputSdu(r, a)
      PROVE  LockInv' /\ (KeyCompared(out') => hist.lock = 0)
  <2> DEFINE o == uds_input_sdu(ctx, per, r, a, now)
  <2>1. ctx' = o.ctx /\ out' = o.out /\ LocksOut(ctx, a, now, o) /\ Recorded
    BY <1>3, InputFacts
  <2> HIDE DEF o
  <2>2. KeyCompared(out') => hist.lock = 0
    BY <2>1, LockSeen DEF LocksOut
  <2>3. now' = now
    BY <2>1 DEF Recorded
  <2>4. CASE HasSent(out', SECURITY_ACCESS, EXCEEDED_ATTEMPTS)
    <3>1. ctx'.security_delay_end = (now + SEC_DELAY) % TIME_MOD
      BY <2>1, <2>4 DEF LocksOut, OwnDelays
    <3>2. now + SEC_DELAY \in 0 .. TIME_MOD - 1
      BY <1>1, <2>4 DEF EndsBeforeWrap
    <3>3. ctx'.security_delay_end = now + SEC_DELAY
      BY <1>1, <3>1, <3>2, WrapSmall
    <3>4. hist'.lock = SEC_DELAY
      BY <2>1, <2>4 DEF Recorded
    <3> QED
      BY <1>1, <2>2, <2>3, <3>3, <3>4 DEF LockInv
  <2>5. CASE ~HasSent(out', SECURITY_ACCESS, EXCEEDED_ATTEMPTS)
    <3>1. hist'.lock = hist.lock
      BY <2>1, <2>5 DEF Recorded
    <3>2. hist.lock = 0 \/ ctx'.security_delay_end = ctx.security_delay_end
      BY <2>1, LockSeen DEF LocksOut
    <3> QED
      BY <1>1, <1>2, <2>2, <2>3, <3>1, <3>2 DEF LockInv
  <2> QED
    BY <2>4, <2>5
<1>4. ASSUME NEW has \in BOOLEAN, Process(has)
      PROVE  LockInv' /\ ~KeyCompared(out')
  <2>1. ctx \in Ctx
    BY DEF IInv, TypeOK
  <2>2. /\ ctx'.security_delay_end = ctx.security_delay_end
        /\ now' = now /\ hist'.lock = hist.lock /\ ~KeyCompared(out')
    BY <1>1, <1>4, <2>1, ProcessFacts, ProcessInOrder, ProcessSaysNoLock DEF Recorded
  <2> QED
    BY <1>2, <2>2
<1>5. ASSUME Aside PROVE LockInv' /\ ~KeyCompared(out')
  BY <1>2, <1>5 DEF Aside, Recorded
<1>6. ASSUME Restart PROVE LockInv' /\ ~KeyCompared(out')
  <2>1. now' \in BootTimes /\ hist'.lock = 0 /\ out' = <<Boot>>
    BY <1>6, RestartFacts
  <2>2. ~KeyCompared(out')
    BY <2>1 DEF KeyCompared, Boot
  <2> QED
    BY <2>1, <2>2 DEF LockInv
<1>7. ASSUME Tick PROVE LockInv' /\ ~KeyCompared(out')
  <2>1. /\ ctx' = ctx /\ now' = (now + 1) % TIME_MOD /\ out' = <<>>
        /\ hist'.lock = (IF hist.lock = 0 THEN 0 ELSE hist.lock - 1)
    BY <1>7, TickFacts
  <2>2. ~KeyCompared(out')
    BY <2>1 DEF KeyCompared
  <2>3. CASE hist.lock = 0
    BY <2>1, <2>2, <2>3 DEF LockInv
  <2>4. CASE hist.lock > 0
    <3>1. now + 1 \in 0 .. TIME_MOD - 1
      BY <1>1, <2>4 DEF LockInv
    <3>2. now' = now + 1
      BY <1>1, <2>1, <3>1, WrapSmall
    <3> QED
      BY <1>1, <2>1, <2>2, <2>4, <3>2 DEF LockInv
  <2> QED
    BY <1>1, <2>3, <2>4
<1>8. CASE UNCHANGED vars
  BY <1>8 DEF vars, LockInv
<1>9. CASE Next
  BY <1>3, <1>4, <1>5, <1>6, <1>7, <1>9, AnswerFacts, AskFacts DEF Next
<1> QED
  BY <1>8, <1>9

\* No sequence of requests, session changes and time makes the stack compare a
\* key while the delay it announced with NRC 0x36 runs, for any delay, limit of
\* attempts and services, as long as no delay begins right before the wrap.
THEOREM DelayIsKept ==
  OwnDelays => (Spec /\ [][EndsBeforeWrap]_vars => LockoutHonoured)
<1> SUFFICES ASSUME OwnDelays
             PROVE  Spec /\ [][EndsBeforeWrap]_vars => LockoutHonoured
  OBVIOUS
<1>1. Init => LockInv
  BY DEF Init, LockInv, NoHistory
<1>2. IInv /\ LockInv /\ [Next]_vars /\ [EndsBeforeWrap]_vars =>
        LockInv' /\ [KeyCompared(out') => hist.lock = 0]_vars
  <2> SUFFICES ASSUME IInv, LockInv, [Next]_vars, [EndsBeforeWrap]_vars
               PROVE  LockInv' /\ [KeyCompared(out') => hist.lock = 0]_vars
    OBVIOUS
  <2>1. CASE UNCHANGED vars
    BY <2>1 DEF vars, LockInv
  <2>2. CASE EndsBeforeWrap
    BY <2>2, LockStep
  <2> QED
    BY <2>1, <2>2
<1> QED
  BY <1>1, <1>2, Invariance, PTL DEF Spec, LockoutHonoured

-----------------------------------------------------------------------------
(* Wrong keys *)

\* How a call counts keys: one that was compared and refused adds one to
\* security_attempts, with NRC 0x36 from the limit on; nothing else touches it
\* but a key that is accepted.
Tallies(c, a, o) ==
  /\ ~KeyCompared(o.out) => o.ctx.security_attempts = c.security_attempts
  /\ KeyCompared(o.out) /\ a.res # 0 =>
       /\ o.ctx.security_attempts = (c.security_attempts + 1) % ATTEMPTS_MOD
       /\ TX_SIZE >= 3 /\ o.ctx.security_attempts >= MAX_ATTEMPTS =>
            HasSent(o.out, SECURITY_ACCESS, EXCEEDED_ATTEMPTS)

\* A quiet answer counts nothing.
LEMMA TallyQuiet ==
  ASSUME NEW c, NEW d, NEW a, NEW sid, NEW o, Quiet(d, sid, o),
         d.security_attempts = c.security_attempts
  PROVE  Tallies(c, a, o)
BY DEF Tallies, Quiet, Calm

\* The key is compared before anything is said.
LEMMA TallyKey ==
  ASSUME NEW o \in OutcomeType, NEW v \in Byte, v # 0
  PROVE  LET q == Prepend(Call(SECURITY_ACCESS, v), o)
         IN  /\ KeyCompared(q.out) /\ q.ctx = o.ctx
             /\ \A n : HasSent(o.out, SECURITY_ACCESS, n) => HasSent(q.out, SECURITY_ACCESS, n)
<1> DEFINE call == Call(SECURITY_ACCESS, v)
           q == Prepend(call, o)
<1>1. call \in Event /\ call.k = "call" /\ call.sid = SECURITY_ACCESS /\ call.v = v
  BY Codes DEF Call, Event, EventKinds
<1> HIDE DEF call
<1>2. q.ctx = o.ctx /\ q.out = <<call>> \o o.out /\ o.out \in Seq(Event)
  BY DEF Prepend, OutcomeType
<1>3. \A j \in DOMAIN o.out : \E i \in DOMAIN q.out : q.out[i] = o.out[j]
  BY <1>1, PrependOutcome
<1>4. q.out # <<>> /\ q.out[1] = call
  BY <1>1, <1>2
<1> HIDE DEF q
<1>5. KeyCompared(q.out)
  BY <1>1, <1>4 DEF KeyCompared
<1>6. \A n : HasSent(o.out, SECURITY_ACCESS, n) => HasSent(q.out, SECURITY_ACCESS, n)
  BY <1>3 DEF HasSent
<1> QED
  BY <1>2, <1>5, <1>6 DEF q, call

\* 0x27 counts the keys it has compared.
LEMMA TallySendKey ==
  ASSUME NEW c \in Ctx, NEW r \in Request, NEW a \in Answer, NEW t \in Time, Sub(r) \div 2 # 0
  PROVE  Tallies(c, a, SendKey(c, r, a, t))
<1> DEFINE v == Sub(r) \div 2
           q == SendKey(c, r, a, t)
<1>1. v \in Byte /\ v # 0
  <2>1. v \in 0 .. 63 /\ v # 0
    BY SubRange
  <2> HIDE DEF v
  <2> QED
    BY <2>1 DEF Byte
<1>2. CASE "fn_security_key" \notin Callbacks
  <2>1. Quiet(c, SECURITY_ACCESS, q)
    BY <1>2, QuietNrc, Codes DEF SendKey
  <2> QED
    BY <2>1, TallyQuiet
<1>3. CASE "fn_security_key" \in Callbacks /\ a.res = 0
  <2> DEFINE o == KeyAccepted(c, r)
  <2>1. q = Prepend(Call(SECURITY_ACCESS, v), o)
    BY <1>3 DEF SendKey
  <2>2. o \in OutcomeType
    <3> DEFINE d == [c EXCEPT !.security_attempts = 0, !.security_level = v]
               x == uds_send_response(d, SECURITY_ACCESS, 2)
               ev == Save(d.active_session, d.security_level)
    <3>1. o \in {x, Prepend(ev, x)}
      BY DEF KeyAccepted
    <3>2. v \in 0 .. 63
      BY SubRange
    <3> HIDE DEF v
    <3>3. 0 \in 0 .. ATTEMPTS_MOD - 1
      BY TimingAssumption
    <3>4. d \in Ctx
      BY <3>2, <3>3 DEF Ctx
    <3> HIDE DEF d
    <3>5. x \in OutcomeType
      BY <3>4, QuietResponse, Codes DEF Quiet, Calm
    <3>6. ev \in Event
      <4>1. d.active_session \in Byte /\ d.security_level \in Byte
        BY <3>4 DEF Ctx, Sessions, Byte
      <4> QED
        BY <4>1 DEF Save, Event, EventKinds
    <3> HIDE DEF x, ev
    <3>7. Prepend(ev, x) \in OutcomeType
      BY <3>5, <3>6, PrependOutcome
    <3> QED
      BY <3>1, <3>5, <3>7
  <2> HIDE DEF o, q
  <2>3. KeyCompared(q.out)
    BY <1>1, <2>1, <2>2, TallyKey
  <2> QED
    BY <1>3, <2>3 DEF Tallies, q
<1>4. CASE "fn_security_key" \in Callbacks /\ a.res # 0
  <2> DEFINE n == (c.security_attempts + 1) % ATTEMPTS_MOD
             d == [c EXCEPT !.security_attempts = n]
             end == (t + SEC_DELAY) % TIME_MOD
             e == [d EXCEPT !.security_delay_end = end]
             nrc == IF a.res < 0 THEN NrcOf(a.res) ELSE INVALID_KEY
             o == KeyRejected(c, r, a, t)
  <2>1. n \in 0 .. ATTEMPTS_MOD - 1 /\ end \in Time
    BY TimingAssumption DEF Ctx, Time
  <2>2. o = IF n >= MAX_ATTEMPTS
            THEN uds_send_nrc(e, SECURITY_ACCESS, EXCEEDED_ATTEMPTS)
            ELSE uds_send_nrc(d, SECURITY_ACCESS, nrc)
    BY DEF KeyRejected
  <2>3. q = Prepend(Call(SECURITY_ACCESS, v), o)
    BY <1>4 DEF SendKey
  <2>4. nrc \in Byte
    <3>1. NrcOf(a.res) \in Byte
      BY NrcOfByte DEF Answer
    <3> QED
      BY <3>1, Codes
  <2> HIDE DEF n, end, nrc
  <2>5. d \in Ctx /\ d.security_attempts = n
    BY <2>1 DEF Ctx
  <2> HIDE DEF d
  <2>6. e \in Ctx /\ e.security_attempts = n
    BY <2>1, <2>5 DEF Ctx
  <2> HIDE DEF e
  <2>7. /\ o \in OutcomeType /\ o.ctx.security_attempts = n
        /\ TX_SIZE >= 3 /\ n >= MAX_ATTEMPTS => HasSent(o.out, SECURITY_ACCESS, EXCEEDED_ATTEMPTS)
    <3>1. CASE n >= MAX_ATTEMPTS
      <4>1. o = uds_send_nrc(e, SECURITY_ACCESS, EXCEEDED_ATTEMPTS)
        BY <2>2, <3>1
      <4>2. Quiet(e, SECURITY_ACCESS, o)
        BY <2>6, <4>1, QuietNrc, Codes
      <4>3. TX_SIZE >= 3 => o.out = <<Neg(SECURITY_ACCESS, EXCEEDED_ATTEMPTS)>>
        BY <4>1, ConfigAssumption DEF uds_send_nrc, Outcome
      <4>4. TX_SIZE >= 3 => HasSent(o.out, SECURITY_ACCESS, EXCEEDED_ATTEMPTS)
        BY <4>3 DEF HasSent
      <4> QED
        BY <2>6, <4>2, <4>4 DEF Quiet, Calm
    <3>2. CASE ~(n >= MAX_ATTEMPTS)
      <4>1. o = uds_send_nrc(d, SECURITY_ACCESS, nrc)
        BY <2>2, <3>2
      <4>2. Quiet(d, SECURITY_ACCESS, o)
        BY <2>4, <2>5, <4>1, QuietNrc, Codes
      <4> QED
        BY <2>5, <3>2, <4>2 DEF Quiet, Calm
    <3> QED
      BY <3>1, <3>2
  <2> HIDE DEF o, q
  <2>8. /\ KeyCompared(q.out) /\ q.ctx = o.ctx
        /\ HasSent(o.out, SECURITY_ACCESS, EXCEEDED_ATTEMPTS) =>
             HasSent(q.out, SECURITY_ACCESS, EXCEEDED_ATTEMPTS)
    BY <1>1, <2>3, <2>7, TallyKey
  <2>9. Tallies(c, a, q)
    BY <2>7, <2>8 DEF Tallies, n
  <2> QED
    BY <2>9 DEF q
<1> QED
  BY <1>2, <1>3, <1>4

\* 0x27 as a whole.
LEMMA TallySecurityAccess ==
  ASSUME NEW c \in Ctx, NEW r \in Request, NEW a \in Answer, NEW t \in Time, Sub(r) # 0
  PROVE  Tallies(c, a, handle_security_access(c, r, a, t))
<1> DEFINE d == [c EXCEPT !.security_delay_end = 0]
           o == handle_security_access(c, r, a, t)
<1>1. d \in Ctx /\ d.security_attempts = c.security_attempts
  BY TimingAssumption DEF Ctx, Time
<1>2. Sub(r) % 2 = 0 => Sub(r) \div 2 # 0
  BY SubRange
<1>3. \/ \E n \in {INCORRECT_LENGTH, REQUIRED_TIME_DELAY} : o = uds_send_nrc(c, SECURITY_ACCESS, n)
      \/ o = RequestSeed(d, r, a)
      \/ Sub(r) % 2 = 0 /\ o = SendKey(d, r, a, t)
  BY DEF handle_security_access
<1> HIDE DEF d, o
<1>4. \A n \in Byte : Quiet(c, SECURITY_ACCESS, uds_send_nrc(c, SECURITY_ACCESS, n))
  BY QuietNrc, Codes
<1>5. Quiet(d, SECURITY_ACCESS, RequestSeed(d, r, a))
  <2>1. NrcOf(a.res) \in Byte
    BY NrcOfByte DEF Answer
  <2> QED
    BY <1>1, <2>1, QuietNrc, QuietResponse, Codes DEF RequestSeed
<1>6. CASE \E n \in {INCORRECT_LENGTH, REQUIRED_TIME_DELAY} :
             o = uds_send_nrc(c, SECURITY_ACCESS, n)
  <2>1. Quiet(c, SECURITY_ACCESS, o)
    BY <1>4, <1>6, Codes
  <2> QED
    BY <2>1, TallyQuiet DEF o
<1>7. CASE o = RequestSeed(d, r, a)
  <2>1. Tallies(c, a, RequestSeed(d, r, a))
    BY <1>1, <1>5, TallyQuiet
  <2> QED
    BY <1>7, <2>1 DEF o
<1>8. CASE Sub(r) % 2 = 0 /\ o = SendKey(d, r, a, t)
  <2>1. Tallies(d, a, o)
    BY <1>1, <1>2, <1>8, TallySendKey
  <2> QED
    BY <1>1, <2>1 DEF Tallies, o
<1> QED
  BY <1>3, <1>6, <1>7, <1>8

\* 0x10 and a wait that begins count nothing.
LEMMA TallyOthers ==
  ASSUME NEW c \in Ctx, NEW r \in Request, NEW a \in Answer, NEW t \in Time
  PROVE  /\ Tallies(c, a, handle_session_control(c, r, a, t))
         /\ Tallies(c, a, AwaitApplication(c, r, t, <<Call(r.sid, 0)>>))
<1>1. Tallies(c, a, handle_session_control(c, r, a, t))
  <2> DEFINE s == Sub(r)
             l == IF c.active_session # s \/ s = DEFAULT THEN 0 ELSE c.security_level
             d == [c EXCEPT !.security_level = l, !.active_session = s]
             o == uds_send_response(d, SESSION_CONTROL, 6)
             ev == Save(d.active_session, d.security_level)
  <2>1. CASE s \notin Sessions
    <3>1. Quiet(c, SESSION_CONTROL, handle_session_control(c, r, a, t))
      BY <2>1, QuietNrc, Codes DEF handle_session_control
    <3> QED
      BY <3>1, TallyQuiet
  <2>2. CASE s \in Sessions
    <3>1. handle_session_control(c, r, a, t) \in {o, Postpone(o, ev)}
      BY <2>2 DEF handle_session_control
    <3>2. l \in 0 .. 63
      BY DEF Ctx
    <3> HIDE DEF l, s
    <3>3. d \in Ctx /\ d.security_attempts = c.security_attempts
      BY <2>2, <3>2 DEF Ctx
    <3> HIDE DEF d
    <3>4. Quiet(d, SESSION_CONTROL, o)
      BY <3>3, QuietResponse, Codes
    <3>5. o \in OutcomeType /\ o.out \in Seq(Event) /\ ~KeyCompared(o.out)
      BY <3>4 DEF Quiet, Calm, OutcomeType
    <3>6. ev.k = "save"
      BY DEF Save
    <3> HIDE DEF o, ev
    <3>7. Postpone(o, ev).out = Append(o.out, ev) /\ Postpone(o, ev).ctx = o.ctx
      BY <3>5 DEF Postpone, OutcomeType
    <3>8. ~KeyCompared(Append(o.out, ev))
      <4>1. CASE o.out = <<>>
        BY <3>6, <4>1 DEF KeyCompared
      <4>2. CASE o.out # <<>>
        <5>1. Append(o.out, ev)[1] = o.out[1]
          BY <3>5, <4>2
        <5> QED
          BY <3>5, <4>2, <5>1 DEF KeyCompared
      <4> QED
        BY <4>1, <4>2
    <3>9. Tallies(c, a, o)
      BY <3>3, <3>4, TallyQuiet
    <3>10. Tallies(c, a, Postpone(o, ev))
      BY <3>5, <3>7, <3>8, <3>9 DEF Tallies
    <3> QED
      BY <3>1, <3>9, <3>10
  <2> QED
    BY <2>1, <2>2
<1>2. Tallies(c, a, AwaitApplication(c, r, t, <<Call(r.sid, 0)>>))
  <2> DEFINE o == uds_send_nrc(c, r.sid, RESPONSE_PENDING)
             call == Call(r.sid, 0)
             d == [o.ctx EXCEPT !.p2_msg_pending = TRUE, !.p2_star_active = TRUE,
                                !.p2_timer_start = t, !.pending_sid = r.sid]
             w == [ctx |-> d, out |-> <<call>> \o o.out, ret |-> "pending"]
  <2>1. r.sid \in Byte
    BY DEF Request
  <2>2. Quiet(c, r.sid, o)
    BY <2>1, QuietNrc, Codes
  <2>3. o.ctx \in Ctx /\ o.out \in Seq(Event) /\ o.ctx.security_attempts = c.security_attempts
    BY <2>2 DEF Quiet, Calm, OutcomeType
  <2>4. AwaitApplication(c, r, t, <<call>>) = w
    BY DEF AwaitApplication
  <2> HIDE DEF o
  <2>5. d.security_attempts = c.security_attempts
    BY <2>3 DEF Ctx
  <2> HIDE DEF d
  <2>6. call.v = 0
    BY DEF Call
  <2> HIDE DEF call
  <2>7. w.out[1] = call
    BY <2>3
  <2>8. ~KeyCompared(w.out) /\ w.ctx.security_attempts = c.security_attempts
    BY <2>5, <2>6, <2>7 DEF KeyCompared
  <2> HIDE DEF w
  <2> QED
    BY <2>4, <2>8 DEF Tallies, call
<1> QED
  BY <1>1, <1>2

\* Every delivered message counts the keys in it.
LEMMA TallyInput ==
  ASSUME NEW c \in Ctx, NEW p, NEW r \in Request, NEW a \in Answer, NEW t \in Time
  PROVE  Tallies(c, a, uds_input_sdu(c, p, r, a, t))
<1> DEFINE d == [c EXCEPT !.last_msg_time = t]
           e == [d EXCEPT !.p2_timer_start = t, !.p2_msg_pending = FALSE,
                          !.p2_star_active = FALSE, !.rcrrp_count = 0]
           h == handle_request(e, p, r, a, t)
           b == client_response(d, r, a)
           n == uds_send_nrc(d, r.sid, BUSY_REPEAT_REQUEST)
<1>1. d \in Ctx /\ d.security_attempts = c.security_attempts
  BY DEF Ctx
<1>2. e \in Ctx /\ e.security_attempts = c.security_attempts
  <2>1. 0 \in 0 .. RCRRP_MOD - 1
    BY TimingAssumption
  <2> HIDE DEF d
  <2> QED
    BY <1>1, <2>1 DEF Ctx
<1>3. uds_input_sdu(c, p, r, a, t) =
        IF r.len = 0 THEN Outcome(c, <<>>)
        ELSE IF c.p2_msg_pending
        THEN IF IsSilentTesterPresent(r) THEN Outcome(d, <<>>) ELSE n
        ELSE IF IsResponse(c, r) THEN b
        ELSE h
  BY DEF uds_input_sdu
<1>4. d.p2_msg_pending = c.p2_msg_pending
  BY DEF Ctx
<1> HIDE DEF d, e
<1>5. Tallies(c, a, Outcome(c, <<>>)) /\ Tallies(c, a, Outcome(d, <<>>))
  BY <1>1, NothingSaid DEF Outcome, Tallies
<1>6. Tallies(c, a, n)
  <2>1. r.sid \in Byte
    BY DEF Request
  <2>2. Quiet(d, r.sid, n)
    BY <1>1, <2>1, QuietNrc, Codes
  <2> HIDE DEF n
  <2> QED
    BY <1>1, <2>2, TallyQuiet
<1>7. ~c.p2_msg_pending => Tallies(c, a, b)
  <2>1. ~c.p2_msg_pending => ~KeyCompared(b.out)
    BY <1>1, <1>4, ClientCalledBack DEF CalledBack
  <2>2. b.ctx.security_attempts = d.security_attempts
    <3>1. b.ctx \in {[d EXCEPT !.pending_sid = 0],
                     [d EXCEPT !.client_cb = FALSE, !.pending_sid = 0],
                     [[d EXCEPT !.pending_sid = a.chain, !.client_cb = TRUE]
                        EXCEPT !.client_cb = FALSE, !.pending_sid = 0]}
      BY DEF client_response, uds_client_request, Outcome
    <3> HIDE DEF b
    <3> QED
      BY <1>1, <3>1 DEF Ctx
  <2> QED
    BY <1>1, <2>1, <2>2 DEF Tallies
<1>8. Tallies(c, a, h)
  <2>1. RequestCase(e, r, a, t, h)
    BY <1>2, RequestCases
  <2> HIDE DEF h
  <2>2. CASE Quiet(e, r.sid, h)
    BY <1>2, <2>2, TallyQuiet
  <2>3. ASSUME NEW f \in Ctx, Alike(e, f),
               \/ h = handle_session_control(f, r, a, t)
               \/ Sub(r) # 0 /\ h = handle_security_access(f, r, a, t)
               \/ h = AwaitApplication(f, r, t, <<Call(r.sid, 0)>>)
        PROVE  Tallies(c, a, h)
    <3>1. f.security_attempts = c.security_attempts
      BY <1>2, <2>3 DEF Alike
    <3>2. Tallies(f, a, h)
      BY <2>3, TallyOthers, TallySecurityAccess
    <3> QED
      BY <3>1, <3>2 DEF Tallies
  <2> QED
    BY <2>1, <2>2, <2>3 DEF RequestCase
<1> HIDE DEF h, b, n
<1> QED
  BY <1>3, <1>5, <1>6, <1>7, <1>8

\* A step that compares no key and changes neither count.
Uncounted ==
  /\ ~KeyCompared(out') /\ hist'.wrong = hist.wrong
  /\ ctx'.security_attempts = ctx.security_attempts

\* What is observed of a call does not touch the count of wrong keys.
LEMMA ObserveWrong ==
  ASSUME NEW h \in HistType, NEW c, NEW d, NEW e
  PROVE  Observe(h, c, d, e).wrong = h.wrong
BY DEF Observe, HistType

\* A delivered message counts on both sides.
LEMMA CountInput ==
  ASSUME IInv, NEW r \in Requests, NEW a \in Answers, InputSdu(r, a)
  PROVE  /\ ~KeyCompared(out') =>
              hist'.wrong = hist.wrong /\ ctx'.security_attempts = ctx.security_attempts
         /\ KeyCompared(out') /\ a.res = 0 => hist'.wrong = 0
         /\ KeyCompared(out') /\ a.res # 0 =>
              /\ hist'.wrong = Capped(hist.wrong + 1, MAX_ATTEMPTS)
              /\ ctx'.security_attempts = (ctx.security_attempts + 1) % ATTEMPTS_MOD
              /\ TX_SIZE >= 3 /\ ctx'.security_attempts >= MAX_ATTEMPTS =>
                   HasSent(out', SECURITY_ACCESS, EXCEEDED_ATTEMPTS)
<1> DEFINE o == uds_input_sdu(ctx, per, r, a, now)
           h == Observe(hist, ctx, o.ctx, o.out)
<1>1. r \in Request /\ a \in Answer
  BY EnvironmentAssumption
<1>2. ctx \in Ctx /\ now \in Time /\ hist \in HistType
  BY DEF IInv, TypeOK
<1>3. Tallies(ctx, a, o)
  BY <1>1, <1>2, TallyInput
<1>4. o.ctx \in Ctx /\ o.out \in Seq(Event)
  BY <1>1, <1>2, SafeInput DEF Safe, OutcomeType
<1> DEFINE grant == IF KeyGranted(o.out, a)
                    THEN <<ctx.active_session, o.out[1].v>> ELSE h.grant
           wrong == IF KeyGranted(o.out, a) THEN 0
                    ELSE IF KeyCompared(o.out) THEN Capped(h.wrong + 1, MAX_ATTEMPTS)
                    ELSE h.wrong
           gap == [j \in Slot |-> IF per'.ids[j] = 0 \/ per'.ids[j] # per.ids[j]
                                  THEN 0 ELSE h.gap[j]]
           agreed == IF Agrees(r, a, o.out)
                     THEN <<o.ctx.active_session, o.ctx.security_level>> ELSE h.agreed
           g == [h EXCEPT !.idle = IF r.len = 0 THEN h.idle ELSE 0,
                          !.grant = grant, !.agreed = agreed, !.wrong = wrong,
                          !.sid = r.sid, !.due = DueFor(ctx, r), !.gap = gap]
<1>5. ctx' = o.ctx /\ out' = o.out /\ hist' = g
  BY DEF InputSdu
<1>6. h \in HistType /\ h.wrong = hist.wrong
  BY <1>2, <1>4, ObserveType, ObserveWrong
<1> HIDE DEF o, h, grant, wrong, gap, agreed
<1>7. g.wrong = wrong
  BY <1>6 DEF HistType
<1> HIDE DEF g
<1> QED
  BY <1>3, <1>5, <1>6, <1>7 DEF Tallies, KeyGranted, wrong

\* The main loop and the application's calls count nothing.
LEMMA ProcessKeepsAttempts ==
  ASSUME NEW c \in Ctx, NEW t \in Time
  PROVE  uds_process(c, t).ctx.security_attempts = c.security_attempts
<1> DEFINE o == uds_process(c, t)
           d == revert_session(c, t)
           z == [c EXCEPT !.active_session = DEFAULT, !.security_level = 0]
           x == uds_send_nrc(d, d.pending_sid, CONDITIONS_NOT_CORRECT)
           y == uds_send_nrc(d, d.pending_sid, RESPONSE_PENDING)
           e == [x.ctx EXCEPT !.rcrrp_count = 0]
           f == [y.ctx EXCEPT !.rcrrp_count = (@ + 1) % RCRRP_MOD,
                              !.p2_star_active = TRUE, !.p2_timer_start = t]
<1>1. d \in Ctx /\ d.security_attempts = c.security_attempts
  <2>1. DEFAULT \in Sessions /\ 0 \in 0 .. 63
    BY DEF Sessions, DEFAULT
  <2>2. z \in Ctx /\ z.security_attempts = c.security_attempts
    BY <2>1 DEF Ctx
  <2>3. d = IF S3Expired(c, t) THEN z ELSE c
    BY DEF revert_session
  <2> HIDE DEF z, d
  <2> QED
    BY <2>2, <2>3
<1>2. o = IF ~P2Expired(d, t) THEN Outcome(d, <<>>)
          ELSE IF RcrrpExhausted(d) THEN [x EXCEPT !.ctx = e] ELSE [y EXCEPT !.ctx = f]
  BY DEF uds_process, abort_pending, repeat_pending
<1> HIDE DEF d, o
<1>3. d.pending_sid \in Byte
  BY <1>1 DEF Ctx
<1>4. Quiet(d, d.pending_sid, x) /\ Quiet(d, d.pending_sid, y)
  BY <1>1, <1>3, QuietNrc, Codes
<1>5. /\ x \in OutcomeType /\ x.ctx.security_attempts = c.security_attempts
      /\ y \in OutcomeType /\ y.ctx.security_attempts = c.security_attempts
  BY <1>1, <1>4 DEF Quiet, Calm
<1> HIDE DEF x, y
<1>6. x.ctx \in Ctx /\ y.ctx \in Ctx
  BY <1>5 DEF OutcomeType
<1>7. e.security_attempts = c.security_attempts /\ f.security_attempts = c.security_attempts
  BY <1>5, <1>6 DEF Ctx
<1> HIDE DEF e, f
<1>8. /\ [x EXCEPT !.ctx = e].ctx = e /\ [y EXCEPT !.ctx = f].ctx = f
      /\ Outcome(d, <<>>).ctx = d
  BY <1>5 DEF OutcomeType, Outcome
<1>9. o.ctx \in {d, e, f}
  BY <1>2, <1>8
<1> QED
  BY <1>1, <1>7, <1>9 DEF o

LEMMA CountProcess ==
  ASSUME IInv, NEW has \in BOOLEAN, Process(has)
  PROVE  Uncounted
<1> DEFINE o == uds_process(ctx, now)
           h == Observe(hist, ctx, o.ctx, o.out)
           gap == [j \in Slot |-> IF j \in Due(per, now) /\ ~SkipsScheduler(ctx, now)
                                  THEN 0 ELSE h.gap[j]]
           g == [h EXCEPT !.gap = gap]
<1>1. ctx \in Ctx /\ now \in Time /\ hist \in HistType
  BY DEF IInv, TypeOK
<1>2. ctx' = o.ctx /\ out' = o.out /\ hist' = g
  BY DEF Process
<1>3. o.ctx \in Ctx /\ o.out \in Seq(Event)
  BY <1>1, SafeProcess DEF Safe, OutcomeType
<1>4. ~KeyCompared(out')
  BY ProcessSaysNoLock
<1>5. o.ctx.security_attempts = ctx.security_attempts
  BY <1>1, ProcessKeepsAttempts
<1>6. h \in HistType /\ h.wrong = hist.wrong
  BY <1>1, <1>3, ObserveType, ObserveWrong
<1> HIDE DEF o, h, gap
<1>7. g.wrong = h.wrong
  BY <1>6 DEF HistType
<1> HIDE DEF g
<1> QED
  BY <1>2, <1>4, <1>5, <1>6, <1>7 DEF Uncounted

LEMMA CountAside ==
  ASSUME IInv,
         \/ \E sid \in jobs : \/ AppReject(sid)
                              \/ \E len \in {2, TX_SIZE + 1} : AppRespond(sid, len)
         \/ \E sid \in ClientSids : ClientRequest(sid)
  PROVE  Uncounted
<1>1. ctx \in Ctx /\ hist \in HistType
  BY DEF IInv, TypeOK
<1>2. ASSUME NEW sid \in jobs, AppReject(sid) PROVE Uncounted
  <2> DEFINE o == uds_send_nrc(ctx, sid, CONDITIONS_NOT_CORRECT)
  <2>1. sid \in Byte
    BY DEF IInv, TypeOK
  <2>2. Quiet(ctx, sid, o)
    BY <1>1, <2>1, QuietNrc, Codes
  <2>3. ctx' = o.ctx /\ out' = o.out /\ hist' = Observe(hist, ctx, o.ctx, o.out)
    BY <1>2 DEF AppReject
  <2> HIDE DEF o
  <2> QED
    BY <1>1, <2>2, <2>3, ObserveWrong DEF Quiet, Calm, Uncounted
<1>3. ASSUME NEW sid \in jobs, NEW len \in {2, TX_SIZE + 1}, AppRespond(sid, len)
      PROVE  Uncounted
  <2> DEFINE o == uds_send_response(ctx, sid, len)
  <2>1. sid \in Byte
    BY DEF IInv, TypeOK
  <2>2. Quiet(ctx, sid, o)
    BY <1>1, <2>1, QuietResponse
  <2>3. ctx' = o.ctx /\ out' = o.out /\ hist' = Observe(hist, ctx, o.ctx, o.out)
    BY <1>3 DEF AppRespond
  <2> HIDE DEF o
  <2> QED
    BY <1>1, <2>2, <2>3, ObserveWrong DEF Quiet, Calm, Uncounted
<1>4. ASSUME NEW sid \in ClientSids, ClientRequest(sid) PROVE Uncounted
  <2> DEFINE d == [ctx EXCEPT !.pending_sid = sid, !.client_cb = TRUE]
  <2>1. d.security_attempts = ctx.security_attempts
    BY <1>1 DEF Ctx
  <2>2. ctx' = d /\ hist' = Observe(hist, ctx, d, <<Asked(sid)>>)
    BY <1>4 DEF ClientRequest, uds_client_request, Outcome
  <2>3. ~KeyCompared(out')
    BY <1>4, AskFacts DEF Aside
  <2> HIDE DEF d
  <2> QED
    BY <1>1, <2>1, <2>2, <2>3, ObserveWrong DEF Uncounted
<1> QED
  BY <1>2, <1>3, <1>4

\* Time counts nothing.
LEMMA CountTick ==
  ASSUME IInv, Tick
  PROVE  Uncounted
<1>1. hist \in HistType
  BY DEF IInv, TypeOK
<1>2. ctx' = ctx /\ out' = <<>>
  BY TickFacts
<1>3. hist'.wrong = hist.wrong
  BY <1>1 DEF Tick, HistType
<1> QED
  BY <1>2, <1>3 DEF Uncounted, KeyCompared

\* The counter is at the top of its range: the next wrong key makes it 0.
Worn == ctx.security_attempts = ATTEMPTS_MOD - 1

\* Why wrong keys lock: the server has counted at least the wrong keys there
\* were since the last accepted one.
TallyInv == hist.wrong <= ctx.security_attempts /\ WrongKeysLock

\* Every step keeps it, unless a key is compared with the counter at its top.
LEMMA TallyStep ==
  ASSUME TX_SIZE >= 3, IInv, TallyInv, [Next]_vars, KeyCompared(out') => ~Worn
  PROVE  TallyInv'
<1>1. /\ ctx.security_attempts \in 0 .. ATTEMPTS_MOD - 1 /\ hist.wrong \in Nat
      /\ ATTEMPTS_MOD \in Nat \ {0} /\ MAX_ATTEMPTS \in Nat \ {0}
  <2>1. ctx \in Ctx /\ hist \in HistType
    BY DEF IInv, TypeOK
  <2> QED
    BY <2>1, TimingAssumption, RangeAssumption DEF Ctx, HistType
<1>2. ASSUME Uncounted PROVE TallyInv'
  BY <1>2 DEF Uncounted, TallyInv, WrongKeysLock
<1>3. ASSUME NEW r \in Requests, NEW a \in Answers, InputSdu(r, a)
      PROVE  TallyInv'
  <2>1. CASE ~KeyCompared(out')
    BY <1>2, <1>3, <2>1, CountInput DEF Uncounted
  <2>2. CASE KeyCompared(out') /\ a.res = 0
    <3>1. hist'.wrong = 0
      BY <1>3, <2>2, CountInput
    <3>2. ctx'.security_attempts \in Nat
      <4>1. ctx' \in Ctx
        BY <1>3, InputKeeps DEF IInv, TypeOK
      <4> QED
        BY <1>1, <4>1 DEF Ctx
    <3> QED
      BY <1>1, <3>1, <3>2 DEF TallyInv, WrongKeysLock
  <2>3. CASE KeyCompared(out') /\ a.res # 0
    <3>1. /\ hist'.wrong = Capped(hist.wrong + 1, MAX_ATTEMPTS)
          /\ ctx'.security_attempts = (ctx.security_attempts + 1) % ATTEMPTS_MOD
          /\ ctx'.security_attempts >= MAX_ATTEMPTS =>
               HasSent(out', SECURITY_ACCESS, EXCEEDED_ATTEMPTS)
      BY <1>3, <2>3, CountInput
    <3>2. ctx.security_attempts + 1 \in 0 .. ATTEMPTS_MOD - 1
      BY <1>1, <2>3 DEF Worn
    <3>3. ctx'.security_attempts = ctx.security_attempts + 1
      BY <1>1, <3>1, <3>2, WrapSmall
    <3>4. hist'.wrong <= hist.wrong + 1
      BY <1>1, <3>1 DEF Capped
    <3>5. hist'.wrong <= ctx'.security_attempts
      BY <1>1, <3>1, <3>3, <3>4 DEF TallyInv, Capped
    <3>6. hist'.wrong >= MAX_ATTEMPTS => ctx'.security_attempts >= MAX_ATTEMPTS
      BY <1>1, <3>1, <3>3, <3>5 DEF Capped
    <3> QED
      BY <3>1, <3>5, <3>6 DEF TallyInv, WrongKeysLock
  <2> QED
    BY <2>1, <2>2, <2>3
<1>4. ASSUME Restart PROVE TallyInv'
  <2>1. hist'.wrong = 0 /\ ctx'.security_attempts = 0 /\ out' = <<Boot>>
    BY <1>4 DEF Restart, uds_init, NoHistory
  <2>2. ~KeyCompared(out')
    BY <2>1 DEF KeyCompared, Boot
  <2> QED
    BY <2>1, <2>2 DEF TallyInv, WrongKeysLock
<1>5. CASE UNCHANGED vars
  BY <1>5 DEF vars, TallyInv, WrongKeysLock
<1>6. CASE Next
  BY <1>2, <1>3, <1>4, <1>6, CountProcess, CountAside, CountTick DEF Next
<1> QED
  BY <1>5, <1>6

\* From the configured number of wrong keys on, every wrong key is refused with
\* NRC 0x36 and starts the delay, whatever comes between them -- until the
\* counter, which never stops at the limit, is at the top of its uint8_t range
\* and wraps with the next key.  The buffer has to hold the three bytes of a
\* negative response.
THEOREM WrongKeysLockOut ==
  TX_SIZE >= 3 =>
    (Spec /\ [][KeyCompared(out') => ~Worn]_vars => []WrongKeysLock)
<1> SUFFICES ASSUME TX_SIZE >= 3
             PROVE  Spec /\ [][KeyCompared(out') => ~Worn]_vars => []WrongKeysLock
  OBVIOUS
<1>1. Init => TallyInv
  BY DEF Init, TallyInv, WrongKeysLock, NoHistory, uds_init, KeyCompared, Boot
<1>2. IInv /\ TallyInv /\ [Next]_vars /\ [KeyCompared(out') => ~Worn]_vars => TallyInv'
  <2> SUFFICES ASSUME IInv, TallyInv, [Next]_vars, [KeyCompared(out') => ~Worn]_vars
               PROVE  TallyInv'
    OBVIOUS
  <2>1. CASE UNCHANGED vars
    BY <2>1 DEF vars, TallyInv, WrongKeysLock
  <2>2. CASE KeyCompared(out') => ~Worn
    BY <2>2, TallyStep
  <2> QED
    BY <2>1, <2>2
<1>3. TallyInv => WrongKeysLock
  BY DEF TallyInv
<1> QED
  BY <1>1, <1>2, <1>3, Invariance, PTL DEF Spec

-----------------------------------------------------------------------------
(* Answers *)

\* A request that the stack dispatches is answered at most once, and in its own
\* name, by every handler and on every path through the checks before it.
THEOREM RepliesOnce == Spec => []AnsweredOnce
<1>1. Init => AnsweredOnce
  BY DEF Init, AnsweredOnce, NoHistory
<1>2. ASSUME IInv, AnsweredOnce, [Next]_vars
      PROVE  AnsweredOnce'
  <2>1. ASSUME NEW r \in Requests, NEW a \in Answers, InputSdu(r, a)
        PROVE  AnsweredOnce'
    <3>1. /\ r.len # 0 /\ ~ctx.p2_msg_pending /\ ~IsResponse(ctx, r) =>
               OneReply(r.sid, out')
          /\ hist'.sid = r.sid /\ hist'.due = DueFor(ctx, r)
      BY <1>2, <2>1, InputFacts
    <3>2. hist'.due # "none" => OneReply(r.sid, out')
      BY <3>1 DEF DueFor
    <3>3. \A i \in Responses(out') : i \in Spoken(out')
      BY DEF Responses, Spoken
    <3> QED
      BY <3>1, <3>2, <3>3 DEF AnsweredOnce, OneReply
  <2>2. ASSUME NEW has \in BOOLEAN, Process(has) PROVE hist'.due = "none"
    BY <1>2, <2>2, ProcessFacts
  <2>3. Aside => hist'.due = "none"
    BY DEF Aside
  <2>4. Restart \/ Tick => hist'.due = "none"
    BY <1>2, RestartFacts, TickFacts
  <2>5. hist'.due = "none" => AnsweredOnce'
    BY DEF AnsweredOnce
  <2>6. CASE UNCHANGED vars
    BY <1>2, <2>6 DEF vars, AnsweredOnce, Responses
  <2>7. CASE Next
    BY <1>2, <2>1, <2>2, <2>3, <2>4, <2>5, <2>7, AnswerFacts, AskFacts DEF Next
  <2> QED
    BY <1>2, <2>6, <2>7
<1> QED
  BY <1>1, <1>2, Invariance, PTL DEF Spec

-----------------------------------------------------------------------------
(* Natural numbers *)

\* A set of natural numbers has a least element.
LEMMA LeastNatural ==
  ASSUME NEW S, S \subseteq Nat, S # {}
  PROVE  \E x \in S : \A y \in S : x <= y
<1> DEFINE R == OpToRel(<, Nat)
<1>1. IsWellFoundedOn(R, Nat)
  BY NatLessThanWellFounded
<1>2. \A x, y \in Nat : x < y => <<x, y>> \in R
  BY DEF OpToRel
<1> HIDE DEF R
<1>3. PICK x \in S : \A y \in S : ~(<<y, x>> \in R)
  BY <1>1, WFMin
<1>4. \A y \in S : x <= y
  <2> TAKE y \in S
  <2>1. x \in Nat /\ y \in Nat /\ ~(<<y, x>> \in R)
    BY <1>3
  <2>2. ~(y < x)
    BY <1>2, <2>1
  <2> QED
    BY <2>1, <2>2
<1> QED
  BY <1>3, <1>4

\* Induction, stated of the set of numbers that have the property.
LEMMA NaturalSet ==
  ASSUME NEW S, 0 \in S, \A n \in Nat : n \in S => n + 1 \in S
  PROVE  \A n \in Nat : n \in S
<1> SUFFICES ASSUME Nat \ S # {} PROVE FALSE
  OBVIOUS
<1>1. PICK x \in Nat \ S : \A y \in Nat \ S : x <= y
  BY LeastNatural
<1>2. x # 0 /\ x - 1 \in Nat
  BY <1>1
<1>3. x - 1 \in S
  BY <1>1, <1>2
<1> QED
  BY <1>1, <1>2, <1>3

-----------------------------------------------------------------------------
(* That there is an answer *)

\* The transmit buffer has room for the longest answer of the stack itself
\* (0x3D: ten bytes), and no callback claims to have written more than the
\* header of its service leaves.
Roomy == TX_SIZE >= 10 /\ \A a \in Answers : a.res + 4 <= TX_SIZE

Fits(a) == TX_SIZE >= 10 /\ a.res + 4 <= TX_SIZE

Speaks(o) == o \in OutcomeType /\ \E i \in DOMAIN o.out : o.out[i].k \in {"pos", "neg"}

\* A negative response is never suppressed.
LEMMA NrcSpeaks ==
  ASSUME NEW c \in Ctx, NEW sid \in Byte, NEW nrc \in Byte, TX_SIZE >= 10
  PROVE  Speaks(uds_send_nrc(c, sid, nrc))
<1> DEFINE o == uds_send_nrc(c, sid, nrc)
<1>1. o \in OutcomeType
  BY QuietNrc DEF Quiet, Calm
<1>2. ~(TX_SIZE < 3)
  BY ConfigAssumption
<1>3. o.out = <<Neg(sid, nrc)>>
  BY <1>2 DEF uds_send_nrc, Outcome
<1>4. 1 \in DOMAIN o.out /\ o.out[1].k = "neg"
  BY <1>3 DEF Neg
<1> QED
  BY <1>1, <1>4 DEF Speaks

\* A positive one that fits is sent, unless it is to be suppressed.
LEMMA ResponseSpeaks ==
  ASSUME NEW c \in Ctx, ~c.suppress_pos_resp, NEW sid \in Byte, NEW len, ~(len > TX_SIZE)
  PROVE  Speaks(uds_send_response(c, sid, len))
<1> DEFINE o == uds_send_response(c, sid, len)
<1>1. o \in OutcomeType
  BY QuietResponse DEF Quiet, Calm
<1>2. o.out = <<Pos(sid)>>
  BY DEF uds_send_response, Outcome
<1>3. 1 \in DOMAIN o.out /\ o.out[1].k = "pos"
  BY <1>2 DEF Pos
<1> QED
  BY <1>1, <1>3 DEF Speaks

\* What is done before an answer does not take it back.
LEMMA PrependSpeaks ==
  ASSUME NEW o, Speaks(o), NEW ev \in Event
  PROVE  Speaks(Prepend(ev, o))
BY PrependOutcome DEF Speaks

\* Neither does a callback.
LEMMA CallSpeaks ==
  ASSUME NEW o, Speaks(o), NEW sid \in Byte, NEW v \in Byte
  PROVE  Speaks(Prepend(Call(sid, v), o))
<1>1. Call(sid, v) \in Event
  BY DEF Call, Event, EventKinds
<1> QED
  BY <1>1, PrependSpeaks

\* Lengths that fit.
LEMMA ShortFits ==
  ASSUME NEW a \in Answer, Fits(a)
  PROVE  /\ \A n \in 0 .. 10 : ~(n > TX_SIZE)
         /\ \A n \in 0 .. 4 : ~(a.res + n > TX_SIZE)
         /\ NrcOf(a.res) \in Byte /\ 0 \in Byte
<1>1. TX_SIZE \in Nat /\ a.res \in Int
  BY ConfigAssumption DEF Answer
<1>2. NrcOf(a.res) \in Byte /\ 0 \in Byte
  BY <1>1, NrcOfByte DEF Byte
<1> QED
  BY <1>1, <1>2 DEF Fits

\* The services whose work is done by one callback answer.
LEMMA DelegateSpeaks ==
  ASSUME NEW c \in Ctx, ~c.suppress_pos_resp, NEW sid \in Byte, NEW fn,
         NEW a \in Answer, Fits(a), NEW hdr \in 0 .. 4
  PROVE  Speaks(Delegate(c, sid, fn, a, hdr))
<1>1. ~(a.res + hdr > TX_SIZE) /\ NrcOf(a.res) \in Byte /\ 0 \in Byte /\ TX_SIZE >= 10
  BY ShortFits DEF Fits
<1> QED
  BY <1>1, NrcSpeaks, ResponseSpeaks, CallSpeaks, Codes DEF Delegate

\* Without the suppress bit the flag stays as it is.
LEMMA NoteSuppressOff ==
  ASSUME NEW c \in Ctx, ~c.suppress_pos_resp, NEW r \in Request, ~Suppressed(r)
  PROVE  NoteSuppress(c, r) \in Ctx /\ ~NoteSuppress(c, r).suppress_pos_resp
<1>1. NoteSuppress(c, r) \in Ctx
  BY NoteSuppressAlike
<1> QED
  BY <1>1 DEF NoteSuppress, Ctx

\* 0x10: the session is saved behind the answer.
LEMMA SessionControlSpeaks ==
  ASSUME NEW c \in Ctx, ~c.suppress_pos_resp, NEW r \in Request, NEW a \in Answer, Fits(a),
         NEW t \in Time
  PROVE  Speaks(handle_session_control(c, r, a, t))
<1> DEFINE s == Sub(r)
           d == [c EXCEPT !.security_level = IF c.active_session # s \/ s = DEFAULT THEN 0 ELSE @,
                          !.active_session = s]
           o == uds_send_response(d, SESSION_CONTROL, 6)
           ev == Save(d.active_session, d.security_level)
<1>1. CASE s \notin Sessions
  BY <1>1, NrcSpeaks, Codes DEF handle_session_control, Fits
<1>2. CASE s \in Sessions
  <2> DEFINE l == IF c.active_session # s \/ s = DEFAULT THEN 0 ELSE c.security_level
  <2>0. l \in 0 .. 63
    BY DEF Ctx
  <2>1. d \in Ctx /\ ~d.suppress_pos_resp
    <3>1. d = [c EXCEPT !.security_level = l, !.active_session = s]
      BY DEF Ctx
    <3> HIDE DEF s, l, d
    <3> QED
      BY <1>2, <2>0, <3>1 DEF Ctx
  <2>2. handle_session_control(c, r, a, t) \in {o, Postpone(o, ev)}
    BY <1>2 DEF handle_session_control
  <2> HIDE DEF d
  <2>3. ~(6 > TX_SIZE)
    BY ShortFits
  <2>4. Speaks(o)
    BY <2>1, <2>3, ResponseSpeaks, Codes
  <2>5. ev \in Event /\ ev.k \notin {"pos", "neg", "req"}
    <3>1. d.active_session \in Byte /\ d.security_level \in Byte
      BY <2>1 DEF Ctx, Sessions, Byte
    <3> QED
      BY <3>1 DEF Save, Event, EventKinds
  <2> HIDE DEF o, ev
  <2>6. Speaks(Postpone(o, ev))
    <3>1. o \in OutcomeType /\ o.out \in Seq(Event)
      BY <2>4 DEF Speaks, OutcomeType
    <3>2. /\ Append(o.out, ev) \in Seq(Event) /\ DOMAIN o.out \subseteq DOMAIN Append(o.out, ev)
          /\ \A i \in DOMAIN o.out : Append(o.out, ev)[i] = o.out[i]
      BY <2>5, <3>1, AppendSpoken
    <3>3. Postpone(o, ev) \in OutcomeType /\ Postpone(o, ev).out = Append(o.out, ev)
      BY <3>1, <3>2 DEF Postpone, OutcomeType
    <3> QED
      BY <2>4, <3>2, <3>3 DEF Speaks
  <2> QED
    BY <2>2, <2>4, <2>6
<1> QED
  BY <1>1, <1>2

\* 0x3E, 0x29, 0x31 and 0x14 answer.
LEMMA SimpleSpeak ==
  ASSUME NEW c \in Ctx, ~c.suppress_pos_resp, NEW r \in Request, NEW a \in Answer, Fits(a),
         NEW t \in Time
  PROVE  /\ Speaks(handle_tester_present(c, r, a, t))
         /\ Speaks(handle_authentication(c, r, a, t))
         /\ Speaks(handle_routine_control(c, r, a, t))
         /\ Speaks(handle_clear_dtc(c, r, a, t))
<1>1. /\ \A n \in 0 .. 10 : ~(n > TX_SIZE)
      /\ \A n \in 0 .. 4 : ~(a.res + n > TX_SIZE)
      /\ NrcOf(a.res) \in Byte /\ 0 \in Byte /\ TX_SIZE >= 10 /\ {1, 2, 3, 6} \subseteq 0 .. 10
  BY ShortFits DEF Fits

<1>2. Speaks(handle_tester_present(c, r, a, t))
  BY <1>1, NrcSpeaks, ResponseSpeaks, Codes DEF handle_tester_present
<1>3. Speaks(handle_authentication(c, r, a, t))
  BY <1>1, NrcSpeaks, DelegateSpeaks, Codes DEF handle_authentication
<1>4. Speaks(handle_routine_control(c, r, a, t))
  BY <1>1, NrcSpeaks, DelegateSpeaks, Codes DEF handle_routine_control
<1>5. Speaks(handle_clear_dtc(c, r, a, t))
  BY <1>1, NrcSpeaks, ResponseSpeaks, CallSpeaks, Codes DEF handle_clear_dtc
<1> QED
  BY <1>2, <1>3, <1>4, <1>5

\* The services that look at the suppress bit themselves, without it.
LEMMA NotedSpeak ==
  ASSUME NEW c \in Ctx, ~c.suppress_pos_resp, NEW r \in Request, NEW a \in Answer, Fits(a),
         NEW t \in Time, ~Suppressed(r)
  PROVE  /\ Speaks(handle_ecu_reset(c, r, a, t))
         /\ Speaks(handle_comm_control(c, r, a, t))
         /\ Speaks(handle_read_dtc_info(c, r, a, t))
         /\ Speaks(handle_control_dtc_setting(c, r, a, t))
<1> DEFINE d == NoteSuppress(c, r)
<1>1. /\ \A n \in 0 .. 10 : ~(n > TX_SIZE)
      /\ \A n \in 0 .. 4 : ~(a.res + n > TX_SIZE)
      /\ NrcOf(a.res) \in Byte /\ 0 \in Byte /\ TX_SIZE >= 10 /\ {1, 2, 3, 6} \subseteq 0 .. 10
  BY ShortFits DEF Fits

<1>2. d \in Ctx /\ ~d.suppress_pos_resp /\ Sub(r) \in Byte
  BY NoteSuppressOff, SubRange
<1>3. \A sid \in Byte : \A len : ~(len > TX_SIZE) =>
        \A e \in Ctx : ~e.suppress_pos_resp => Speaks(ReplyUnlessSuppressed(e, sid, r, len))
  BY ResponseSpeaks DEF ReplyUnlessSuppressed
<1> HIDE DEF d
<1>4. Speaks(handle_ecu_reset(c, r, a, t))
  BY <1>1, <1>2, <1>3, NrcSpeaks, CallSpeaks, Codes DEF handle_ecu_reset, d
<1>5. Speaks(handle_comm_control(c, r, a, t))
  <2> DEFINE e == [d EXCEPT !.comm_state = Sub(r)]
             x == uds_send_nrc(d, COMM_CONTROL, NrcOf(a.res))
             y == ReplyUnlessSuppressed(e, COMM_CONTROL, r, 2)
             call == Call(COMM_CONTROL, Sub(r))
  <2>1. CASE r.len < 3 \/ Sub(r) > 5 \/ r.b2 % 16 \notin 1 .. 3
    BY <1>1, <2>1, NrcSpeaks, Codes DEF handle_comm_control
  <2>2. CASE ~(r.len < 3 \/ Sub(r) > 5 \/ r.b2 % 16 \notin 1 .. 3)
    <3>1. Sub(r) \in 0 .. 5
      BY <2>2, SubRange
    <3>2. e \in Ctx /\ ~e.suppress_pos_resp
      BY <1>2, <3>1 DEF Ctx
    <3>3. handle_comm_control(c, r, a, t) \in {x, y, Prepend(call, x), Prepend(call, y)}
      BY <2>2 DEF handle_comm_control, d
    <3> HIDE DEF e
    <3>4. Speaks(x) /\ Speaks(y)
      BY <1>1, <1>2, <1>3, <3>2, NrcSpeaks, Codes
    <3> HIDE DEF x, y
    <3>5. Speaks(Prepend(call, x)) /\ Speaks(Prepend(call, y))
      BY <1>2, <3>4, CallSpeaks, Codes
    <3> QED
      BY <3>3, <3>4, <3>5
  <2> QED
    BY <2>1, <2>2
<1>6. Speaks(handle_read_dtc_info(c, r, a, t))
  <2> DEFINE x == uds_send_nrc(d, READ_DTC_INFO, NrcOf(a.res))
             y == ReplyUnlessSuppressed(d, READ_DTC_INFO, r, a.res + 2)
             call == Call(READ_DTC_INFO, Sub(r))
  <2>1. Speaks(x) /\ Speaks(y)
    <3>1. ~(a.res + 2 > TX_SIZE)
      BY <1>1
    <3> QED
      BY <1>1, <1>2, <1>3, <3>1, NrcSpeaks, Codes
  <2>2. \/ \E n \in Byte : handle_read_dtc_info(c, r, a, t) = uds_send_nrc(c, READ_DTC_INFO, n)
        \/ handle_read_dtc_info(c, r, a, t) \in {Prepend(call, x), Prepend(call, y)}
    BY Codes DEF handle_read_dtc_info, d
  <2> HIDE DEF x, y
  <2>3. Speaks(Prepend(call, x)) /\ Speaks(Prepend(call, y))
    BY <1>2, <2>1, CallSpeaks, Codes
  <2> QED
    BY <1>1, <2>2, <2>3, NrcSpeaks, Codes
<1>7. Speaks(handle_control_dtc_setting(c, r, a, t))
  BY <1>1, <1>2, NrcSpeaks, ResponseSpeaks, Codes DEF handle_control_dtc_setting, d
<1> QED
  BY <1>4, <1>5, <1>6, <1>7

\* The loop of 0x22 ends where its last identifier ends.
LEMMA ReadLoop ==
  ASSUME NEW n \in Nat, NEW ids
  PROVE  LET used[i \in 0 .. n] == IF i = 0 THEN 1 ELSE EndOf(used[i - 1], ids[i])
         IN  used[0] = 1 /\ (n # 0 => used[n] = EndOf(used[n - 1], ids[n]))
<1> DEFINE Rounds(f, m) ==
             f = [i \in 0 .. m |-> IF i = 0 THEN 1 ELSE EndOf(f[i - 1], ids[i])]
           N == {m \in Nat : \E f : Rounds(f, m)}
           used[i \in 0 .. n] == IF i = 0 THEN 1 ELSE EndOf(used[i - 1], ids[i])
<1>1. 0 \in N
  <2> DEFINE f == [i \in 0 .. 0 |-> 1]
  <2>1. Rounds(f, 0)
    OBVIOUS
  <2> QED
    BY <2>1
<1>2. ASSUME NEW m \in Nat, m \in N PROVE m + 1 \in N
  <2>1. PICK f : Rounds(f, m)
    BY <1>2
  <2> DEFINE g == [i \in 0 .. m + 1 |-> IF i = m + 1 THEN EndOf(f[m], ids[m + 1]) ELSE f[i]]
  <2>2. \A i \in 0 .. m : g[i] = f[i]
    OBVIOUS
  <2>3. g[m + 1] = EndOf(g[m], ids[m + 1])
    BY <2>2
  <2>4. \A i \in 0 .. m : f[i] = IF i = 0 THEN 1 ELSE EndOf(f[i - 1], ids[i])
    BY <2>1, Zenon
  <2>5. ASSUME NEW i \in 0 .. m + 1
        PROVE  g[i] = IF i = 0 THEN 1 ELSE EndOf(g[i - 1], ids[i])
    <3>1. CASE i = m + 1
      BY <2>3, <3>1
    <3>2. CASE i # m + 1
      <4>1. i \in 0 .. m /\ (i # 0 => i - 1 \in 0 .. m)
        BY <3>2
      <4>2. g[i] = f[i] /\ (i # 0 => g[i - 1] = f[i - 1])
        BY <2>2, <4>1
      <4> HIDE DEF g
      <4> QED
        BY <2>4, <4>1, <4>2
    <3> QED
      BY <3>1, <3>2
  <2>6. g = [i \in 0 .. m + 1 |-> g[i]]
    OBVIOUS
  <2> HIDE DEF g
  <2>7. Rounds(g, m + 1)
    BY <2>5, <2>6, Zenon
  <2> QED
    BY <2>7
<1>3. n \in N
  <2> HIDE DEF N
  <2>1. \A m \in Nat : m \in N
    BY <1>1, <1>2, NaturalSet
  <2> QED
    BY <2>1
<1>4. Rounds(used, n)
  <2>1. \E f : Rounds(f, n)
    BY <1>3
  <2> QED
    BY <2>1, Zenon
<1>5. \A i \in 0 .. n : used[i] = IF i = 0 THEN 1 ELSE EndOf(used[i - 1], ids[i])
  BY <1>4, Zenon
<1> HIDE DEF used
<1>6. 0 \in 0 .. n /\ n \in 0 .. n
  OBVIOUS
<1>7. used[0] = 1 /\ (n # 0 => used[n] = EndOf(used[n - 1], ids[n]))
  BY <1>5, <1>6
<1> QED
  BY <1>7 DEF used

\* 0x22 answers: what it has collected fits, or it says so.
LEMMA ReadDataSpeaks ==
  ASSUME NEW c \in Ctx, ~c.suppress_pos_resp, NEW r \in Request, NEW a \in Answer, Fits(a),
         NEW t \in Time, r.len # 0
  PROVE  Speaks(handle_read_data_by_id(c, r, a, t))
<1>1. /\ \A n \in 0 .. 10 : ~(n > TX_SIZE)
      /\ NrcOf(a.res) \in Byte /\ 0 \in Byte /\ TX_SIZE >= 10 /\ {1, 2, 3, 6} \subseteq 0 .. 10
  BY ShortFits DEF Fits

<1> DEFINE n == (r.len - 1) \div 2
           used[i \in 0 .. n] == IF i = 0 THEN 1 ELSE EndOf(used[i - 1], r.ids[i])
           bad == {i \in 1 .. n : DidNrc(c, r.ids[i], used[i - 1], a) # 0}
           first == CHOOSE i \in bad : \A j \in bad : i <= j
           o == handle_read_data_by_id(c, r, a, t)
<1>2. o = IF bad # {}
          THEN uds_send_nrc(c, READ_DATA_BY_ID, DidNrc(c, r.ids[first], used[first - 1], a))
          ELSE uds_send_response(c, READ_DATA_BY_ID, used[n])
  BY DEF handle_read_data_by_id
<1>3. ASSUME n \in Nat PROVE used[0] = 1 /\ (n # 0 => used[n] = EndOf(used[n - 1], r.ids[n]))
  BY <1>3, ReadLoop
<1> SUFFICES Speaks(o)
  OBVIOUS
<1> HIDE DEF used, first, o
<1>4. CASE bad # {}
  <2> DEFINE nrc == DidNrc(c, r.ids[first], used[first - 1], a)
  <2>1. nrc \in Byte
    BY DidNrcByte
  <2>2. o = uds_send_nrc(c, READ_DATA_BY_ID, nrc)
    BY <1>2, <1>4
  <2> HIDE DEF nrc
  <2> QED
    BY <1>1, <2>1, <2>2, NrcSpeaks, Codes
<1>5. CASE bad = {} /\ n \in Nat
  <2> HIDE DEF n
  <2>0. o = uds_send_response(c, READ_DATA_BY_ID, used[n])
    BY <1>2, <1>5
  <2>1. CASE n = 0
    <3>1. ~(used[n] > TX_SIZE)
      BY <1>1, <1>3, <1>5, <2>1
    <3> QED
      BY <2>0, <3>1, ResponseSpeaks, Codes
  <2>2. CASE n # 0
    <3>1. n \in 1 .. n
      BY <1>5, <2>2
    <3>2. DidNrc(c, r.ids[n], used[n - 1], a) = 0
      BY <1>5, <3>1
    <3>3. ~(EndOf(used[n - 1], r.ids[n]) > TX_SIZE)
      BY <3>2 DEF DidNrc, REQUEST_OUT_OF_RANGE, SECURITY_ACCESS_DENIED, RESPONSE_TOO_LONG
    <3>4. used[n] = EndOf(used[n - 1], r.ids[n])
      BY <1>3, <1>5, <2>2
    <3> QED
      BY <2>0, <3>3, <3>4, ResponseSpeaks, Codes
  <2> QED
    BY <2>1, <2>2
<1>6. n \in Nat
  BY DEF Request
<1> QED
  BY <1>4, <1>5, <1>6

\* 0x2E and 0x2F answer.
LEMMA DataSpeak ==
  ASSUME NEW c \in Ctx, ~c.suppress_pos_resp, NEW r \in Request, NEW a \in Answer, Fits(a),
         NEW t \in Time
  PROVE  /\ Speaks(handle_write_data_by_id(c, r, a, t))
         /\ Speaks(handle_io_control(c, r, a, t))
<1>1. /\ \A n \in 0 .. 10 : ~(n > TX_SIZE)
      /\ NrcOf(a.res) \in Byte /\ 0 \in Byte /\ TX_SIZE >= 10 /\ {1, 2, 3, 6} \subseteq 0 .. 10
  BY ShortFits DEF Fits

<1>2. Speaks(handle_write_data_by_id(c, r, a, t))
  BY <1>1, NrcSpeaks, ResponseSpeaks, CallSpeaks, Codes DEF handle_write_data_by_id
<1>3. Speaks(handle_io_control(c, r, a, t))
  BY <1>1, NrcSpeaks, DelegateSpeaks, Codes DEF handle_io_control
<1> QED
  BY <1>2, <1>3

\* 0x23 and 0x3D answer: their length is checked, or small.
LEMMA MemorySpeak ==
  ASSUME NEW c \in Ctx, ~c.suppress_pos_resp, NEW r \in Request, NEW a \in Answer, Fits(a),
         NEW t \in Time
  PROVE  /\ Speaks(handle_read_memory_by_addr(c, r, a, t))
         /\ Speaks(handle_write_memory_by_addr(c, r, a, t))
<1>1. /\ \A n \in 0 .. 10 : ~(n > TX_SIZE)
      /\ NrcOf(a.res) \in Byte /\ 0 \in Byte /\ TX_SIZE >= 10 /\ {1, 2, 3, 6} \subseteq 0 .. 10
  BY ShortFits DEF Fits

<1>2. TX_SIZE \in Nat /\ r.size \in Nat /\ (~(r.size > TX_SIZE - 1) => ~(r.size + 1 > TX_SIZE))
  BY ConfigAssumption DEF Request
<1>3. Speaks(handle_read_memory_by_addr(c, r, a, t))
  <2> DEFINE x == uds_send_nrc(c, READ_MEM_BY_ADDR, NrcOf(a.res))
             y == uds_send_response(c, READ_MEM_BY_ADDR, r.size + 1)
             call == Call(READ_MEM_BY_ADDR, 0)
             o == handle_read_memory_by_addr(c, r, a, t)
  <2>1. \/ \E n \in Byte : o = uds_send_nrc(c, READ_MEM_BY_ADDR, n)
        \/ ~(r.size > TX_SIZE - 1) /\ o \in {Prepend(call, x), Prepend(call, y)}
    BY Codes DEF handle_read_memory_by_addr
  <2>2. Speaks(x) /\ (~(r.size > TX_SIZE - 1) => Speaks(y))
    BY <1>1, <1>2, NrcSpeaks, ResponseSpeaks, Codes
  <2> HIDE DEF x, y, o
  <2>3. Speaks(Prepend(call, x)) /\ (Speaks(y) => Speaks(Prepend(call, y)))
    BY <1>1, <2>2, CallSpeaks, Codes
  <2> QED
    BY <1>1, <2>1, <2>2, <2>3, NrcSpeaks, Codes DEF o
<1>4. Speaks(handle_write_memory_by_addr(c, r, a, t))
  <2> DEFINE len == 2 + AddrLen(r.b1) + SizeLen(r.b1)
             x == uds_send_nrc(c, WRITE_MEM_BY_ADDR, NrcOf(a.res))
             y == uds_send_response(c, WRITE_MEM_BY_ADDR, len)
             call == Call(WRITE_MEM_BY_ADDR, 0)
             o == handle_write_memory_by_addr(c, r, a, t)
  <2>1. \/ \E n \in Byte : o = uds_send_nrc(c, WRITE_MEM_BY_ADDR, n)
        \/ AlfidOK(r.b1) /\ o \in {Prepend(call, x), Prepend(call, y)}
    BY Codes DEF handle_write_memory_by_addr
  <2>2. AlfidOK(r.b1) => len \in 0 .. 10
    BY DEF AlfidOK
  <2> HIDE DEF len
  <2>3. Speaks(x) /\ (AlfidOK(r.b1) => Speaks(y))
    BY <1>1, <2>2, NrcSpeaks, ResponseSpeaks, Codes
  <2> HIDE DEF x, y, o
  <2>4. Speaks(Prepend(call, x)) /\ (Speaks(y) => Speaks(Prepend(call, y)))
    BY <1>1, <2>3, CallSpeaks, Codes
  <2> QED
    BY <1>1, <2>1, <2>3, <2>4, NrcSpeaks, Codes DEF o
<1> QED
  BY <1>3, <1>4

\* 0x34 to 0x37 answer.
LEMMA TransferSpeaks ==
  ASSUME NEW c \in Ctx, ~c.suppress_pos_resp, NEW r \in Request, NEW a \in Answer, Fits(a),
         NEW t \in Time
  PROVE  /\ Speaks(handle_request_download(c, r, a, t))
         /\ Speaks(handle_request_upload(c, r, a, t))
         /\ Speaks(handle_request_transfer_exit(c, r, a, t))
         /\ Speaks(handle_transfer_data(c, r, a, t))
<1>1. /\ \A n \in 0 .. 10 : ~(n > TX_SIZE)
      /\ NrcOf(a.res) \in Byte /\ 0 \in Byte /\ TX_SIZE >= 10 /\ {1, 2, 3, 6} \subseteq 0 .. 10
  BY ShortFits DEF Fits

<1>2. \A n \in Byte : /\ [c EXCEPT !.flash_sequence = n] \in Ctx
                      /\ ~[c EXCEPT !.flash_sequence = n].suppress_pos_resp
  BY DEF Ctx
<1>3. \A sid \in Byte : \A fn : Speaks(StartTransfer(c, sid, fn, a))
  <2> TAKE sid \in Byte
  <2> TAKE fn
  <2>1. Speaks(uds_send_response([c EXCEPT !.flash_sequence = 0], sid, 6))
    BY <1>1, <1>2, ResponseSpeaks
  <2>2. Speaks(uds_send_nrc(c, sid, NrcOf(a.res)))
    BY <1>1, NrcSpeaks
  <2> QED
    BY <1>1, <2>1, <2>2, NrcSpeaks, CallSpeaks, Codes DEF StartTransfer
<1>4. Speaks(handle_request_download(c, r, a, t))
  BY <1>1, <1>3, NrcSpeaks, Codes DEF handle_request_download
<1>5. Speaks(handle_request_upload(c, r, a, t))
  BY <1>1, <1>3, NrcSpeaks, Codes DEF handle_request_upload
<1>6. Speaks(handle_request_transfer_exit(c, r, a, t))
  BY <1>1, NrcSpeaks, ResponseSpeaks, CallSpeaks, Codes DEF handle_request_transfer_exit
<1>7. Speaks(handle_transfer_data(c, r, a, t))
  <2>1. r.b1 \in Byte
    BY DEF Request
  <2> DEFINE x == uds_send_nrc(c, TRANSFER_DATA, NrcOf(a.res))
             y == uds_send_response([c EXCEPT !.flash_sequence = r.b1], TRANSFER_DATA, 2)
             z == uds_send_response(c, TRANSFER_DATA, 2)
             call == Call(TRANSFER_DATA, r.b1)
             o == handle_transfer_data(c, r, a, t)
  <2>2. \/ \E n \in Byte : o = uds_send_nrc(c, TRANSFER_DATA, n)
        \/ o \in {Prepend(call, x), Prepend(call, y), z}
    BY Codes DEF handle_transfer_data
  <2>3. Speaks(x) /\ Speaks(y) /\ Speaks(z)
    BY <1>1, <1>2, <2>1, NrcSpeaks, ResponseSpeaks, Codes
  <2> HIDE DEF x, y, z, o
  <2>4. Speaks(Prepend(call, x)) /\ Speaks(Prepend(call, y))
    BY <2>1, <2>3, CallSpeaks, Codes
  <2> QED
    BY <1>1, <2>2, <2>3, <2>4, NrcSpeaks, Codes DEF o
<1> QED
  BY <1>4, <1>5, <1>6, <1>7

\* 0x27 answers, whatever the key.
LEMMA SecuritySpeaks ==
  ASSUME NEW c \in Ctx, ~c.suppress_pos_resp, NEW r \in Request, NEW a \in Answer, Fits(a),
         NEW t \in Time
  PROVE  Speaks(handle_security_access(c, r, a, t))
<1>1. /\ \A n \in 0 .. 10 : ~(n > TX_SIZE)
      /\ \A n \in 0 .. 4 : ~(a.res + n > TX_SIZE)
      /\ NrcOf(a.res) \in Byte /\ 0 \in Byte /\ TX_SIZE >= 10 /\ 2 \in 0 .. 10 /\ 2 \in 0 .. 4
  BY ShortFits DEF Fits
<1> DEFINE d == [c EXCEPT !.security_delay_end = 0]
           v == Sub(r) \div 2
           call == Call(SECURITY_ACCESS, v)
<1>2. d \in Ctx /\ ~d.suppress_pos_resp
  BY TimingAssumption DEF Ctx, Time
<1>3. v \in 0 .. 63 /\ v \in Byte
  BY SubRange DEF Byte
<1>4. \/ \E n \in Byte : handle_security_access(c, r, a, t) = uds_send_nrc(c, SECURITY_ACCESS, n)
      \/ handle_security_access(c, r, a, t) \in {RequestSeed(d, r, a), SendKey(d, r, a, t)}
  BY Codes DEF handle_security_access
<1> HIDE DEF d
<1>5. Speaks(RequestSeed(d, r, a))
  BY <1>1, <1>2, NrcSpeaks, ResponseSpeaks, Codes DEF RequestSeed
<1>6. Speaks(KeyRejected(d, r, a, t))
  <2> DEFINE n == (d.security_attempts + 1) % ATTEMPTS_MOD
             e == [d EXCEPT !.security_attempts = n]
             end == (t + SEC_DELAY) % TIME_MOD
             f == [e EXCEPT !.security_delay_end = end]
  <2>1. n \in 0 .. ATTEMPTS_MOD - 1 /\ end \in Time
    BY <1>2, TimingAssumption DEF Ctx, Time
  <2>2. \/ KeyRejected(d, r, a, t) = uds_send_nrc(f, SECURITY_ACCESS, EXCEEDED_ATTEMPTS)
        \/ KeyRejected(d, r, a, t) = uds_send_nrc(e, SECURITY_ACCESS,
                                       IF a.res < 0 THEN NrcOf(a.res) ELSE INVALID_KEY)
    BY DEF KeyRejected
  <2> HIDE DEF n, end
  <2>3. e \in Ctx
    BY <1>2, <2>1 DEF Ctx
  <2> HIDE DEF e
  <2>4. f \in Ctx
    BY <2>1, <2>3 DEF Ctx
  <2> HIDE DEF f
  <2> QED
    BY <1>1, <2>2, <2>3, <2>4, NrcSpeaks, Codes
<1>7. Speaks(KeyAccepted(d, r))
  <2> DEFINE e == [d EXCEPT !.security_attempts = 0, !.security_level = v]
             x == uds_send_response(e, SECURITY_ACCESS, 2)
             ev == Save(e.active_session, e.security_level)
  <2>1. KeyAccepted(d, r) \in {x, Prepend(ev, x)}
    BY DEF KeyAccepted
  <2> HIDE DEF v
  <2>2. 0 \in 0 .. ATTEMPTS_MOD - 1
    BY TimingAssumption
  <2>3. e \in Ctx /\ ~e.suppress_pos_resp
    BY <1>2, <1>3, <2>2 DEF Ctx
  <2> HIDE DEF e
  <2>4. ev \in Event
    <3>1. e.active_session \in Byte /\ e.security_level \in Byte
      BY <2>3 DEF Ctx, Sessions, Byte
    <3> QED
      BY <3>1 DEF Save, Event, EventKinds
  <2>5. Speaks(x)
    BY <1>1, <2>3, ResponseSpeaks, Codes
  <2> HIDE DEF x, ev
  <2> QED
    BY <2>1, <2>4, <2>5, PrependSpeaks
<1>8. SendKey(d, r, a, t) \in {uds_send_nrc(d, SECURITY_ACCESS, CONDITIONS_NOT_CORRECT),
        Prepend(call, KeyAccepted(d, r)), Prepend(call, KeyRejected(d, r, a, t))}
  BY DEF SendKey
<1> HIDE DEF v
<1>9. Speaks(Prepend(call, KeyAccepted(d, r))) /\ Speaks(Prepend(call, KeyRejected(d, r, a, t)))
  BY <1>3, <1>6, <1>7, CallSpeaks, Codes
<1>10. Speaks(SendKey(d, r, a, t))
  BY <1>1, <1>2, <1>8, <1>9, NrcSpeaks, Codes
<1> QED
  BY <1>1, <1>4, <1>5, <1>10, NrcSpeaks, Codes

\* The services that note the suppress bit a second time.
Noting == {ECU_RESET, COMM_CONTROL, READ_DTC_INFO, CONTROL_DTC_SETTING}

\* Every handler of the stack answers a request that may be answered.
LEMMA CoreSpeaks ==
  ASSUME NEW c \in Ctx, ~c.suppress_pos_resp, NEW p, NEW r \in Request, r.len # 0,
         NEW a \in Answer, Fits(a), NEW t \in Time,
         \E e \in core_services : e.sid = r.sid, r.sid \in Noting => ~Suppressed(r)
  PROVE  Speaks(core_handler(c, p, r, a, t))
<1>1. r.sid \in {SESSION_CONTROL, ECU_RESET, CLEAR_DTC, READ_DTC_INFO,
      READ_DATA_BY_ID, READ_MEM_BY_ADDR, SECURITY_ACCESS, COMM_CONTROL,
      AUTHENTICATION, READ_BY_PER_ID, WRITE_DATA_BY_ID, IO_CONTROL_BY_ID,
      ROUTINE_CONTROL, REQUEST_DOWNLOAD, REQUEST_UPLOAD, TRANSFER_DATA,
      TRANSFER_EXIT, WRITE_MEM_BY_ADDR, TESTER_PRESENT, CONTROL_DTC_SETTING}
  BY DEF core_services, CoreService
<1>2. Speaks(handle_periodic(c, p, r, t))
  <2>1. PeriodicNrc(p, r, t) \in Byte
    BY Codes DEF PeriodicNrc, Byte
  <2>2. ~(1 > TX_SIZE) /\ TX_SIZE >= 10
    BY ConfigAssumption DEF Fits
  <2> QED
    BY <2>1, <2>2, NrcSpeaks, ResponseSpeaks, Codes DEF handle_periodic
<1>3. CASE r.sid \in Noting
  BY <1>3, NotedSpeak DEF Noting, core_handler, SESSION_CONTROL, ECU_RESET, CLEAR_DTC,
     READ_DTC_INFO, READ_DATA_BY_ID, READ_MEM_BY_ADDR, SECURITY_ACCESS, COMM_CONTROL,
     AUTHENTICATION, READ_BY_PER_ID, WRITE_DATA_BY_ID, IO_CONTROL_BY_ID, ROUTINE_CONTROL,
     REQUEST_DOWNLOAD, REQUEST_UPLOAD, TRANSFER_DATA, TRANSFER_EXIT, WRITE_MEM_BY_ADDR,
     TESTER_PRESENT, CONTROL_DTC_SETTING
<1>4. CASE r.sid \notin Noting
  BY <1>1, <1>2, <1>4, SessionControlSpeaks, SimpleSpeak, ReadDataSpeaks, DataSpeak,
     MemorySpeak, TransferSpeaks, SecuritySpeaks DEF Noting, core_handler
<1> QED
  BY <1>3, <1>4

\* So does one of the application, or it asks for time.
LEMMA UserSpeaks ==
  ASSUME NEW c \in Ctx, ~c.suppress_pos_resp, NEW r \in Request,
         NEW a \in Answer, Fits(a), NEW t \in Time
  PROVE  \/ Speaks(user_handler(c, r, a, t)) /\ user_handler(c, r, a, t).ret = "done"
         \/ user_handler(c, r, a, t) = [ctx |-> c, out |-> <<Call(r.sid, 0)>>, ret |-> "pending"]
<1> DEFINE x == uds_send_nrc(c, r.sid, NrcOf(a.res))
           y == uds_send_response(c, r.sid, a.res + 1)
           call == Call(r.sid, 0)
<1>1. r.sid \in Byte
  BY DEF Request
<1>2. ~(a.res + 1 > TX_SIZE) /\ NrcOf(a.res) \in Byte /\ 0 \in Byte /\ TX_SIZE >= 10
  BY ShortFits DEF Fits
<1>3. Speaks(x) /\ Speaks(y)
  BY <1>1, <1>2, NrcSpeaks, ResponseSpeaks
<1>4. x.ret = "done" /\ y.ret = "done"
  BY DEF uds_send_nrc, uds_send_response, Outcome
<1>5. \/ user_handler(c, r, a, t) = [ctx |-> c, out |-> <<call>>, ret |-> "pending"]
      \/ user_handler(c, r, a, t) \in {Prepend(call, x), Prepend(call, y)}
  BY DEF user_handler
<1> HIDE DEF x, y
<1>6. Speaks(Prepend(call, x)) /\ Speaks(Prepend(call, y))
  BY <1>1, <1>2, <1>3, CallSpeaks
<1>7. Prepend(call, x).ret = "done" /\ Prepend(call, y).ret = "done"
  BY <1>3, <1>4 DEF Prepend, Speaks, OutcomeType
<1> QED
  BY <1>5, <1>6, <1>7

\* Asking for time says 0x78.
LEMMA AwaitSpeaks ==
  ASSUME NEW c \in Ctx, NEW r \in Request, NEW t \in Time, TX_SIZE >= 10
  PROVE  \E i \in DOMAIN AwaitApplication(c, r, t, <<Call(r.sid, 0)>>).out :
           AwaitApplication(c, r, t, <<Call(r.sid, 0)>>).out[i].k \in {"pos", "neg"}
<1> DEFINE o == uds_send_nrc(c, r.sid, RESPONSE_PENDING)
           call == Call(r.sid, 0)
           w == AwaitApplication(c, r, t, <<call>>)
<1>1. r.sid \in Byte /\ 0 \in Byte
  BY DEF Request, Byte
<1>2. Speaks(o)
  BY <1>1, NrcSpeaks, Codes
<1>3. w.out = Prepend(call, o).out
  <2>1. Prepend(call, o).out = <<call>> \o o.out
    BY <1>2 DEF Prepend, Speaks, OutcomeType
  <2> QED
    BY <2>1 DEF AwaitApplication
<1> HIDE DEF o, w
<1>4. Speaks(Prepend(call, o))
  BY <1>1, <1>2, CallSpeaks
<1> QED
  BY <1>3, <1>4 DEF Speaks, w

\* A request is answered, unless it asks for silence or finds the flag set.
LEMMA RequestSpeaks ==
  ASSUME NEW c \in Ctx, ~c.suppress_pos_resp, NEW p, NEW r \in Request, r.len # 0,
         NEW a \in Answer, Fits(a), NEW t \in Time, ~(Known(r.sid) /\ AsksForSilence(r))
  PROVE  \E i \in DOMAIN handle_request(c, p, r, a, t).out :
           handle_request(c, p, r, a, t).out[i].k \in {"pos", "neg"}
<1> DEFINE e == find_service(r.sid)
           d == LatchSuppress(c, e, r)
           nrc == Gate(c, e, r, a)
           q == handle_request(c, p, r, a, t)
<1> SUFFICES Speaks(q) \/ \E i \in DOMAIN q.out : q.out[i].k \in {"pos", "neg"}
  BY DEF Speaks
<1>1. nrc \in Byte /\ r.sid \in Byte /\ TX_SIZE >= 10
  BY Codes DEF Gate, Byte, Request, Fits
<1>2. CASE ~Known(r.sid)
  BY <1>1, <1>2, NrcSpeaks, Codes DEF handle_request
<1>3. CASE Known(r.sid)
  <2>0. d \in Ctx /\ ~d.suppress_pos_resp
    <3>1. has_sub(e) => ~Suppressed(r)
      BY <1>3 DEF AsksForSilence
    <3>2. /\ [c EXCEPT !.suppress_pos_resp = FALSE] \in Ctx
          /\ ~[c EXCEPT !.suppress_pos_resp = FALSE].suppress_pos_resp
      BY DEF Ctx
    <3>3. d = c \/ (has_sub(e) /\ d = [c EXCEPT !.suppress_pos_resp = Suppressed(r)])
      BY DEF LatchSuppress
    <3>4. has_sub(e) => Suppressed(r) = FALSE
      BY <3>1 DEF Suppressed
    <3> QED
      BY <3>2, <3>3, <3>4
  <2>1. CASE nrc # 0
    <3>1. q = uds_send_nrc(d, r.sid, nrc)
      BY <1>3, <2>1 DEF handle_request
    <3> HIDE DEF d, nrc, q
    <3> QED
      BY <1>1, <2>0, <3>1, NrcSpeaks
  <2>2. CASE nrc = 0
    <3>1. q = execute_handler(e, d, p, r, a, t)
      BY <1>3, <2>2 DEF handle_request
    <3> HIDE DEF d, nrc, q
    <3>2. CASE Services(r.sid) # {}
      <4>1. e.user
        BY <3>2, ConfigAssumption DEF find_service, Services
      <4> HIDE DEF e
      <4>2. CASE user_handler(d, r, a, t) =
                   [ctx |-> d, out |-> <<Call(r.sid, 0)>>, ret |-> "pending"]
        <5>1. q = AwaitApplication(d, r, t, <<Call(r.sid, 0)>>)
          BY <3>1, <4>1, <4>2 DEF execute_handler
        <5> QED
          BY <1>1, <2>0, <5>1, AwaitSpeaks
      <4>3. CASE Speaks(user_handler(d, r, a, t)) /\ user_handler(d, r, a, t).ret = "done"
        <5>1. q = user_handler(d, r, a, t)
          BY <3>1, <4>1, <4>3 DEF execute_handler
        <5> QED
          BY <4>3, <5>1
      <4> QED
        BY <2>0, <4>2, <4>3, UserSpeaks
    <3>3. CASE Services(r.sid) = {}
      <4>1. \E f \in core_services : f.sid = r.sid
        BY <1>3, <3>3 DEF Known, Services
      <4>2. e \in core_services /\ e.sid = r.sid
        BY <3>3, <4>1 DEF find_service
      <4>3. ~e.user
        BY <4>2 DEF core_services, CoreService
      <4>4. r.sid \in Noting => has_sub(e)
        <5> HIDE DEF e
        <5> QED
          BY <4>2 DEF Noting, has_sub, core_services, CoreService, ECU_RESET, SESSION_CONTROL,
             CLEAR_DTC, READ_DTC_INFO, READ_DATA_BY_ID, READ_MEM_BY_ADDR, SECURITY_ACCESS,
             COMM_CONTROL, AUTHENTICATION, READ_BY_PER_ID, WRITE_DATA_BY_ID,
             IO_CONTROL_BY_ID, ROUTINE_CONTROL, REQUEST_DOWNLOAD, REQUEST_UPLOAD,
             TRANSFER_DATA, TRANSFER_EXIT, WRITE_MEM_BY_ADDR, TESTER_PRESENT,
             CONTROL_DTC_SETTING
      <4>5. r.sid \in Noting => ~Suppressed(r)
        BY <1>3, <4>4 DEF AsksForSilence
      <4> HIDE DEF e
      <4>6. Speaks(core_handler(d, p, r, a, t))
        BY <2>0, <4>1, <4>5, CoreSpeaks
      <4>7. core_handler(d, p, r, a, t).ret = "done"
        BY <2>0, <4>1, CoreCases, SafeSessionControl, SafeSecurityAccess DEF Quiet, Calm
      <4>8. q = core_handler(d, p, r, a, t)
        BY <3>1, <4>3, <4>7 DEF execute_handler
      <4> QED
        BY <4>6, <4>8
    <3> QED
      BY <3>2, <3>3
  <2> QED
    BY <2>1, <2>2
<1> QED
  BY <1>2, <1>3

\* Every request that the stack dispatches is answered, unless it asks for
\* silence or an earlier one left the suppress flag set: no error path of any
\* handler forgets the response, and none is too long for the buffer.
THEOREM RepliesAtAll == Roomy => (Spec => []Answered)
<1> SUFFICES ASSUME Roomy PROVE Spec => []Answered
  OBVIOUS
<1>1. Init => Answered
  BY DEF Init, Answered, NoHistory
<1>2. ASSUME IInv, Answered, [Next]_vars
      PROVE  Answered'
  <2>1. ASSUME NEW r \in Requests, NEW a \in Answers, InputSdu(r, a)
        PROVE  Answered'
    <3>1. out' = uds_input_sdu(ctx, per, r, a, now).out /\ hist'.due = DueFor(ctx, r)
      BY <1>2, <2>1, InputFacts
    <3> SUFFICES ASSUME DueFor(ctx, r) = "must" PROVE Responses(out') # {}
      BY <3>1 DEF Answered
    <3>2. /\ r.len # 0 /\ ~ctx.p2_msg_pending /\ ~IsResponse(ctx, r)
          /\ ~ctx.suppress_pos_resp /\ ~(Known(r.sid) /\ AsksForSilence(r))
      BY DEF DueFor
    <3>3. r \in Request /\ a \in Answer /\ Fits(a)
      BY EnvironmentAssumption DEF Roomy, Fits
    <3> DEFINE c1 == [ctx EXCEPT !.last_msg_time = now]
               c2 == [c1 EXCEPT !.p2_timer_start = now, !.p2_msg_pending = FALSE,
                                !.p2_star_active = FALSE, !.rcrrp_count = 0]
    <3>4. ctx \in Ctx /\ now \in Time
      BY <1>2 DEF IInv, TypeOK
    <3>5. c2 \in Ctx /\ ~c2.suppress_pos_resp
      <4>1. 0 \in 0 .. RCRRP_MOD - 1
        BY TimingAssumption
      <4>2. c1 \in Ctx /\ ~c1.suppress_pos_resp
        BY <3>2, <3>4 DEF Ctx
      <4> HIDE DEF c1
      <4> QED
        BY <3>4, <4>1, <4>2 DEF Ctx
    <3>6. uds_input_sdu(ctx, per, r, a, now) = handle_request(c2, per, r, a, now)
      BY <3>2 DEF uds_input_sdu
    <3> HIDE DEF c2
    <3>7. \E i \in DOMAIN out' : out'[i].k \in {"pos", "neg"}
      BY <3>1, <3>2, <3>3, <3>4, <3>5, <3>6, RequestSpeaks
    <3> QED
      BY <3>7 DEF Responses
  <2>2. ASSUME NEW has \in BOOLEAN, Process(has) PROVE hist'.due = "none"
    BY <1>2, <2>2, ProcessFacts
  <2>3. Aside => hist'.due = "none"
    BY DEF Aside
  <2>4. Restart \/ Tick => hist'.due = "none"
    BY <1>2, RestartFacts, TickFacts
  <2>5. hist'.due = "none" => Answered'
    BY DEF Answered
  <2>6. CASE UNCHANGED vars
    BY <1>2, <2>6 DEF vars, Answered, Responses
  <2>7. CASE Next
    BY <1>2, <2>1, <2>2, <2>3, <2>4, <2>5, <2>7, AnswerFacts, AskFacts DEF Next
  <2> QED
    BY <1>2, <2>6, <2>7
<1> QED
  BY <1>1, <1>2, Invariance, PTL DEF Spec

-----------------------------------------------------------------------------
(* The client role *)

\* No service of this server waits for the application: such a wait stores its
\* SID in pending_sid, which the client role uses for its request.
NeverWaits == UserServices = {} \/ \A a \in Answers : a.res # UDS_PENDING

\* What the callback is armed for is the request that was sent last.
ArmedFor == ctx.client_cb => ctx.pending_sid = hist.asked

\* The events of a step without a request and a callback.
LEMMA NothingAsked ==
  ASSUME NEW events, NEW before,
         \A i \in DOMAIN events : events[i].k \notin {"req", "cb"}
  PROVE  AskedAfter(events, before) = before
BY DEF AskedAfter

\* Every step keeps what the callback is armed for, and calls back for it only.
LEMMA ArmedStep ==
  ASSUME NeverWaits, IInv, ArmedFor, [Next]_vars
  PROVE  /\ ArmedFor'
         /\ \/ UNCHANGED vars
            \/ \A i \in DOMAIN out' : out'[i].k = "cb" =>
                 \/ out'[i].sid = PositiveSid(hist.asked)
                 \/ out'[i].sid = SERVICE_NOT_SUPP_IN_SESS /\ out'[i].v = hist.asked
<1> DEFINE Calls ==
      \A i \in DOMAIN out' : out'[i].k = "cb" =>
        \/ out'[i].sid = PositiveSid(hist.asked)
        \/ out'[i].sid = SERVICE_NOT_SUPP_IN_SESS /\ out'[i].v = hist.asked
<1>1. ASSUME NEW r \in Requests, NEW a \in Answers, InputSdu(r, a)
      PROVE  ArmedFor' /\ Calls
  <2> DEFINE o == uds_input_sdu(ctx, per, r, a, now)
  <2>1. /\ r \in Request /\ a \in Answer /\ ctx' = o.ctx /\ out' = o.out
        /\ KeepsClient(ctx, r, a, o) /\ hist'.asked = AskedAfter(out', hist.asked)
    BY <1>1, InputFacts DEF Recorded
  <2> HIDE DEF o
  <2>2. CASE IsResponse(ctx, r) /\ ~o.ctx.client_cb
             /\ \A i \in DOMAIN o.out : ctx.client_cb
                  /\ (o.out[i] = Cb(r) \/ (a.chain # 0 /\ o.out[i] = Asked(a.chain)))
    <3>1. /\ Cb(r).sid = r.sid /\ \A s : Asked(s).k = "req"
          /\ r.sid = SERVICE_NOT_SUPP_IN_SESS => Cb(r).v = r.b1
      BY <2>1 DEF Cb, Asked
    <3>2. ASSUME NEW i \in DOMAIN out', out'[i].k = "cb"
          PROVE  \/ out'[i].sid = PositiveSid(hist.asked)
                 \/ out'[i].sid = SERVICE_NOT_SUPP_IN_SESS /\ out'[i].v = hist.asked
      <4>1. out'[i] = Cb(r) /\ ctx.client_cb
        BY <2>1, <2>2, <3>1, <3>2
      <4>2. ctx.pending_sid = hist.asked
        BY <4>1 DEF ArmedFor
      <4> QED
        BY <2>2, <3>1, <4>1, <4>2 DEF IsResponse
    <3> QED
      BY <2>1, <2>2, <3>2 DEF ArmedFor
  <2>3. CASE /\ \A i \in DOMAIN o.out : o.out[i].k \notin {"req", "cb"}
             /\ o.ctx.client_cb = ctx.client_cb
             /\ \/ o.ctx.pending_sid = ctx.pending_sid
                \/ a.res = UDS_PENDING /\ UserServices # {}
    <3>1. hist'.asked = hist.asked
      BY <2>1, <2>3, NothingAsked
    <3> QED
      BY <2>1, <2>3, <3>1 DEF ArmedFor, NeverWaits
  <2> QED
    BY <2>1, <2>2, <2>3 DEF KeepsClient
<1>2. ASSUME ctx'.client_cb = ctx.client_cb, ctx'.pending_sid = ctx.pending_sid,
             \A i \in DOMAIN out' : out'[i].k \notin {"req", "cb"},
             hist'.asked = AskedAfter(out', hist.asked)
      PROVE  ArmedFor' /\ Calls
  <2>1. hist'.asked = hist.asked
    BY <1>2, NothingAsked
  <2> QED
    BY <1>2, <2>1 DEF ArmedFor
<1>3. ASSUME NEW has \in BOOLEAN, Process(has)
      PROVE  ArmedFor' /\ Calls
  <2>1. ctx \in Ctx /\ now \in Time
    BY DEF IInv, TypeOK
  <2>2. /\ ctx'.client_cb = ctx.client_cb /\ ctx'.pending_sid = ctx.pending_sid
        /\ hist'.asked = AskedAfter(out', hist.asked)
        /\ \A i \in DOMAIN out' : out'[i].k \notin {"req", "cb"}
    BY <1>3, <2>1, ProcessFacts, ProcessInOrder, ProcessSaysNoLock DEF Recorded
  <2> QED
    BY <1>2, <2>2
<1>4. ASSUME NEW sid \in jobs,
             AppReject(sid) \/ \E len \in {2, TX_SIZE + 1} : AppRespond(sid, len)
      PROVE  ArmedFor' /\ Calls
  BY <1>2, <1>4, AnswerFacts DEF Aside, Recorded
<1>5. ASSUME NEW sid \in ClientSids, ClientRequest(sid)
      PROVE  ArmedFor' /\ Calls
  <2>1. /\ ctx'.pending_sid = sid /\ out' = <<Asked(sid)>>
        /\ hist'.asked = AskedAfter(out', hist.asked)
    BY <1>5, AskFacts DEF Aside, Recorded
  <2>2. Asked(sid).k = "req" /\ Asked(sid).sid = sid
    BY DEF Asked
  <2>3. hist'.asked = sid
    BY <2>1, <2>2 DEF AskedAfter
  <2> QED
    BY <2>1, <2>2, <2>3 DEF ArmedFor
<1>6. ASSUME Restart PROVE ArmedFor' /\ Calls
  BY <1>6, RestartFacts DEF ArmedFor, Boot
<1>7. ASSUME Tick PROVE ArmedFor' /\ Calls
  BY <1>7, TickFacts DEF ArmedFor
<1>8. CASE UNCHANGED vars
  BY <1>8 DEF vars, ArmedFor
<1>9. CASE Next
  BY <1>1, <1>3, <1>4, <1>5, <1>6, <1>7, <1>9 DEF Next
<1> QED
  BY <1>8, <1>9

\* As long as no service waits for the application, every callback is called
\* with a response to the request it was given for, also when a callback asks
\* again or a later request replaces an earlier one.
THEOREM CallbacksMatch == NeverWaits => (Spec => CallbackMatches)
<1> SUFFICES ASSUME NeverWaits PROVE Spec => CallbackMatches
  OBVIOUS
<1> DEFINE Calls ==
      \A i \in DOMAIN out' : out'[i].k = "cb" =>
        \/ out'[i].sid = PositiveSid(hist.asked)
        \/ out'[i].sid = SERVICE_NOT_SUPP_IN_SESS /\ out'[i].v = hist.asked
<1>1. Init => ArmedFor
  BY DEF Init, ArmedFor, uds_init
<1>2. IInv /\ ArmedFor /\ [Next]_vars => ArmedFor' /\ [Calls]_vars
  BY ArmedStep
<1> QED
  BY <1>1, <1>2, Invariance, PTL DEF Spec, CallbackMatches
=============================================================================
