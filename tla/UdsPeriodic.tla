---------------------------- MODULE UdsPeriodic ----------------------------
(***************************************************************************)
(* ReadDataByPeriodicIdentifier (0x2A): the slot table of uds_ctx_t        *)
(* (periodic_ids, periodic_rates, periodic_timers, periodic_count), the    *)
(* request that fills it and the scheduler that uds_process runs over it.  *)
(* The rest of the stack neither reads nor writes these fields.            *)
(***************************************************************************)
EXTENDS UdsTypes

CONSTANTS
  SLOTS,       \* length of the periodic_* arrays: 8 in the code
  COUNT_MOD,   \* periodic_count is a uint8_t: 2^8
  Interval     \* transmission mode (1 fast, 2 medium, 3 slow) -> milliseconds

ASSUME PeriodicAssumption ==
  /\ SLOTS \in Nat \ {0}
  /\ COUNT_MOD \in Nat /\ COUNT_MOD > SLOTS
  /\ Interval \in [1 .. 3 -> Nat]

Slot == 1 .. SLOTS
FirstOf(S) == CHOOSE j \in S : \A k \in S : j <= k

Periodic == [ids: [Slot -> Byte], rates: [Slot -> 0 .. 3], timers: [Slot -> Time],
             count: 0 .. COUNT_MOD - 1]

NoPeriodic == [ids |-> [j \in Slot |-> 0], rates |-> [j \in Slot |-> 0],
               timers |-> [j \in Slot |-> 0], count |-> 0]

STOP == 4
Mode(r) == r.b1 % 16

\* memset clears the identifiers only: rates and timers keep their values.
StopAll(p) == [p EXCEPT !.ids = [j \in Slot |-> 0], !.count = 0]

\* Variant: the counter is left alone.
StopOne_keeps_count(p, id) ==
  [p EXCEPT !.ids = [j \in Slot |-> IF p.ids[j] = id THEN 0 ELSE p.ids[j]]]

\* Every slot that holds id is freed, and the counter follows each of them.
StopOne(p, id) ==
  LET hit == {j \in Slot : p.ids[j] = id}
  IN  [p EXCEPT !.ids = [j \in Slot |-> IF j \in hit THEN 0 ELSE p.ids[j]],
                !.count = (@ - Cardinality(hit)) % COUNT_MOD]

StopListed(p, ids) ==
  LET q[i \in 0 .. Len(ids)] == IF i = 0 THEN p ELSE StopOne(q[i - 1], ids[i])
  IN  q[Len(ids)]

\* Variant: an identifier that is already scheduled takes another slot.
AddOne_again(s, id, mode, t) ==
  LET p == s.p
      free == {j \in Slot : p.ids[j] = 0}
      i == FirstOf(free)
  IN  IF free = {} THEN [s EXCEPT !.full = TRUE]
      ELSE [s EXCEPT !.p = [ids |-> [p.ids EXCEPT ![i] = id],
                            rates |-> [p.rates EXCEPT ![i] = mode],
                            timers |-> [p.timers EXCEPT ![i] = t],
                            count |-> p.count + 1]]

\* Variant: a full table makes room in its first slot.
AddOne_evicts(s, id, mode, t) ==
  LET free == {j \in Slot : s.p.ids[j] = 0}
      i == IF free = {} THEN 1 ELSE FirstOf(free)
  IN  IF \E j \in Slot : s.p.ids[j] = id THEN s
      ELSE [s EXCEPT !.p.ids[i] = id, !.p.timers[i] = t,
                     !.p.count = IF free = {} THEN @ ELSE @ + 1]

\* One identifier of an add request, s = [p, full]: a known one changes its
\* rate, a new one takes the first free slot; a full table ends the loop.
AddOne(s, id, mode, t) ==
  LET p == s.p
      known == {j \in Slot : p.ids[j] = id}
      free == {j \in Slot : p.ids[j] = 0}
      i == FirstOf(free)
  IN  IF s.full THEN s
      ELSE IF known # {} THEN [s EXCEPT !.p.rates[FirstOf(known)] = mode]
      ELSE IF p.count >= SLOTS THEN [s EXCEPT !.full = TRUE]
      ELSE IF free = {} THEN s
      ELSE [s EXCEPT !.p = [ids |-> [p.ids EXCEPT ![i] = id],
                            rates |-> [p.rates EXCEPT ![i] = mode],
                            timers |-> [p.timers EXCEPT ![i] = t],
                            count |-> (p.count + 1) % COUNT_MOD]]

AddAll(p, r, t) ==
  LET s[i \in 0 .. Len(r.ids)] ==
        IF i = 0 THEN [p |-> p, full |-> FALSE]
        ELSE AddOne(s[i - 1], r.ids[i], Mode(r), t)
  IN  s[Len(r.ids)]

\* The table after a 0x2A request, and the NRC it is answered with (0 = none).
handle_periodic_read(p, r, t) ==
  IF Mode(r) = STOP
  THEN IF r.len = 2 THEN StopAll(p) ELSE StopListed(p, r.ids)
  ELSE IF Mode(r) \in 1 .. 3 THEN AddAll(p, r, t).p
  ELSE p

PeriodicNrc(p, r, t) ==
  IF Mode(r) = STOP THEN 0
  ELSE IF Mode(r) \notin 1 .. 3 THEN REQUEST_OUT_OF_RANGE
  ELSE IF AddAll(p, r, t).full THEN RESPONSE_TOO_LONG
  ELSE 0

\* The deadline is an absolute time.
Due(p, t) ==
  {j \in Slot : p.count > 0 /\ p.ids[j] # 0 /\ t >= p.timers[j]}

IntervalOf(rate) == IF rate \in {1, 2} THEN Interval[rate] ELSE Interval[3]

\* uds_process: every due slot is rearmed, and sent if fn_periodic_read
\* delivered data (has).
schedule(p, t) ==
  [p EXCEPT !.timers = [j \in Slot |->
      IF j \in Due(p, t) THEN (t + IntervalOf(p.rates[j])) % TIME_MOD
                         ELSE p.timers[j]]]

periodic_tx(p, has, t) == {p.ids[j] : j \in {i \in Due(p, t) : has}}
=============================================================================
