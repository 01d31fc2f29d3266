----------------------------- MODULE IsoTpLink -----------------------------
(***************************************************************************)
(* Two nodes that speak ISO-TP over a CAN bus: each sends messages of its  *)
(* own, answers what it receives from within the reception callback, runs  *)
(* uds_tp_isotp_process in its main loop, and may find the bus busy.       *)
(* Frames keep their order; some may be lost, or arrive twice.             *)
(***************************************************************************)
EXTENDS IsoTp

CONSTANTS
  Node,        \* the two ends
  Own,         \* Own[n]: the messages n may send, each once
  BLOCK_SIZE,  \* BLOCK_SIZE[n]: what n may announce at first ({8} in the code)
  ST_MIN,      \* ST_MIN[n]: likewise ({0} in the code)
  QUEUE,       \* frames the bus holds; can_send fails when it is full
  MAX_FAULTS,  \* frames that may be lost or doubled in all
  LOSE_FIRST   \* whether first frames too may be lost or refused by can_send

ASSUME LinkAssumption ==
  /\ Own \in [Node -> SUBSET Msg]
  /\ BLOCK_SIZE \in [Node -> SUBSET BsByte] /\ ST_MIN \in [Node -> SUBSET BsByte]
  /\ QUEUE \in Nat \ {0} /\ MAX_FAULTS \in Nat /\ LOSE_FIRST \in BOOLEAN

VARIABLES
  iso,        \* g_isotp_ctx of each node
  bus,        \* bus[n]: frames on their way to n
  now,        \* the millisecond counter (both loops see the same)
  sent,       \* messages handed to uds_isotp_send, in order
  delivered,  \* SDUs handed to uds_input_sdu, in order
  faults,     \* number of frames lost or doubled
  block,      \* consecutive frames sent since the last flow control
  since       \* ticks since the last consecutive frame

tpvars == <<iso, bus, now, sent, delivered, faults, block, since>>

Peer(n) == CHOOSE p \in Node : p # n
CanSend(n) == Len(bus[Peer(n)]) < QUEUE

\* Contexts in which n may start.
Booted(n) == {uds_tp_isotp_init(bs, st) : bs \in BLOCK_SIZE[n], st \in ST_MIN[n]}

TpInit ==
  /\ iso \in [Node -> UNION {Booted(n) : n \in Node}]
  /\ \A n \in Node : iso[n] \in Booted(n)
  /\ bus = [n \in Node |-> <<>>]
  /\ now \in TpTime
  /\ sent = [n \in Node |-> <<>>] /\ delivered = [n \in Node |-> <<>>]
  /\ faults = 0
  /\ block = [n \in Node |-> 0]
  /\ since = [n \in Node |-> TP_TIME_MOD]

Unsent(n) == {m \in Own[n] : \A i \in DOMAIN sent[n] : sent[n][i] # m}

\* The frames a call of n hands to can_send; they are dropped when it fails.
Put(b, n, frames) ==
  [b EXCEPT ![Peer(n)] = IF CanSend(n) THEN @ \o frames ELSE @]

\* Whether the bus takes what an application sends.
Takes(n, m) == m.len > MAX_SF /\ ~LOSE_FIRST => CanSend(n)

\* The application sends a message at a moment of its own choosing (a client
\* request, a periodic message, the answer of an asynchronous service).
SendMsg(n, m) ==
  LET o == uds_isotp_send(iso[n], m)
  IN  /\ m \in Unsent(n) /\ Takes(n, m)
      /\ iso' = [iso EXCEPT ![n] = o.iso]
      /\ bus' = Put(bus, n, o.frames)
      /\ sent' = [sent EXCEPT ![n] = Append(@, m)]
      /\ UNCHANGED <<now, delivered, faults, block, since>>

\* The main loop runs uds_tp_isotp_process; in any state but SENDING_CF it
\* does nothing.
ProcessTp(n) ==
  LET o == uds_tp_isotp_process(iso[n], now, CanSend(n))
      cf == o.frames # <<>>
  IN  /\ iso[n].state = ISOTP_TX_SENDING_CF
      /\ iso' = [iso EXCEPT ![n] = o.iso]
      /\ bus' = Put(bus, n, o.frames)
      /\ block' = [block EXCEPT ![n] = IF cf THEN @ + 1 ELSE @]
      /\ since' = [since EXCEPT ![n] = IF cf THEN 0 ELSE @]
      /\ UNCHANGED <<now, sent, delivered, faults>>

\* What the reception callback makes of the next frame for n.
Taken(n) == uds_isotp_rx_callback(iso[n], Head(bus[n]))

\* A frame arrives; after: what the callback has left, an answer included.
Arrive(n, after, answer) ==
  /\ bus[n] # <<>>
  /\ iso' = [iso EXCEPT ![n] = after.iso]
  /\ bus' = Put([bus EXCEPT ![n] = Tail(@)], n, after.frames)
  /\ delivered' = [delivered EXCEPT ![n] = @ \o Taken(n).sdus]
  /\ sent' = [sent EXCEPT ![n] = @ \o answer]
  /\ block' = [block EXCEPT ![n] =
       IF iso[n].state = ISOTP_TX_WAIT_FC /\ Head(bus[n]).k = "FC" THEN 0 ELSE @]
  /\ UNCHANGED <<now, faults, since>>

Receive(n) == bus[n] # <<>> /\ Arrive(n, Taken(n), <<>>)

\* uds_input_sdu answers a complete SDU before it returns.
ReceiveAndAnswer(n, m) ==
  /\ bus[n] # <<>> /\ m \in Unsent(n) /\ Takes(n, m)
  /\ Taken(n).sdus # <<>>
  /\ Arrive(n, uds_isotp_send(Taken(n).iso, m), <<m>>)

Lose(n) ==
  /\ bus[n] # <<>> /\ faults < MAX_FAULTS
  /\ LOSE_FIRST \/ Head(bus[n]).k # "FF"
  /\ bus' = [bus EXCEPT ![n] = Tail(@)]
  /\ faults' = faults + 1
  /\ UNCHANGED <<iso, now, sent, delivered, block, since>>

\* CAN repeats a frame whose end the sender saw disturbed.  (A single frame
\* that comes twice is a message that comes twice; no transport can tell.)
Double(n) ==
  /\ bus[n] # <<>> /\ faults < MAX_FAULTS /\ Len(bus[n]) < QUEUE
  /\ Head(bus[n]).k # "SF"
  /\ bus' = [bus EXCEPT ![n] = <<Head(@)>> \o @]
  /\ faults' = faults + 1
  /\ UNCHANGED <<iso, now, sent, delivered, block, since>>

TpTick ==
  /\ now' = (now + 1) % TP_TIME_MOD
  /\ since' = [n \in Node |-> IF since[n] < TP_TIME_MOD THEN since[n] + 1
                            ELSE since[n]]
  /\ UNCHANGED <<iso, bus, sent, delivered, faults, block>>

TpNext ==
  \/ \E n \in Node, m \in Msg : SendMsg(n, m)
  \/ \E n \in Node : ProcessTp(n)
  \/ \E n \in Node : Receive(n)
  \/ \E n \in Node, m \in Msg : ReceiveAndAnswer(n, m)
  \/ \E n \in Node : Lose(n)
  \/ \E n \in Node : Double(n)
  \/ TpTick

TpSpec == TpInit /\ [][TpNext]_tpvars

\* Time passes, the bus delivers and both main loops run (docs/TRANSPORT.md:
\* uds_tp_isotp_process is called from the main loop).
TpFairSpec ==
  /\ TpSpec
  /\ WF_tpvars(TpTick)
  /\ \A n \in Node : WF_tpvars(ProcessTp(n)) /\ WF_tpvars(Receive(n))

-----------------------------------------------------------------------------
(* Properties *)

\* The context keeps its C types, sequence numbers their four bits and the bus
\* its capacity (uds_isotp_ctx_t).
TpTypeOK ==
  /\ now \in TpTime
  /\ \A n \in Node :
       /\ iso[n].state \in TpStates
       /\ iso[n].sn \in 0 .. SN_MOD - 1
       /\ iso[n].bs_counter \in BsByte /\ iso[n].block_size \in BsByte
       /\ iso[n].st_min \in BsByte /\ iso[n].timer_st \in TpTime
       /\ iso[n].msg_len \in Nat /\ iso[n].bytes_processed \in Nat
       /\ Len(bus[n]) <= QUEUE

\* What the upper layer is promised.
Service == INSTANCE TpService
             WITH Node <- Node, Msg <- Msg, Content <- Content,
                  sent <- sent, delivered <- delivered

\* What uds_input_sdu gets is the whole of a message the peer sent, in order
\* and only once, whatever messages collide, abort or overtake one another, and
\* whichever consecutive and flow control frames are lost, doubled or refused by
\* can_send.  First frames are neither lost nor refused where LOSE_FIRST is
\* FALSE, as in the run and the theorem; with TRUE this fails.
ServiceKept == Service!ServiceSpec

\* Between two flow control frames a node sends no more consecutive frames
\* than the first of them allows, over as many messages as it takes
\* (bs_counter in uds_tp_isotp_process).
FlowControlled ==
  \A n \in Node : iso[n].block_size > 0 => block[n] <= iso[n].block_size

\* Consecutive frames are at least the separation time apart, across aborted
\* messages and the wrap of the counter (timer_st in uds_tp_isotp_process).
SeparationKept ==
  [][\A n \in Node : block'[n] = block[n] + 1 =>
       since[n] >= RequiredSt(iso[n].st_min)]_tpvars

\* A message that is sent arrives (docs/TRANSPORT.md: a transfer of several
\* blocks goes on with the flow control frame after each block).
Delivery ==
  \A n \in Node, m \in Msg :
    (\E i \in DOMAIN sent[n] : sent[n][i] = m) ~>
      (\E i \in DOMAIN delivered[Peer(n)] : delivered[Peer(n)][i] = Content(m))
=============================================================================
