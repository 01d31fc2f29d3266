------------------------------- MODULE IsoTp -------------------------------
(***************************************************************************)
(* One node of the ISO-TP fallback transport (uds_tp_isotp.c), as functions *)
(* from its context to the context and the frame that a call leaves behind. *)
(* A byte of a message is the pair of the message and its position, so that *)
(* a reassembled SDU tells where each of its bytes came from.               *)
(***************************************************************************)
EXTENDS Integers, Sequences

CONSTANTS
  MAX_SF,     \* bytes a single frame carries (7, CAN-FD 62)
  MAX_FF,     \* bytes a first frame carries (6, CAN-FD 62)
  MAX_CF,     \* bytes a consecutive frame carries (7, CAN-FD 63)
  MIN_FF,      \* shortest message accepted in a first frame (8)
  SN_MOD,      \* sequence numbers (16)
  TX_BUF,      \* sizeof(g_pending_tx_sdu) (1024)
  RX_BUF,      \* config->rx_buffer_size
  TP_TIME_MOD, \* the millisecond counter wraps
  Msg          \* messages: records with a length

ASSUME IsoTpAssumption ==
  /\ MAX_SF \in Nat \ {0} /\ MAX_FF \in Nat \ {0} /\ MAX_CF \in Nat \ {0}
  /\ MIN_FF \in Nat /\ MIN_FF <= MAX_SF + 1 /\ MAX_FF <= MAX_SF
  /\ SN_MOD \in Nat \ {0, 1}
  /\ TX_BUF \in Nat /\ RX_BUF \in Nat
  /\ TP_TIME_MOD \in Nat \ {0, 1}
  /\ \A m \in Msg : m.len \in Nat

TpTime == 0 .. TP_TIME_MOD - 1
BsByte == 0 .. 255

ISOTP_IDLE == "idle"
ISOTP_RX_WAIT_CF == "rx_wait_cf"
ISOTP_TX_WAIT_FC == "tx_wait_fc"
ISOTP_TX_SENDING_CF == "tx_sending_cf"
TpStates == {ISOTP_IDLE, ISOTP_RX_WAIT_CF, ISOTP_TX_WAIT_FC, ISOTP_TX_SENDING_CF}

-----------------------------------------------------------------------------
(* Frames *)

Pad == <<"pad", 0>>

\* Bytes from + 1 .. from + n of message m, padded to a full frame.
Bytes(m, from, n) ==
  [i \in 1 .. n |-> IF from + i <= m.len THEN <<m, from + i>> ELSE Pad]

\* The whole of m, as the receiver's uds_input_sdu should see it.
Content(m) == Bytes(m, 0, m.len)

Sf(m) == [k |-> "SF", len |-> m.len, data |-> Bytes(m, 0, MAX_SF)]
Ff(m) == [k |-> "FF", len |-> m.len, data |-> Bytes(m, 0, MAX_FF)]
Cf(sn, m, from) == [k |-> "CF", sn |-> sn, data |-> Bytes(m, from, MAX_CF)]
Fc(bs, st) == [k |-> "FC", fs |-> "CTS", bs |-> bs, st |-> st]

-----------------------------------------------------------------------------
(* Context: TX and RX share state, msg_len, bytes_processed and sn. *)

NoTx == [len |-> 0]

\* uds_tp_isotp_init sets block_size 8 and st_min 0.
uds_tp_isotp_init(bs, st) ==
  [state |-> ISOTP_IDLE, msg_len |-> 0, bytes_processed |-> 0, sn |-> 0,
   bs_counter |-> 0, block_size |-> bs, st_min |-> st, timer_st |-> 0,
   pending_tx |-> NoTx, rx_buffer |-> <<>>]

\* What a call leaves behind: the context, the frame it asks can_send to send
\* and the SDU it hands to uds_input_sdu (each at most one).
Left(iso, frames, sdus) == [iso |-> iso, frames |-> frames, sdus |-> sdus]

-----------------------------------------------------------------------------
(* Sending *)

\* A single frame does not touch the context: it may go out at any time.
uds_send_sf(iso, m) == Left(iso, <<Sf(m)>>, <<>>)

\* The context is set up before can_send is tried, whatever it was doing.
uds_send_mf(iso, m) ==
  IF m.len > TX_BUF THEN Left(iso, <<>>, <<>>)
  ELSE Left([iso EXCEPT !.pending_tx = m, !.msg_len = m.len,
                        !.bytes_processed = MAX_FF, !.sn = 1,
                        !.state = ISOTP_TX_WAIT_FC],
            <<Ff(m)>>, <<>>)

uds_isotp_send(iso, m) ==
  IF m.len <= MAX_SF THEN uds_send_sf(iso, m) ELSE uds_send_mf(iso, m)

\* STmin in milliseconds: 0xF1 .. 0xF9 are fractions of one, the rest reserved.
RequiredSt(st) ==
  IF st \in 241 .. 249 THEN 1 ELSE IF st > 127 THEN 0 ELSE st

\* Variant: the separation time as a wrapped deadline.
TooEarly_deadline(iso, t) ==
  t < (iso.timer_st + RequiredSt(iso.st_min)) % TP_TIME_MOD

TooEarly(iso, t) ==
  (t - iso.timer_st) % TP_TIME_MOD < RequiredSt(iso.st_min)

\* Variant: a block of one frame more.
BlockDone_late(iso) == iso.block_size > 0 /\ iso.bs_counter > iso.block_size

BlockDone(iso) == iso.block_size > 0 /\ iso.bs_counter >= iso.block_size

\* Variant: the sequence number is not masked.
CfSent_wide(iso, t) ==
  [iso EXCEPT !.bytes_processed = @ + MAX_CF, !.sn = @ + 1, !.timer_st = t]

\* can_send accepted the consecutive frame.
CfSent(iso, t) ==
  LET done == iso.bytes_processed + MAX_CF >= iso.msg_len
  IN  [iso EXCEPT !.bytes_processed = IF done THEN iso.msg_len ELSE @ + MAX_CF,
                  !.sn = (@ + 1) % SN_MOD,
                  !.bs_counter = (@ + 1) % 256,
                  !.timer_st = t,
                  !.state = IF done THEN ISOTP_IDLE ELSE @]

\* uds_tp_isotp_process; ok: can_send succeeds.
uds_tp_isotp_process(iso, t, ok) ==
  IF iso.state # ISOTP_TX_SENDING_CF THEN Left(iso, <<>>, <<>>)
  ELSE IF iso.msg_len = iso.bytes_processed
  THEN Left([iso EXCEPT !.state = ISOTP_IDLE], <<>>, <<>>)
  ELSE IF TooEarly(iso, t) THEN Left(iso, <<>>, <<>>)
  ELSE IF BlockDone(iso)
  THEN Left([iso EXCEPT !.state = ISOTP_TX_WAIT_FC, !.bs_counter = 0], <<>>, <<>>)
  ELSE IF ~ok THEN Left(iso, <<>>, <<>>)
  ELSE Left(CfSent(iso, t), <<Cf(iso.sn, iso.pending_tx, iso.bytes_processed)>>, <<>>)

-----------------------------------------------------------------------------
(* Receiving *)

\* A single frame aborts whatever the node was doing, sending included.
uds_rx_sf(iso, f) ==
  Left([iso EXCEPT !.state = ISOTP_IDLE], <<>>,
       IF f.len = 0 \/ f.len > Len(f.data) THEN <<>>
       ELSE <<SubSeq(f.data, 1, f.len)>>)

\* One flow control frame per message; the result of can_send is not looked at.
uds_rx_ff(iso, f) ==
  LET idle == [iso EXCEPT !.state = ISOTP_IDLE]
      ready == [iso EXCEPT !.msg_len = f.len, !.bytes_processed = Len(f.data),
                           !.sn = 1, !.state = ISOTP_RX_WAIT_CF]
  IN  IF f.len < MIN_FF THEN Left(idle, <<>>, <<>>)
      ELSE IF RX_BUF < f.len
      THEN Left([ready EXCEPT !.state = ISOTP_IDLE], <<>>, <<>>)
      ELSE Left([ready EXCEPT !.rx_buffer = f.data],
                <<Fc(iso.block_size, iso.st_min)>>, <<>>)

\* Variant: the sequence number is not compared.
OutOfSequence_never(iso, f) == FALSE

OutOfSequence(iso, f) == f.sn # iso.sn

uds_rx_cf(iso, f) ==
  LET remaining == (iso.msg_len - iso.bytes_processed) % 65536
      to_copy == IF remaining > Len(f.data) THEN Len(f.data) ELSE remaining
      got == SubSeq(iso.rx_buffer, 1, iso.bytes_processed) \o SubSeq(f.data, 1, to_copy)
      next == [iso EXCEPT !.sn = (@ + 1) % SN_MOD, !.rx_buffer = got,
                          !.bytes_processed = @ + to_copy]
  IN  IF iso.state # ISOTP_RX_WAIT_CF THEN Left(iso, <<>>, <<>>)
      ELSE IF OutOfSequence(iso, f)
      THEN Left([iso EXCEPT !.state = ISOTP_IDLE], <<>>, <<>>)
      ELSE IF next.bytes_processed >= iso.msg_len
      THEN Left([next EXCEPT !.state = ISOTP_IDLE], <<>>, <<got>>)
      ELSE Left(next, <<>>, <<>>)

\* The peer's block size and separation time replace the node's own.
uds_rx_fc(iso, f) ==
  Left(IF iso.state = ISOTP_TX_WAIT_FC /\ f.fs = "CTS"
       THEN [iso EXCEPT !.state = ISOTP_TX_SENDING_CF,
                        !.block_size = f.bs, !.st_min = f.st]
       ELSE iso, <<>>, <<>>)

uds_isotp_rx_callback(iso, f) ==
  CASE f.k = "SF" -> uds_rx_sf(iso, f)
    [] f.k = "FF" -> uds_rx_ff(iso, f)
    [] f.k = "CF" -> uds_rx_cf(iso, f)
    [] f.k = "FC" -> uds_rx_fc(iso, f)
=============================================================================
