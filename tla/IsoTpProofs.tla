---------------------------- MODULE IsoTpProofs ----------------------------
(***************************************************************************)
(* Theorems about IsoTpLink, for every frame size, block size, separation  *)
(* time, queue length, set of messages and number of faults; and that the  *)
(* link implements TpService, with fewer faults than sequence numbers.     *)
(***************************************************************************)
EXTENDS IsoTpLink, WrapLemmas, SequenceTheorems

-----------------------------------------------------------------------------
(* Types *)

Octet == {Pad} \cup ((Msg \cup {NoTx}) \X Nat)

\* A first frame never carries more than the length it announces.
FirstFrames ==
  {f \in [k: {"FF"}, len: Nat, data: Seq(Octet)] : Len(f.data) <= f.len}

Frames ==
  [k: {"SF"}, len: Nat, data: Seq(Octet)] \cup FirstFrames
    \cup [k: {"CF"}, sn: 0 .. SN_MOD - 1, data: Seq(Octet)]
    \cup [k: {"FC"}, fs: {"CTS"}, bs: BsByte, st: BsByte]

IsoCtx ==
  [state: TpStates, msg_len: Nat, bytes_processed: Nat, sn: 0 .. SN_MOD - 1,
   bs_counter: BsByte, block_size: BsByte, st_min: BsByte, timer_st: TpTime,
   pending_tx: Msg \cup {NoTx}, rx_buffer: Seq(Octet)]

AtMostOne == {<<>>} \cup {<<f>> : f \in Frames}

\* While a node reassembles, its buffer holds what it has counted, within the
\* length announced by the first frame, within the buffer (uds_rx_ff, uds_rx_cf).
Reassembly(i) ==
  i.state = ISOTP_RX_WAIT_CF =>
    /\ Len(i.rx_buffer) = i.bytes_processed
    /\ i.bytes_processed <= i.msg_len
    /\ i.msg_len <= RX_BUF

Good(i) == i \in IsoCtx /\ Reassembly(i)

\* A context that goes on sending under the flow control it had before.
SameBlock(i, j) ==
  /\ j.block_size = i.block_size
  /\ j.state = ISOTP_TX_SENDING_CF =>
       i.state = ISOTP_TX_SENDING_CF /\ j.bs_counter = i.bs_counter

-----------------------------------------------------------------------------
(* Frames *)

\* The payload of a frame is a sequence of octets of the frame's size.
LEMMA BytesType ==
  ASSUME NEW m \in Msg \cup {NoTx}, NEW from \in Nat, NEW n \in Nat
  PROVE  Bytes(m, from, n) \in Seq(Octet) /\ Len(Bytes(m, from, n)) = n
<1>1. \A i \in 1 .. n : (IF from + i <= m.len THEN <<m, from + i>> ELSE Pad) \in Octet
  BY DEF Octet
<1>2. Bytes(m, from, n) \in [1 .. n -> Octet]
  BY <1>1 DEF Bytes
<1> QED
  BY <1>2

\* The frames that the senders compose are frames.
LEMMA SfType ==
  ASSUME NEW m \in Msg
  PROVE  Sf(m) \in Frames
BY BytesType, IsoTpAssumption DEF Sf, Frames

\* A message that needs several frames is longer than what the first carries.
LEMMA FfType ==
  ASSUME NEW m \in Msg, m.len > MAX_SF
  PROVE  Ff(m) \in Frames
<1>1. Bytes(m, 0, MAX_FF) \in Seq(Octet) /\ Len(Bytes(m, 0, MAX_FF)) = MAX_FF
  BY BytesType, IsoTpAssumption
<1>2. m.len \in Nat /\ MAX_FF <= m.len
  BY IsoTpAssumption
<1> QED
  BY <1>1, <1>2 DEF Ff, Frames, FirstFrames

\* So are consecutive frames.
LEMMA CfType ==
  ASSUME NEW m \in Msg \cup {NoTx}, NEW from \in Nat, NEW sn \in 0 .. SN_MOD - 1
  PROVE  Cf(sn, m, from) \in Frames
BY BytesType, IsoTpAssumption DEF Cf, Frames

\* And flow control frames.
LEMMA FcType ==
  ASSUME NEW bs \in BsByte, NEW st \in BsByte
  PROVE  Fc(bs, st) \in Frames
BY DEF Fc, Frames

-----------------------------------------------------------------------------
(* What one call does to one context *)

\* Sending a message leaves a good context and at most one frame; it does not
\* resume a block.
LEMMA SendGood ==
  ASSUME NEW i, Good(i), NEW m \in Msg
  PROVE  LET o == uds_isotp_send(i, m)
         IN  /\ Good(o.iso) /\ o.frames \in AtMostOne
             /\ SameBlock(i, o.iso) /\ o.iso.timer_st = i.timer_st
<1>1. CASE m.len <= MAX_SF
  BY <1>1, SfType DEF uds_isotp_send, uds_send_sf, Left, AtMostOne, SameBlock
<1>2. CASE ~(m.len <= MAX_SF) /\ m.len > TX_BUF
  BY <1>2 DEF uds_isotp_send, uds_send_mf, Left, AtMostOne, SameBlock
<1>3. CASE ~(m.len <= MAX_SF) /\ ~(m.len > TX_BUF)
  <2> DEFINE j == [i EXCEPT !.pending_tx = m, !.msg_len = m.len,
                            !.bytes_processed = MAX_FF, !.sn = 1,
                            !.state = ISOTP_TX_WAIT_FC]
  <2>1. m.len \in Nat /\ m.len > MAX_SF /\ MAX_FF \in Nat /\ 1 \in 0 .. SN_MOD - 1
    BY <1>3, IsoTpAssumption
  <2>2. uds_isotp_send(i, m) = Left(j, <<Ff(m)>>, <<>>)
    BY <1>3 DEF uds_isotp_send, uds_send_mf
  <2>3. /\ j \in IsoCtx /\ j.state = ISOTP_TX_WAIT_FC
        /\ j.block_size = i.block_size /\ j.timer_st = i.timer_st
    BY <2>1 DEF Good, IsoCtx, TpStates
  <2> HIDE DEF j
  <2> QED
    BY <2>1, <2>2, <2>3, FfType
    DEF Left, AtMostOne, SameBlock, Good, Reassembly, ISOTP_TX_WAIT_FC,
        ISOTP_RX_WAIT_CF, ISOTP_TX_SENDING_CF
<1> QED
  BY <1>1, <1>2, <1>3

\* A single frame aborts, a first frame starts over.
LEMMA FirstGood ==
  ASSUME NEW i, Good(i), NEW f \in Frames
  PROVE  /\ f.k = "SF" => LET o == uds_rx_sf(i, f)
                          IN  /\ Good(o.iso) /\ o.frames \in AtMostOne
                              /\ SameBlock(i, o.iso) /\ o.iso.timer_st = i.timer_st
         /\ f.k = "FF" => LET o == uds_rx_ff(i, f)
                          IN  /\ Good(o.iso) /\ o.frames \in AtMostOne
                              /\ SameBlock(i, o.iso) /\ o.iso.timer_st = i.timer_st
<1> DEFINE idle == [i EXCEPT !.state = ISOTP_IDLE]
<1>1. /\ idle \in IsoCtx /\ idle.state = ISOTP_IDLE
      /\ idle.block_size = i.block_size /\ idle.timer_st = i.timer_st
  BY DEF Good, IsoCtx, TpStates
<1>2. Good(idle) /\ SameBlock(i, idle)
  BY <1>1 DEF Good, Reassembly, SameBlock, ISOTP_IDLE, ISOTP_RX_WAIT_CF,
              ISOTP_TX_SENDING_CF
<1>3. ASSUME f.k = "SF"
      PROVE  uds_rx_sf(i, f).iso = idle /\ uds_rx_sf(i, f).frames = <<>>
  BY DEF uds_rx_sf, Left
<1>4. ASSUME f.k = "FF"
      PROVE  LET o == uds_rx_ff(i, f)
             IN  /\ Good(o.iso) /\ o.frames \in AtMostOne
                 /\ SameBlock(i, o.iso) /\ o.iso.timer_st = i.timer_st
  <2> DEFINE ready == [i EXCEPT !.msg_len = f.len, !.bytes_processed = Len(f.data),
                                !.sn = 1, !.state = ISOTP_RX_WAIT_CF]
             full == [ready EXCEPT !.state = ISOTP_IDLE]
             next == [ready EXCEPT !.rx_buffer = f.data]
             o == uds_rx_ff(i, f)
  <2>1. f.len \in Nat /\ f.data \in Seq(Octet) /\ Len(f.data) <= f.len
    BY <1>4 DEF Frames, FirstFrames
  <2>2. Len(f.data) \in Nat /\ 1 \in 0 .. SN_MOD - 1 /\ RX_BUF \in Nat
    BY <2>1, IsoTpAssumption
  <2>3. /\ ready \in IsoCtx /\ ready.block_size = i.block_size
        /\ ready.timer_st = i.timer_st /\ ready.msg_len = f.len
        /\ ready.bytes_processed = Len(f.data)
        /\ ready.state = ISOTP_RX_WAIT_CF
    BY <2>1, <2>2 DEF Good, IsoCtx, TpStates
  <2>4. \/ o = Left(idle, <<>>, <<>>)
        \/ o = Left(full, <<>>, <<>>)
        \/ /\ f.len <= RX_BUF
           /\ o = Left(next, <<Fc(i.block_size, i.st_min)>>, <<>>)
    BY <2>1, <2>2 DEF uds_rx_ff
  <2> HIDE DEF ready, o
  <2>5. /\ full \in IsoCtx /\ full.state = ISOTP_IDLE
        /\ full.block_size = i.block_size /\ full.timer_st = i.timer_st
    BY <2>3 DEF IsoCtx, TpStates
  <2>6. /\ next \in IsoCtx /\ next.state = ISOTP_RX_WAIT_CF
        /\ next.block_size = i.block_size /\ next.timer_st = i.timer_st
        /\ next.msg_len = f.len /\ next.bytes_processed = Len(f.data)
        /\ next.rx_buffer = f.data
    BY <2>1, <2>3 DEF IsoCtx
  <2> HIDE DEF full, next, idle
  <2>7. Good(full) /\ SameBlock(i, full)
    BY <2>5 DEF Good, Reassembly, SameBlock, ISOTP_IDLE, ISOTP_RX_WAIT_CF,
                ISOTP_TX_SENDING_CF
  <2>8. (f.len <= RX_BUF => Good(next)) /\ SameBlock(i, next)
    BY <2>1, <2>6 DEF Good, Reassembly, SameBlock, ISOTP_RX_WAIT_CF,
                      ISOTP_TX_SENDING_CF
  <2>9. <<Fc(i.block_size, i.st_min)>> \in AtMostOne /\ <<>> \in AtMostOne
    BY FcType DEF Good, IsoCtx, AtMostOne
  <2> QED
    BY <1>1, <1>2, <2>4, <2>5, <2>6, <2>7, <2>8, <2>9 DEF Left, o
<1> QED
  BY <1>1, <1>2, <1>3, <1>4 DEF AtMostOne

\* A consecutive frame adds at most what is missing.
LEMMA ConsecutiveGood ==
  ASSUME NEW i, Good(i), NEW f \in Frames, f.k = "CF"
  PROVE  LET o == uds_rx_cf(i, f)
         IN  /\ Good(o.iso) /\ o.frames \in AtMostOne
             /\ SameBlock(i, o.iso) /\ o.iso.timer_st = i.timer_st
<1> DEFINE remaining == (i.msg_len - i.bytes_processed) % 65536
           to_copy == IF remaining > Len(f.data) THEN Len(f.data) ELSE remaining
           got == SubSeq(i.rx_buffer, 1, i.bytes_processed) \o SubSeq(f.data, 1, to_copy)
           sn == (i.sn + 1) % SN_MOD
           total == i.bytes_processed + to_copy
           next == [i EXCEPT !.sn = sn, !.rx_buffer = got, !.bytes_processed = total]
           idle == [i EXCEPT !.state = ISOTP_IDLE]
           done == [next EXCEPT !.state = ISOTP_IDLE]
           o == uds_rx_cf(i, f)
<1>1. CASE i.state # ISOTP_RX_WAIT_CF
  BY <1>1 DEF uds_rx_cf, Left, AtMostOne, SameBlock
<1>2. CASE i.state = ISOTP_RX_WAIT_CF
  <2>1. /\ i \in IsoCtx /\ Len(i.rx_buffer) = i.bytes_processed
        /\ i.bytes_processed <= i.msg_len /\ i.msg_len <= RX_BUF
    BY <1>2 DEF Good, Reassembly
  <2>2. /\ i.rx_buffer \in Seq(Octet) /\ i.bytes_processed \in Nat /\ i.msg_len \in Nat
        /\ i.sn \in 0 .. SN_MOD - 1
    BY <2>1 DEF IsoCtx
  <2>3. f.data \in Seq(Octet)
    BY DEF Frames, FirstFrames
  <2>4. /\ remaining \in Nat /\ remaining <= i.msg_len - i.bytes_processed
    <3>1. \A x \in Nat : x % 65536 \in Nat /\ x % 65536 <= x
      OBVIOUS
    <3>2. i.msg_len - i.bytes_processed \in Nat
      BY <2>1, <2>2
    <3> QED
      BY <3>1, <3>2
  <2> HIDE DEF remaining
  <2>5. /\ to_copy \in Nat /\ to_copy \in 0 .. Len(f.data)
        /\ to_copy <= i.msg_len - i.bytes_processed
    BY <2>2, <2>3, <2>4
  <2>6. sn \in 0 .. SN_MOD - 1 /\ total \in Nat /\ total <= i.msg_len
    <3> HIDE DEF to_copy
    <3>1. total \in Nat /\ total <= i.msg_len
      BY <2>2, <2>5
    <3>2. SN_MOD \in Nat \ {0} /\ i.sn + 1 \in Nat
      BY <2>2, IsoTpAssumption
    <3>3. sn \in 0 .. SN_MOD - 1
      BY <3>2
    <3> QED
      BY <3>1, <3>3
  <2>7. o = IF OutOfSequence(i, f) THEN Left(idle, <<>>, <<>>)
            ELSE IF next.bytes_processed >= i.msg_len THEN Left(done, <<>>, <<got>>)
            ELSE Left(next, <<>>, <<>>)
    BY <1>2 DEF uds_rx_cf, remaining
  <2> HIDE DEF to_copy, o, sn
  <2>8. /\ SubSeq(i.rx_buffer, 1, i.bytes_processed) \in Seq(Octet)
        /\ Len(SubSeq(i.rx_buffer, 1, i.bytes_processed)) = i.bytes_processed
    BY <2>1, <2>2
  <2>9. /\ SubSeq(f.data, 1, to_copy) \in Seq(Octet)
        /\ Len(SubSeq(f.data, 1, to_copy)) = to_copy
    BY <2>3, <2>5
  <2>10. got \in Seq(Octet) /\ Len(got) = total
    BY <2>8, <2>9
  <2> HIDE DEF got, total
  <2>11. /\ next \in IsoCtx /\ next.state = i.state
         /\ next.block_size = i.block_size /\ next.timer_st = i.timer_st
         /\ next.msg_len = i.msg_len /\ next.rx_buffer = got
         /\ next.bytes_processed = total
    BY <2>1, <2>6, <2>10 DEF IsoCtx
  <2>12. /\ idle \in IsoCtx /\ idle.state = ISOTP_IDLE
         /\ idle.block_size = i.block_size /\ idle.timer_st = i.timer_st
    BY <2>1 DEF IsoCtx, TpStates
  <2> HIDE DEF next, idle
  <2>13. /\ done \in IsoCtx /\ done.state = ISOTP_IDLE
         /\ done.block_size = i.block_size /\ done.timer_st = i.timer_st
    BY <2>11 DEF IsoCtx, TpStates
  <2> HIDE DEF done
  <2>14. Good(next) /\ SameBlock(i, next)
    BY <1>2, <2>1, <2>6, <2>10, <2>11
    DEF Good, Reassembly, SameBlock, ISOTP_RX_WAIT_CF, ISOTP_TX_SENDING_CF
  <2>15. Good(idle) /\ SameBlock(i, idle) /\ Good(done) /\ SameBlock(i, done)
    BY <2>12, <2>13 DEF Good, Reassembly, SameBlock, ISOTP_IDLE, ISOTP_RX_WAIT_CF,
                        ISOTP_TX_SENDING_CF
  <2> QED
    BY <2>7, <2>11, <2>12, <2>13, <2>14, <2>15 DEF AtMostOne, Left, o
<1> QED
  BY <1>1, <1>2

\* A flow control frame resumes a sender that waits for one, with the peer's
\* block size; any other state ignores it.
LEMMA FlowGood ==
  ASSUME NEW i, Good(i), NEW f \in Frames, f.k = "FC"
  PROVE  LET o == uds_rx_fc(i, f)
         IN  /\ Good(o.iso) /\ o.frames \in AtMostOne
             /\ i.state # ISOTP_TX_WAIT_FC => SameBlock(i, o.iso)
             /\ o.iso.timer_st = i.timer_st
<1> DEFINE j == [i EXCEPT !.state = ISOTP_TX_SENDING_CF,
                          !.block_size = f.bs, !.st_min = f.st]
<1>1. f.bs \in BsByte /\ f.st \in BsByte /\ f.fs = "CTS"
  BY DEF Frames, FirstFrames
<1>2. /\ j \in IsoCtx /\ j.state = ISOTP_TX_SENDING_CF /\ j.timer_st = i.timer_st
  BY <1>1 DEF Good, IsoCtx, TpStates
<1>3. Good(j)
  BY <1>2 DEF Good, Reassembly, ISOTP_TX_SENDING_CF, ISOTP_RX_WAIT_CF
<1>4. uds_rx_fc(i, f).iso = (IF i.state = ISOTP_TX_WAIT_FC THEN j ELSE i)
        /\ uds_rx_fc(i, f).frames = <<>>
  BY <1>1 DEF uds_rx_fc, Left
<1> HIDE DEF j
<1> QED
  BY <1>2, <1>3, <1>4 DEF AtMostOne, SameBlock

\* Whatever frame arrives.
LEMMA ReceiveGood ==
  ASSUME NEW i, Good(i), NEW f \in Frames
  PROVE  LET o == uds_isotp_rx_callback(i, f)
         IN  /\ Good(o.iso) /\ o.frames \in AtMostOne
             /\ \/ i.state = ISOTP_TX_WAIT_FC /\ f.k = "FC"
                \/ SameBlock(i, o.iso)
             /\ o.iso.timer_st = i.timer_st
<1>1. f.k \in {"SF", "FF", "CF", "FC"}
  BY DEF Frames, FirstFrames
<1> QED
  BY <1>1, FirstGood, ConsecutiveGood, FlowGood DEF uds_isotp_rx_callback

\* The main loop sends at most one consecutive frame: only when the separation
\* time is over and the block is not full, and it counts the frame.
LEMMA ProcessGood ==
  ASSUME NEW i, Good(i), i.state = ISOTP_TX_SENDING_CF, NEW t \in TpTime, NEW ok
  PROVE  LET o == uds_tp_isotp_process(i, t, ok)
         IN  /\ Good(o.iso) /\ o.frames \in AtMostOne
             /\ o.iso.block_size = i.block_size /\ o.iso.st_min = i.st_min
             /\ o.frames = <<>> =>
                  SameBlock(i, o.iso) /\ o.iso.timer_st = i.timer_st
             /\ o.frames # <<>> =>
                  /\ ~TooEarly(i, t) /\ ~BlockDone(i)
                  /\ o.iso.timer_st = t
                  /\ o.iso.bs_counter = (i.bs_counter + 1) % 256
<1> DEFINE idle == [i EXCEPT !.state = ISOTP_IDLE]
           wait == [i EXCEPT !.state = ISOTP_TX_WAIT_FC, !.bs_counter = 0]
           done == i.bytes_processed + MAX_CF >= i.msg_len
           bytes == IF done THEN i.msg_len ELSE i.bytes_processed + MAX_CF
           sn == (i.sn + 1) % SN_MOD
           counter == (i.bs_counter + 1) % 256
           state == IF done THEN ISOTP_IDLE ELSE i.state
           next == [i EXCEPT !.bytes_processed = bytes, !.sn = sn,
                             !.bs_counter = counter, !.timer_st = t, !.state = state]
           cf == Cf(i.sn, i.pending_tx, i.bytes_processed)
           o == uds_tp_isotp_process(i, t, ok)
<1>1. i \in IsoCtx
  BY DEF Good
<1>2. /\ i.msg_len \in Nat /\ i.bytes_processed \in Nat /\ i.sn \in 0 .. SN_MOD - 1
      /\ i.bs_counter \in 0 .. 255 /\ i.pending_tx \in Msg \cup {NoTx}
  BY <1>1 DEF IsoCtx, BsByte
<1>3. bytes \in Nat
  BY <1>2, IsoTpAssumption
<1>4. sn \in 0 .. SN_MOD - 1
  <2>1. SN_MOD \in Nat \ {0} /\ i.sn + 1 \in Nat
    BY <1>2, IsoTpAssumption
  <2> QED
    BY <2>1
<1>5. counter \in BsByte
  BY <1>2 DEF BsByte
<1>6. state \in {ISOTP_IDLE, ISOTP_TX_SENDING_CF}
  OBVIOUS
<1>7. cf \in Frames
  BY <1>2, CfType
<1>8. CfSent(i, t) = next
  BY DEF CfSent
<1>9. o = IF i.msg_len = i.bytes_processed THEN Left(idle, <<>>, <<>>)
          ELSE IF TooEarly(i, t) THEN Left(i, <<>>, <<>>)
          ELSE IF BlockDone(i) THEN Left(wait, <<>>, <<>>)
          ELSE IF ~ok THEN Left(i, <<>>, <<>>)
          ELSE Left(next, <<cf>>, <<>>)
  BY <1>8 DEF uds_tp_isotp_process
<1> HIDE DEF bytes, sn, counter, state, cf, o, done
<1>10. /\ idle \in IsoCtx /\ idle.state = ISOTP_IDLE
       /\ idle.block_size = i.block_size /\ idle.timer_st = i.timer_st
       /\ idle.st_min = i.st_min
  BY <1>1 DEF IsoCtx, TpStates
<1>11. /\ wait \in IsoCtx /\ wait.state = ISOTP_TX_WAIT_FC
       /\ wait.block_size = i.block_size /\ wait.timer_st = i.timer_st
       /\ wait.st_min = i.st_min
  <2>1. 0 \in BsByte
    BY DEF BsByte
  <2> QED
    BY <1>1, <2>1 DEF IsoCtx, TpStates
<1>12. /\ next \in IsoCtx /\ next.state = state
       /\ next.block_size = i.block_size /\ next.timer_st = t
       /\ next.st_min = i.st_min /\ next.bs_counter = counter
  BY <1>1, <1>3, <1>4, <1>5, <1>6 DEF IsoCtx, TpStates
<1> HIDE DEF idle, wait, next
<1>13. Good(idle) /\ Good(wait) /\ Good(next)
  BY <1>6, <1>10, <1>11, <1>12
  DEF Good, Reassembly, ISOTP_IDLE, ISOTP_TX_WAIT_FC, ISOTP_RX_WAIT_CF,
      ISOTP_TX_SENDING_CF
<1>14. SameBlock(i, idle) /\ SameBlock(i, wait) /\ SameBlock(i, i)
  BY <1>10, <1>11 DEF SameBlock, ISOTP_IDLE, ISOTP_TX_WAIT_FC, ISOTP_TX_SENDING_CF
<1>15. <<cf>> # <<>> /\ <<cf>> \in AtMostOne /\ <<>> \in AtMostOne
  BY <1>7 DEF AtMostOne
<1>16. CASE o.frames = <<>>
  <2>1. o.iso \in {idle, wait, i} /\ o.frames = <<>>
    BY <1>9, <1>15, <1>16 DEF Left
  <2> QED
    BY <1>10, <1>11, <1>13, <1>14, <1>15, <2>1 DEF o
<1>17. CASE o.frames # <<>>
  <2>1. o.iso = next /\ o.frames = <<cf>> /\ ~TooEarly(i, t) /\ ~BlockDone(i)
    BY <1>9, <1>17 DEF Left
  <2>2. o.iso.bs_counter = (i.bs_counter + 1) % 256
    BY <1>12, <2>1 DEF counter
  <2> QED
    BY <1>12, <1>13, <1>15, <2>1, <2>2 DEF o
<1> QED
  BY <1>16, <1>17

-----------------------------------------------------------------------------
(* The inductive invariant *)

\* Under a finite block size a node has sent no more consecutive frames since
\* the last flow control frame than the block size, and while it sends,
\* bs_counter has counted them all.  (bs_counter is not reset when a message is
\* aborted, so it may have counted more.)
Counted(n) ==
  iso[n].block_size > 0 =>
    /\ block[n] <= iso[n].block_size
    /\ iso[n].state = ISOTP_TX_SENDING_CF => block[n] <= iso[n].bs_counter

\* The unsigned difference to timer_st never exceeds the time that has really
\* passed since the last consecutive frame, however often the counter wraps.
Apart(n) == (now - iso[n].timer_st) % TP_TIME_MOD <= since[n]

TpInv ==
  /\ now \in TpTime
  /\ iso \in [Node -> IsoCtx]
  /\ bus \in [Node -> Seq(Frames)]
  /\ block \in [Node -> Nat]
  /\ since \in [Node -> 0 .. TP_TIME_MOD]
  /\ \A n \in Node : /\ Reassembly(iso[n]) /\ Len(bus[n]) <= QUEUE
                     /\ Counted(n) /\ Apart(n)

\* The bus takes a frame only when it has room.
LEMMA PutType ==
  ASSUME NEW b \in [Node -> Seq(Frames)], NEW n \in Node, NEW fs \in AtMostOne,
         \A m \in Node : Len(b[m]) <= Len(bus[m]) /\ Len(bus[m]) <= QUEUE,
         bus \in [Node -> Seq(Frames)]
  PROVE  /\ Put(b, n, fs) \in [Node -> Seq(Frames)]
         /\ \A m \in Node : Len(Put(b, n, fs)[m]) <= QUEUE
<1> DEFINE p == Put(b, n, fs)
<1>1. fs \in Seq(Frames) /\ Len(fs) \in {0, 1}
  <2>1. CASE fs = <<>>
    BY <2>1
  <2>2. ASSUME NEW f \in Frames, fs = <<f>>
        PROVE  fs \in Seq(Frames) /\ Len(fs) = 1
    BY <2>2
  <2> QED
    BY <2>1, <2>2 DEF AtMostOne
<1>2. QUEUE \in Nat
  BY LinkAssumption
<1>3. ASSUME NEW m \in Node
      PROVE  p[m] \in Seq(Frames) /\ Len(p[m]) <= QUEUE
  <2>1. /\ b[m] \in Seq(Frames) /\ Len(b[m]) \in Nat /\ Len(bus[m]) \in Nat
        /\ Len(b[m]) <= Len(bus[m]) /\ Len(bus[m]) <= QUEUE
    OBVIOUS
  <2>2. b[m] \o fs \in Seq(Frames) /\ Len(b[m] \o fs) = Len(b[m]) + Len(fs)
    BY <1>1, <2>1
  <2>3. p[m] = IF m = Peer(n) /\ CanSend(n) THEN b[m] \o fs ELSE b[m]
    BY DEF Put
  <2>4. m = Peer(n) /\ CanSend(n) => Len(bus[m]) < QUEUE
    BY DEF CanSend
  <2> HIDE DEF p
  <2>5. CASE m = Peer(n) /\ CanSend(n)
    <3>1. p[m] = b[m] \o fs /\ Len(bus[m]) < QUEUE
      BY <2>3, <2>4, <2>5
    <3>2. Len(b[m]) + Len(fs) <= QUEUE
      <4>1. \A x, y \in Nat, z \in {0, 1} : x <= y /\ y < QUEUE => x + z <= QUEUE
        BY <1>2
      <4> QED
        BY <1>1, <2>1, <3>1, <4>1
    <3> QED
      BY <2>2, <3>1, <3>2
  <2>6. CASE ~(m = Peer(n) /\ CanSend(n))
    <3>1. p[m] = b[m] /\ Len(b[m]) <= QUEUE
      BY <1>2, <2>1, <2>3, <2>6
    <3> QED
      BY <2>1, <3>1
  <2> QED
    BY <2>5, <2>6
<1>4. p = [m \in Node |-> p[m]]
  BY DEF Put
<1> QED
  BY <1>3, <1>4

\* The nodes start with it.
LEMMA TpInitInv == TpInit => TpInv
<1> SUFFICES ASSUME TpInit PROVE TpInv
  OBVIOUS
<1>1. ASSUME NEW n \in Node
      PROVE  /\ iso[n] \in IsoCtx /\ iso[n].state = ISOTP_IDLE
             /\ iso[n].timer_st = 0
  <2>a. iso[n] \in Booted(n)
    BY DEF TpInit
  <2>1. PICK bs \in BLOCK_SIZE[n], st \in ST_MIN[n] : iso[n] = uds_tp_isotp_init(bs, st)
    BY <2>a DEF Booted
  <2>2. bs \in BsByte /\ st \in BsByte
    BY LinkAssumption
  <2>3. /\ 0 \in 0 .. SN_MOD - 1 /\ 0 \in BsByte /\ 0 \in TpTime
        /\ <<>> \in Seq(Octet)
    BY IsoTpAssumption DEF BsByte, TpTime
  <2> QED
    BY <2>1, <2>2, <2>3 DEF uds_tp_isotp_init, IsoCtx, TpStates
<1>2. DOMAIN iso = Node
  BY DEF TpInit
<1>3. iso \in [Node -> IsoCtx]
  <2>1. iso = [n \in Node |-> iso[n]]
    BY DEF TpInit
  <2> QED
    BY <1>1, <2>1
<1>4. /\ now \in TpTime /\ block = [n \in Node |-> 0]
      /\ bus = [n \in Node |-> <<>>] /\ since = [n \in Node |-> TP_TIME_MOD]
  BY DEF TpInit
<1>5. TP_TIME_MOD \in 0 .. TP_TIME_MOD /\ TP_TIME_MOD \in Nat \ {0} /\ QUEUE \in Nat
  BY IsoTpAssumption, LinkAssumption
<1>6. ASSUME NEW n \in Node
      PROVE  Reassembly(iso[n]) /\ Len(bus[n]) <= QUEUE /\ Counted(n) /\ Apart(n)
  <2>1. Apart(n)
    <3>1. (now - 0) % TP_TIME_MOD \in 0 .. TP_TIME_MOD - 1 /\ 0 \in 0 .. TP_TIME_MOD - 1
      BY <1>4, <1>5 DEF TpTime
    <3> QED
      BY <1>1, <1>4, <1>5, <3>1 DEF Apart
  <2>2. iso[n].block_size \in BsByte
    BY <1>1 DEF IsoCtx
  <2>3. Reassembly(iso[n])
    BY <1>1 DEF Reassembly, ISOTP_IDLE, ISOTP_RX_WAIT_CF
  <2>4. Counted(n)
    <3>1. block[n] = 0 /\ iso[n].state # ISOTP_TX_SENDING_CF /\ 0 <= iso[n].block_size
      <4>1. block[n] = 0 /\ iso[n].state # ISOTP_TX_SENDING_CF
        BY <1>1, <1>4 DEF ISOTP_IDLE, ISOTP_TX_SENDING_CF
      <4>2. \A b \in BsByte : 0 <= b
        BY DEF BsByte
      <4> QED
        BY <2>2, <4>1, <4>2
    <3> QED
      BY <3>1 DEF Counted
  <2>5. Len(bus[n]) <= QUEUE
    BY <1>4, <1>5
  <2> QED
    BY <2>1, <2>3, <2>4, <2>5
<1>7. bus \in [Node -> Seq(Frames)] /\ block \in [Node -> Nat]
        /\ since \in [Node -> 0 .. TP_TIME_MOD]
  BY <1>4, <1>5
<1> QED
  BY <1>3, <1>4, <1>6, <1>7 DEF TpInv

\* A step of one node keeps it, if the node's own new state satisfies it.
LEMMA NodeStep ==
  ASSUME TpInv, NEW n \in Node, NEW i, Good(i), NEW k \in Nat,
         NEW s \in 0 .. TP_TIME_MOD,
         iso' = [iso EXCEPT ![n] = i], block' = [block EXCEPT ![n] = k],
         since' = [since EXCEPT ![n] = s], now' = now,
         bus' \in [Node -> Seq(Frames)], \A m \in Node : Len(bus'[m]) <= QUEUE,
         i.block_size > 0 =>
           k <= i.block_size /\ (i.state = ISOTP_TX_SENDING_CF => k <= i.bs_counter),
         (now - i.timer_st) % TP_TIME_MOD <= s
  PROVE  TpInv'
<1>1. /\ now \in TpTime /\ iso \in [Node -> IsoCtx] /\ block \in [Node -> Nat]
      /\ since \in [Node -> 0 .. TP_TIME_MOD]
      /\ \A m \in Node : Reassembly(iso[m]) /\ Counted(m) /\ Apart(m)
  BY DEF TpInv
<1>2. iso' \in [Node -> IsoCtx] /\ block' \in [Node -> Nat]
        /\ since' \in [Node -> 0 .. TP_TIME_MOD]
  BY <1>1 DEF Good
<1>3. ASSUME NEW m \in Node
      PROVE  Reassembly(iso[m])' /\ Counted(m)' /\ Apart(m)'
  <2>1. CASE m = n
    <3>1. iso'[m] = i /\ block'[m] = k /\ since'[m] = s
      BY <1>1, <2>1
    <3> QED
      BY <3>1 DEF Good, Reassembly, Counted, Apart
  <2>2. CASE m # n
    <3>1. iso'[m] = iso[m] /\ block'[m] = block[m] /\ since'[m] = since[m]
      BY <1>1, <2>2
    <3> QED
      BY <1>1, <3>1 DEF Reassembly, Counted, Apart
  <2> QED
    BY <2>1, <2>2
<1> QED
  BY <1>1, <1>2, <1>3 DEF TpInv

\* Sending a message.
LEMMA SendMsgKeeps ==
  ASSUME TpInv, NEW n \in Node, NEW m \in Msg, SendMsg(n, m)
  PROVE  TpInv'
<1> DEFINE o == uds_isotp_send(iso[n], m)
<1>1. /\ iso[n] \in IsoCtx /\ Good(iso[n]) /\ block[n] \in Nat
      /\ since[n] \in 0 .. TP_TIME_MOD /\ Counted(n) /\ Apart(n)
      /\ bus \in [Node -> Seq(Frames)] /\ \A p \in Node : Len(bus[p]) <= QUEUE
  BY DEF TpInv, Good
<1>2. /\ Good(o.iso) /\ o.frames \in AtMostOne /\ SameBlock(iso[n], o.iso)
      /\ o.iso.timer_st = iso[n].timer_st
  BY <1>1, SendGood
<1>3. /\ iso' = [iso EXCEPT ![n] = o.iso] /\ bus' = Put(bus, n, o.frames)
      /\ now' = now /\ block' = block /\ since' = since
  BY DEF SendMsg
<1> HIDE DEF o
<1>4. block' = [block EXCEPT ![n] = block[n]] /\ since' = [since EXCEPT ![n] = since[n]]
  BY <1>3 DEF TpInv
<1>5. \A p \in Node : Len(bus[p]) <= Len(bus[p]) /\ Len(bus[p]) <= QUEUE
  BY <1>1
<1>6. bus' \in [Node -> Seq(Frames)] /\ \A p \in Node : Len(bus'[p]) <= QUEUE
  <2>1. bus \in [Node -> Seq(Frames)] /\ o.frames \in AtMostOne /\ bus' = Put(bus, n, o.frames)
    BY <1>1, <1>2, <1>3
  <2> QED
    BY <1>5, <2>1, PutType
<1> QED
  BY <1>1, <1>2, <1>3, <1>4, <1>6, NodeStep DEF SameBlock, Counted, Apart

\* A consecutive frame is counted against the block and starts the separation
\* time afresh.
LEMMA ProcessTpKeeps ==
  ASSUME TpInv, NEW n \in Node, ProcessTp(n)
  PROVE  TpInv'
<1> DEFINE o == uds_tp_isotp_process(iso[n], now, CanSend(n))
           i == iso[n]
<1>1. /\ i \in IsoCtx /\ Good(i) /\ block[n] \in Nat /\ now \in TpTime
      /\ since[n] \in 0 .. TP_TIME_MOD /\ Counted(n) /\ Apart(n)
      /\ bus \in [Node -> Seq(Frames)] /\ \A p \in Node : Len(bus[p]) <= QUEUE
  BY DEF TpInv, Good
<1>2. /\ i.state = ISOTP_TX_SENDING_CF
      /\ iso' = [iso EXCEPT ![n] = o.iso] /\ bus' = Put(bus, n, o.frames)
      /\ now' = now
      /\ block' = [block EXCEPT ![n] = IF o.frames # <<>> THEN @ + 1 ELSE @]
      /\ since' = [since EXCEPT ![n] = IF o.frames # <<>> THEN 0 ELSE @]
  BY DEF ProcessTp
<1>3. /\ Good(o.iso) /\ o.frames \in AtMostOne /\ o.iso.block_size = i.block_size
      /\ o.frames = <<>> => SameBlock(i, o.iso) /\ o.iso.timer_st = i.timer_st
      /\ o.frames # <<>> =>
           /\ ~BlockDone(i) /\ o.iso.timer_st = now
           /\ o.iso.bs_counter = (i.bs_counter + 1) % 256
  BY <1>1, <1>2, ProcessGood
<1> HIDE DEF o, i
<1>4. \A p \in Node : Len(bus[p]) <= Len(bus[p]) /\ Len(bus[p]) <= QUEUE
  BY <1>1
<1>5. bus' \in [Node -> Seq(Frames)] /\ \A p \in Node : Len(bus'[p]) <= QUEUE
  <2>1. bus \in [Node -> Seq(Frames)] /\ o.frames \in AtMostOne /\ bus' = Put(bus, n, o.frames)
    BY <1>1, <1>2, <1>3
  <2> QED
    BY <1>4, <2>1, PutType
<1>6. CASE o.frames = <<>>
  <2>1. block' = [block EXCEPT ![n] = block[n]] /\ since' = [since EXCEPT ![n] = since[n]]
    BY <1>2, <1>6
  <2> QED
    BY <1>1, <1>2, <1>3, <1>5, <1>6, <2>1, NodeStep, ZenonT(40) DEF SameBlock, Counted, Apart, i
<1>7. CASE o.frames # <<>>
  <2>1. block' = [block EXCEPT ![n] = block[n] + 1] /\ since' = [since EXCEPT ![n] = 0]
    BY <1>2, <1>7
  <2>2. i.block_size \in 0 .. 255 /\ i.bs_counter \in 0 .. 255 /\ block[n] \in Nat
    BY <1>1 DEF IsoCtx, BsByte
  <2>a. i.block_size > 0 => block[n] <= i.bs_counter
    BY <1>1, <1>2 DEF Counted, i
  <2>b. i.block_size > 0 => i.bs_counter < i.block_size
    <3>1. \A x, y \in 0 .. 255 : ~(x > 0 /\ y >= x) => (x > 0 => y < x)
      OBVIOUS
    <3>2. ~(i.block_size > 0 /\ i.bs_counter >= i.block_size)
      BY <1>3, <1>7 DEF BlockDone
    <3> QED
      BY <2>2, <3>1, <3>2
  <2>3. i.block_size > 0 => i.bs_counter < i.block_size /\ block[n] <= i.bs_counter
    BY <2>a, <2>b
  <2>4. i.block_size > 0 => /\ o.iso.bs_counter = i.bs_counter + 1
                            /\ block[n] + 1 <= o.iso.bs_counter
                            /\ block[n] + 1 <= i.block_size
    <3>1. \A c \in 0 .. 254 : (c + 1) % 256 = c + 1
      OBVIOUS
    <3>2. o.iso.bs_counter = (i.bs_counter + 1) % 256
      BY <1>3, <1>7
    <3>3. i.block_size > 0 => i.bs_counter \in 0 .. 254
      BY <2>2, <2>3
    <3>4. i.block_size > 0 => o.iso.bs_counter = i.bs_counter + 1
      BY <3>1, <3>2, <3>3
    <3> QED
      <4>1. \A b \in Nat, x, y \in 0 .. 255 :
              y < x /\ b <= y => b + 1 <= y + 1 /\ b + 1 <= x
        OBVIOUS
      <4> QED
        BY <2>2, <2>3, <3>4, <4>1, ZenonT(40)
  <2>5. (now - o.iso.timer_st) % TP_TIME_MOD = 0 /\ 0 \in 0 .. TP_TIME_MOD
          /\ block[n] + 1 \in Nat
    BY <1>1, <1>3, <1>7, IsoTpAssumption DEF TpTime
  <2>6. (now - o.iso.timer_st) % TP_TIME_MOD <= 0
    BY <2>5
  <2> QED
    <3> DEFINE j == o.iso
    <3>1. Good(j) /\ iso' = [iso EXCEPT ![n] = j] /\ now' = now
      BY <1>2, <1>3
    <3>2. j.block_size > 0 =>
            /\ block[n] + 1 <= j.block_size
            /\ j.state = ISOTP_TX_SENDING_CF => block[n] + 1 <= j.bs_counter
      BY <1>3, <2>4
    <3>3. (now - j.timer_st) % TP_TIME_MOD <= 0
      BY <2>6
    <3> HIDE DEF j
    <3> QED
      BY <1>5, <2>1, <2>5, <3>1, <3>2, <3>3, NodeStep
<1> QED
  BY <1>6, <1>7

\* Taking a frame from the bus, and putting at most one on it.
LEMMA TakeFrame ==
  ASSUME bus \in [Node -> Seq(Frames)], \A p \in Node : Len(bus[p]) <= QUEUE,
         NEW n \in Node, bus[n] # <<>>
  PROVE  LET b == [bus EXCEPT ![n] = Tail(@)]
         IN  /\ Head(bus[n]) \in Frames /\ b \in [Node -> Seq(Frames)]
             /\ \A p \in Node : Len(b[p]) <= Len(bus[p]) /\ Len(bus[p]) <= QUEUE
<1> DEFINE b == [bus EXCEPT ![n] = Tail(@)]
<1>1. bus[n] \in Seq(Frames) /\ bus[n] # <<>>
  OBVIOUS
<1>2. /\ Head(bus[n]) \in Frames /\ Tail(bus[n]) \in Seq(Frames)
      /\ Len(bus[n]) \in Nat /\ Len(Tail(bus[n])) = Len(bus[n]) - 1
  BY <1>1
<1>3. ASSUME NEW p \in Node
      PROVE  Len(b[p]) <= Len(bus[p])
  <2>1. Len(bus[p]) \in Nat
    OBVIOUS
  <2>2. b[p] = IF p = n THEN Tail(bus[n]) ELSE bus[p]
    OBVIOUS
  <2> HIDE DEF b
  <2> QED
    BY <1>2, <2>1, <2>2
<1>4. b \in [Node -> Seq(Frames)]
  BY <1>2
<1> HIDE DEF b
<1>5. \A p \in Node : Len(b[p]) <= Len(bus[p]) /\ Len(bus[p]) <= QUEUE
  BY <1>3
<1> QED
  BY <1>2, <1>4, <1>5 DEF b

\* What a frame leaves behind, an answer included: a context that sends under
\* the block it had, or under a new one that the flow control frame has opened.
LEMMA ArriveKeeps ==
  ASSUME TpInv, NEW n \in Node, NEW after, NEW answer, Arrive(n, after, answer),
         Good(after.iso), after.frames \in AtMostOne,
         after.iso.timer_st = iso[n].timer_st,
         \/ iso[n].state = ISOTP_TX_WAIT_FC /\ Head(bus[n]).k = "FC"
         \/ SameBlock(iso[n], after.iso)
  PROVE  TpInv'
<1> DEFINE fc == iso[n].state = ISOTP_TX_WAIT_FC /\ Head(bus[n]).k = "FC"
           k == IF fc THEN 0 ELSE block[n]
           j == after.iso
           b == [bus EXCEPT ![n] = Tail(@)]
<1>1. /\ block \in [Node -> Nat] /\ since \in [Node -> 0 .. TP_TIME_MOD]
      /\ block[n] \in Nat /\ since[n] \in 0 .. TP_TIME_MOD /\ Counted(n) /\ Apart(n)
      /\ bus \in [Node -> Seq(Frames)] /\ \A p \in Node : Len(bus[p]) <= QUEUE
  BY DEF TpInv
<1>2. /\ bus[n] # <<>> /\ iso' = [iso EXCEPT ![n] = j] /\ now' = now
      /\ bus' = Put(b, n, after.frames)
      /\ block' = [block EXCEPT ![n] = k] /\ since' = since
  BY DEF Arrive
<1>3. since' = [since EXCEPT ![n] = since[n]] /\ k \in Nat
  BY <1>1, <1>2
<1>4. /\ b \in [Node -> Seq(Frames)]
      /\ \A p \in Node : Len(b[p]) <= Len(bus[p]) /\ Len(bus[p]) <= QUEUE
  BY <1>1, <1>2, TakeFrame
<1> HIDE DEF b
<1>5. bus' \in [Node -> Seq(Frames)] /\ \A p \in Node : Len(bus'[p]) <= QUEUE
  BY <1>1, <1>2, <1>4, PutType
<1>6. j.block_size > 0 =>
        /\ k <= j.block_size
        /\ j.state = ISOTP_TX_SENDING_CF => k <= j.bs_counter
  <2>1. CASE fc
    <3>1. \A x \in BsByte : 0 <= x
      BY DEF BsByte
    <3>2. k = 0 /\ j.block_size \in BsByte /\ j.bs_counter \in BsByte
      BY <2>1 DEF Good, IsoCtx
    <3> QED
      BY <3>1, <3>2
  <2>2. CASE ~fc
    BY <1>1, <2>2 DEF SameBlock, Counted
  <2> QED
    BY <2>1, <2>2
<1>7. Good(j) /\ (now - j.timer_st) % TP_TIME_MOD <= since[n]
  BY <1>1 DEF Apart
<1> HIDE DEF j, k
<1> QED
  BY <1>1, <1>2, <1>3, <1>5, <1>6, <1>7, NodeStep

\* A frame arrives, and is answered or not.
LEMMA ReceiveKeeps ==
  ASSUME TpInv, NEW n \in Node,
         Receive(n) \/ (\E m \in Msg : ReceiveAndAnswer(n, m))
  PROVE  TpInv'
<1> DEFINE i == iso[n]
           o == Taken(n)
<1>1. /\ Good(i) /\ bus \in [Node -> Seq(Frames)]
      /\ \A p \in Node : Len(bus[p]) <= QUEUE
  BY DEF TpInv, Good
<1>2. bus[n] # <<>>
  BY DEF Receive, ReceiveAndAnswer
<1>3. Head(bus[n]) \in Frames
  BY <1>1, <1>2, TakeFrame
<1>4. /\ Good(o.iso) /\ o.frames \in AtMostOne
      /\ \/ i.state = ISOTP_TX_WAIT_FC /\ Head(bus[n]).k = "FC"
         \/ SameBlock(i, o.iso)
      /\ o.iso.timer_st = i.timer_st
  BY <1>1, <1>3, ReceiveGood DEF Taken
<1> HIDE DEF o
<1>5. CASE Receive(n)
  <2>1. Arrive(n, o, <<>>)
    BY <1>5 DEF Receive, o
  <2> QED
    BY <1>4, <2>1, ArriveKeeps
<1>6. ASSUME NEW m \in Msg, ReceiveAndAnswer(n, m)
      PROVE  TpInv'
  <2> DEFINE a == uds_isotp_send(o.iso, m)
  <2>1. Arrive(n, a, <<m>>)
    BY <1>6 DEF ReceiveAndAnswer, o
  <2>2. /\ Good(a.iso) /\ a.frames \in AtMostOne /\ SameBlock(o.iso, a.iso)
        /\ a.iso.timer_st = o.iso.timer_st
    BY <1>4, SendGood
  <2> HIDE DEF a
  <2>3. SameBlock(i, o.iso) => SameBlock(i, a.iso)
    BY <2>2 DEF SameBlock
  <2> QED
    BY <1>4, <2>1, <2>2, <2>3, ArriveKeeps
<1> QED
  BY <1>5, <1>6

\* A frame that is lost or doubled touches no node.
LEMMA FaultKeeps ==
  ASSUME TpInv, NEW n \in Node, Lose(n) \/ Double(n)
  PROVE  TpInv'
<1>1. /\ bus \in [Node -> Seq(Frames)] /\ \A p \in Node : Len(bus[p]) <= QUEUE
      /\ bus[n] # <<>>
  BY DEF TpInv, Lose, Double
<1>2. QUEUE \in Nat
  BY LinkAssumption
<1>3. bus' \in [Node -> Seq(Frames)] /\ \A p \in Node : Len(bus'[p]) <= QUEUE
  <2>1. CASE Lose(n)
    <3> DEFINE b == [bus EXCEPT ![n] = Tail(@)]
    <3>1. bus' = b
      BY <2>1 DEF Lose
    <3>2. /\ b \in [Node -> Seq(Frames)]
          /\ \A p \in Node : Len(b[p]) <= Len(bus[p]) /\ Len(bus[p]) <= QUEUE
      BY <1>1, TakeFrame
    <3> HIDE DEF b
    <3>3. ASSUME NEW p \in Node PROVE Len(b[p]) <= QUEUE
      <4>1. b[p] \in Seq(Frames) /\ bus[p] \in Seq(Frames)
        BY <1>1, <3>2
      <4>2. Len(b[p]) \in Nat /\ Len(bus[p]) \in Nat
        BY <4>1
      <4> QED
        BY <1>2, <3>2, <4>2
    <3> QED
      BY <3>1, <3>2, <3>3
  <2>2. CASE Double(n)
    <3> DEFINE s == <<Head(bus[n])>> \o bus[n]
    <3>1. bus' = [bus EXCEPT ![n] = s] /\ Len(bus[n]) < QUEUE
      BY <2>2 DEF Double
    <3>2. Head(bus[n]) \in Frames /\ bus[n] \in Seq(Frames) /\ Len(bus[n]) \in Nat
      BY <1>1
    <3>3. s \in Seq(Frames) /\ Len(s) = Len(bus[n]) + 1
      BY <3>2
    <3> HIDE DEF s
    <3>4. Len(s) <= QUEUE
      BY <1>2, <3>1, <3>2, <3>3
    <3> QED
      BY <1>1, <3>1, <3>3, <3>4
  <2> QED
    BY <2>1, <2>2
<1>4. UNCHANGED <<iso, now, block, since>>
  BY DEF Lose, Double
<1> QED
  BY <1>3, <1>4 DEF TpInv, Counted, Apart, Reassembly

\* A tick: the unsigned difference grows by one or starts again, since grows
\* until it is out of reach of every separation time.
LEMMA TpTickKeeps ==
  ASSUME TpInv, TpTick
  PROVE  TpInv'
<1> DEFINE M == TP_TIME_MOD
<1>1. M \in Nat \ {0}
  BY IsoTpAssumption
<1>2. /\ now \in 0 .. M - 1 /\ since \in [Node -> 0 .. M] /\ iso \in [Node -> IsoCtx]
  BY DEF TpInv, TpTime
<1>3. now' = (now + 1) % M /\ UNCHANGED <<iso, bus, block>>
        /\ since' = [n \in Node |-> IF since[n] < M THEN since[n] + 1 ELSE since[n]]
  BY DEF TpTick
<1>4. now' \in 0 .. M - 1
  BY <1>1, <1>2, <1>3, WrapSuccessor
<1>5. ASSUME NEW n \in Node PROVE since'[n] \in 0 .. M /\ Apart(n)'
  <2> DEFINE s == iso[n].timer_st
             d == (now - s) % M
             e == (now' - s) % M
             x == since[n]
             y == since'[n]
  <2>1. s \in 0 .. M - 1 /\ iso'[n].timer_st = s
    BY <1>2, <1>3 DEF IsoCtx, TpTime
  <2>2. e = IF d = M - 1 THEN 0 ELSE d + 1
    BY <1>1, <1>2, <1>3, <2>1, WrapElapsed
  <2>3. d \in 0 .. M - 1
    BY <1>1, <1>2, <2>1, WrapDifference
  <2>4. d <= x /\ x \in 0 .. M
    BY <1>2 DEF TpInv, Apart
  <2>5. y = IF x < M THEN x + 1 ELSE x
    BY <1>3
  <2>6. Apart(n)' <=> e <= y
    BY <2>1 DEF Apart
  <2> HIDE DEF s, d, e, x, y
  <2>7. y \in 0 .. M /\ e <= y
    BY <1>1, <2>2, <2>3, <2>4, <2>5
  <2> QED
    BY <2>6, <2>7 DEF y
<1>6. since' \in [Node -> 0 .. M]
  <2>1. since' = [n \in Node |-> since'[n]]
    BY <1>3
  <2> QED
    BY <1>5, <2>1
<1>7. \A n \in Node : Reassembly(iso'[n]) /\ Len(bus'[n]) <= QUEUE /\ Counted(n)'
  BY <1>3 DEF TpInv, Counted
<1> QED
  BY <1>3, <1>4, <1>5, <1>6, <1>7 DEF TpInv, TpTime

\* Every step keeps the invariant.
LEMMA TpNextKeeps == TpInv /\ [TpNext]_tpvars => TpInv'
<1> SUFFICES ASSUME TpInv, [TpNext]_tpvars PROVE TpInv'
  OBVIOUS
<1>1. CASE UNCHANGED tpvars
  BY <1>1 DEF tpvars, TpInv, Counted, Apart, Reassembly
<1>2. CASE TpNext
  BY <1>2, SendMsgKeeps, ProcessTpKeeps, ReceiveKeeps, FaultKeeps, TpTickKeeps
  DEF TpNext
<1> QED
  BY <1>1, <1>2

-----------------------------------------------------------------------------
(* Theorems *)

\* The inductive invariant, for links of every shape.
THEOREM TpInvariance == TpSpec => []TpInv
<1> QED
  BY TpInitInv, TpNextKeeps, PTL DEF TpSpec

\* Contexts keep their C types, sequence numbers their width, and the bus its
\* capacity, whatever is lost, doubled or collides (uds_isotp_ctx_t).
THEOREM TpTypes == TpSpec => []TpTypeOK
<1>1. TpInv => TpTypeOK
  BY DEF TpInv, TpTypeOK, IsoCtx
<1> QED
  BY <1>1, TpInvariance, PTL

\* uds_tp_isotp_process never sends more consecutive frames between two flow
\* control frames than the block size the peer announced.
THEOREM BlockSizeKept == TpSpec => []FlowControlled
<1>1. TpInv => FlowControlled
  BY DEF TpInv, Counted, FlowControlled
<1> QED
  BY <1>1, TpInvariance, PTL

\* uds_rx_ff and uds_rx_cf never write beyond the length that the first frame
\* announced, nor beyond rx_buffer_size.
THEOREM ReassemblyBounded == TpSpec => [](\A n \in Node : Reassembly(iso[n]))
<1>1. TpInv => \A n \in Node : Reassembly(iso[n])
  BY DEF TpInv
<1> QED
  BY <1>1, TpInvariance, PTL

\* A consecutive frame leaves no earlier than the separation time after the
\* one before it, although the counter that timer_st is taken from wraps.
THEOREM SeparationTimeKept == TpSpec => SeparationKept
<1>1. TpInv /\ [TpNext]_tpvars =>
        [\A n \in Node : block'[n] = block[n] + 1 =>
           since[n] >= RequiredSt(iso[n].st_min)]_tpvars
  <2> SUFFICES ASSUME TpInv, TpNext, NEW n \in Node, block'[n] = block[n] + 1
               PROVE  since[n] >= RequiredSt(iso[n].st_min)
    BY DEF tpvars
  <2>1. block \in [Node -> Nat] /\ block[n] \in Nat /\ since[n] \in 0 .. TP_TIME_MOD
    BY DEF TpInv
  <2>2. block' # block
    BY <2>1
  <2>3. ASSUME NEW p \in Node, NEW after, NEW answer, Arrive(p, after, answer)
        PROVE  FALSE
    <3>1. \A x \in Nat : x + 1 # x /\ 0 # x + 1
      OBVIOUS
    <3>2. block'[n] \in {0, block[n]}
      BY <2>1, <2>3 DEF Arrive
    <3> QED
      BY <2>1, <3>1, <3>2
  <2>4. PICK p \in Node : ProcessTp(p)
    BY <2>2, <2>3 DEF TpNext, SendMsg, Receive, ReceiveAndAnswer, Lose, Double, TpTick
  <2> DEFINE o == uds_tp_isotp_process(iso[p], now, CanSend(p))
  <2>5. /\ iso[p].state = ISOTP_TX_SENDING_CF
        /\ block' = [block EXCEPT ![p] = IF o.frames # <<>> THEN @ + 1 ELSE @]
    BY <2>4 DEF ProcessTp
  <2>6. p = n /\ o.frames # <<>>
    <3>1. \A x \in Nat : x + 1 # x
      OBVIOUS
    <3> HIDE DEF o
    <3> QED
      BY <2>1, <2>5, <3>1
  <2>7. Good(iso[n]) /\ now \in TpTime /\ Apart(n)
    BY DEF TpInv, Good
  <2>8. ~TooEarly(iso[n], now)
    BY <2>5, <2>6, <2>7, ProcessGood
  <2> DEFINE d == (now - iso[n].timer_st) % TP_TIME_MOD
             r == RequiredSt(iso[n].st_min)
  <2>9. ~(d < r) /\ d <= since[n]
    BY <2>7, <2>8 DEF TooEarly, Apart
  <2>10. d \in 0 .. TP_TIME_MOD - 1
    BY <2>7, IsoTpAssumption, WrapDifference DEF Good, IsoCtx, TpTime
  <2>11. r \in Nat
    <3>1. iso[n].st_min \in BsByte
      BY <2>7 DEF Good, IsoCtx
    <3>2. \A s \in BsByte : RequiredSt(s) \in Nat
      BY DEF RequiredSt, BsByte
    <3> QED
      BY <3>1, <3>2
  <2>12. TP_TIME_MOD \in Nat
    BY IsoTpAssumption
  <2> HIDE DEF d, r
  <2>13. since[n] >= r
    BY <2>1, <2>9, <2>10, <2>11, <2>12
  <2> QED
    BY <2>13 DEF r
<1> QED
  BY <1>1, TpInvariance, PTL DEF TpSpec, SeparationKept

-----------------------------------------------------------------------------
(* The order of delivery: frames on their way *)

\* Where consecutive frame c of a message (0: the first) begins.
Offset(c) == MAX_FF + c * MAX_CF

\* A mark: the place of a message among those the sender has sent, and the
\* number of a consecutive frame of it.
Mark == [j: Nat, c: Nat]

\* Frames of messages, and the ones that begin a message.
Bears(f) == f.k # "FC"
Opens(f) == f.k \in {"SF", "FF"}

\* f is a frame of message m; if it is a consecutive one, number c.
Shows(f, m, c) ==
  \/ f = Sf(m) /\ m.len <= MAX_SF
  \/ f = Ff(m) /\ MAX_SF < m.len /\ m.len <= TX_BUF
  \/ f = Cf((c + 1) % SN_MOD, m, Offset(c)) /\ Offset(c) < m.len

\* Frames of segmented messages, with none of them between, before or after.
Carries(f) == f.k \in {"FF", "CF"}
Adjacent(q, i, j) ==
  /\ i < j /\ Carries(q[i]) /\ Carries(q[j])
  /\ \A h \in DOMAIN q : i < h /\ h < j => ~Carries(q[h])
First(q, j) == Carries(q[j]) /\ \A h \in DOMAIN q : h < j => ~Carries(q[h])
Last(q, i) == Carries(q[i]) /\ \A h \in DOMAIN q : i < h => ~Carries(q[h])
Bare(q) == \A h \in DOMAIN q : ~Carries(q[h])

\* A consecutive frame marked h goes on where f, marked g, has stopped (or
\* repeats it).
Continues(f, g, h) ==
  /\ f.k = "FF" => h.j = g.j /\ h.c = 0
  /\ f.k = "CF" => h.j = g.j /\ h.c \in {g.c, g.c + 1}

\* In the middle of sending.
Active(i) == i.state \in {ISOTP_TX_WAIT_FC, ISOTP_TX_SENDING_CF}

\* A context in the middle of message m, whose consecutive frame c is next.
Reaches(i, m, c) ==
  /\ i.msg_len = m.len /\ i.bytes_processed = Offset(c) /\ Offset(c) < m.len
  /\ i.sn = (c + 1) % SN_MOD /\ m.len <= TX_BUF

\* The frames on the way, marked: what they show, what follows what, and that
\* they come in the order of sending, after the last message delivered.
Marked(q, t, snt, l) ==
  /\ t \in Seq(Mark) /\ Len(t) = Len(q)
  /\ \A i \in DOMAIN q : Bears(q[i]) =>
       t[i].j \in DOMAIN snt /\ Shows(q[i], snt[t[i].j], t[i].c)
  /\ \A i, j \in DOMAIN q : Adjacent(q, i, j) /\ q[j].k = "CF" => Continues(q[i], t[i], t[j])
  /\ \A j \in DOMAIN q : Opens(q[j]) => l < t[j].j
  /\ \A i, j \in DOMAIN q : i < j /\ Bears(q[i]) /\ Opens(q[j]) =>
       t[i].j <= t[j].j /\ (q[i].k # "FF" => t[i].j < t[j].j)

\* The sender has just sent the last of them.
Sends(q, t, tx, s, snt) ==
  Active(tx) =>
    /\ s.j \in DOMAIN snt /\ tx.pending_tx = snt[s.j] /\ Reaches(tx, snt[s.j], s.c)
    /\ \A i \in DOMAIN q : Last(q, i) =>
         /\ q[i].k = "FF" => t[i].j = s.j /\ s.c = 0
         /\ q[i].k = "CF" => t[i].j = s.j /\ s.c = t[i].c + 1

\* The receiver waits for the first of them, give or take the frames that were
\* lost or doubled.
Waits(q, t, rx, r, tx, s, snt, l, flt) ==
  rx.state = ISOTP_RX_WAIT_CF =>
    /\ r.j \in DOMAIN snt /\ l < r.j /\ Reaches(rx, snt[r.j], r.c)
    /\ rx.rx_buffer = Bytes(snt[r.j], 0, Offset(r.c))
    /\ \A j \in DOMAIN q : Opens(q[j]) => r.j <= t[j].j
    /\ \A j \in DOMAIN q : First(q, j) /\ q[j].k = "CF" =>
         t[j].j = r.j /\ r.c <= t[j].c + 1 /\ t[j].c <= r.c + flt
    /\ Bare(q) /\ Active(tx) => s.j = r.j /\ r.c <= s.c /\ s.c <= r.c + flt

\* One direction: the queue q with its marks t, the receiver rx at mark r, the
\* sender tx at mark s, what was sent, the last message delivered and the number
\* of faults.
Link(q, t, rx, r, tx, s, snt, l, flt) ==
  /\ Marked(q, t, snt, l) /\ Sends(q, t, tx, s, snt)
  /\ Waits(q, t, rx, r, tx, s, snt, l, flt)

\* What a frame is made of.
LEMMA Kinds ==
  ASSUME NEW m, NEW c, NEW sn, NEW bs, NEW st
  PROVE  /\ Sf(m).k = "SF" /\ Ff(m).k = "FF" /\ Cf(sn, m, c).k = "CF" /\ Fc(bs, st).k = "FC"
         /\ Sf(m).len = m.len /\ Ff(m).len = m.len /\ Cf(sn, m, c).sn = sn
         /\ Sf(m).data = Bytes(m, 0, MAX_SF) /\ Ff(m).data = Bytes(m, 0, MAX_FF)
         /\ Cf(sn, m, c).data = Bytes(m, c, MAX_CF)
BY DEF Sf, Ff, Cf, Fc

\* A frame that shows a message is what its kind says.
LEMMA ShownKinds ==
  ASSUME NEW f, NEW m, NEW c, Shows(f, m, c)
  PROVE  /\ Bears(f) /\ f.k \in {"SF", "FF", "CF"}
         /\ f.k = "SF" => f = Sf(m) /\ m.len <= MAX_SF
         /\ f.k = "FF" => f = Ff(m) /\ MAX_SF < m.len /\ m.len <= TX_BUF
         /\ f.k = "CF" => f = Cf((c + 1) % SN_MOD, m, Offset(c)) /\ Offset(c) < m.len
BY Kinds DEF Shows, Bears

\* A queue without its head.
LEMMA Dropped ==
  ASSUME NEW S, NEW q \in Seq(S), q # <<>>
  PROVE  LET z == Tail(q)
         IN  /\ z \in Seq(S) /\ Len(z) = Len(q) - 1 /\ 1 \in DOMAIN q /\ Head(q) = q[1]
             /\ \A i \in DOMAIN z : i \in Nat /\ i >= 1 /\ i + 1 \in DOMAIN q /\ z[i] = q[i + 1]
             /\ \A i \in DOMAIN q : i \in Nat /\ (i = 1 \/ (i > 1 /\ i - 1 \in DOMAIN z))
<1> DEFINE z == Tail(q)
<1>1. Len(q) \in Nat /\ DOMAIN q = 1 .. Len(q) /\ Len(q) # 0
  OBVIOUS
<1>2. z \in Seq(S) /\ Len(z) = Len(q) - 1
  BY <1>1
<1>3. DOMAIN z = 1 .. Len(q) - 1
  BY <1>1, <1>2
<1>4. \A i \in 1 .. Len(q) - 1 : z[i] = q[i + 1]
  BY <1>1, <1>2
<1>5. 1 \in DOMAIN q /\ Head(q) = q[1]
  BY <1>1
<1> HIDE DEF z
<1>6. \A i \in 1 .. Len(q) - 1 : i \in Nat /\ i >= 1 /\ i + 1 \in 1 .. Len(q)
  BY <1>1
<1>7. \A i \in 1 .. Len(q) : i \in Nat /\ (i = 1 \/ (i > 1 /\ i - 1 \in 1 .. Len(q) - 1))
  BY <1>1
<1> QED
  BY <1>1, <1>2, <1>3, <1>4, <1>5, <1>6, <1>7 DEF z

\* A queue with a frame more.
LEMMA Added ==
  ASSUME NEW S, NEW q \in Seq(S), NEW f \in S
  PROVE  LET z == q \o <<f>>
         IN  /\ z \in Seq(S) /\ Len(z) = Len(q) + 1 /\ Len(q) \in Nat
             /\ \A i \in DOMAIN q : i \in Nat /\ i < Len(q) + 1 /\ i \in DOMAIN z /\ z[i] = q[i]
             /\ Len(q) + 1 \in DOMAIN z /\ z[Len(q) + 1] = f
             /\ \A i \in DOMAIN z : i \in Nat /\ (i \in DOMAIN q \/ i = Len(q) + 1)
<1> DEFINE z == q \o <<f>>
<1>1. Len(q) \in Nat /\ DOMAIN q = 1 .. Len(q)
  OBVIOUS
<1>2. z \in Seq(S) /\ Len(z) = Len(q) + 1
  OBVIOUS
<1>3. DOMAIN z = 1 .. Len(q) + 1
  BY <1>1, <1>2
<1>4. \A i \in 1 .. Len(q) : z[i] = q[i]
  BY <1>1
<1>5. z[Len(q) + 1] = f
  BY <1>1
<1> HIDE DEF z
<1>6. \A i \in 1 .. Len(q) : i \in Nat /\ i < Len(q) + 1 /\ i \in 1 .. Len(q) + 1
  BY <1>1
<1>7. \A i \in 1 .. Len(q) + 1 : i \in Nat /\ (i \in 1 .. Len(q) \/ i = Len(q) + 1)
  BY <1>1
<1>8. Len(q) + 1 \in 1 .. Len(q) + 1
  BY <1>1
<1> QED
  BY <1>1, <1>2, <1>3, <1>4, <1>5, <1>6, <1>7, <1>8 DEF z

\* A queue with its head twice.
LEMMA Repeated ==
  ASSUME NEW S, NEW q \in Seq(S), q # <<>>
  PROVE  LET z == <<Head(q)>> \o q
         IN  /\ z \in Seq(S) /\ Len(z) = Len(q) + 1 /\ 1 \in DOMAIN q /\ Head(q) = q[1]
             /\ 1 \in DOMAIN z /\ 2 \in DOMAIN z /\ z[1] = q[1] /\ z[2] = q[1]
             /\ \A i \in DOMAIN z : i \in Nat /\ (i = 1 \/ (i > 1 /\ i - 1 \in DOMAIN q /\ z[i] = q[i - 1]))
             /\ \A i \in DOMAIN q : i \in Nat /\ i >= 1 /\ i + 1 \in DOMAIN z /\ z[i + 1] = q[i]
<1> DEFINE z == <<Head(q)>> \o q
<1>1. Len(q) \in Nat /\ DOMAIN q = 1 .. Len(q) /\ Len(q) # 0
  OBVIOUS
<1>2. Head(q) = q[1] /\ q[1] \in S /\ 1 \in 1 .. Len(q)
  BY <1>1
<1>3. z \in Seq(S) /\ Len(z) = Len(q) + 1
  BY <1>2
<1>4. DOMAIN z = 1 .. Len(q) + 1
  BY <1>1, <1>3
<1>5. z[1] = q[1] /\ \A i \in 1 .. Len(q) : z[i + 1] = q[i]
  BY <1>1, <1>2
<1> HIDE DEF z
<1>6. \A i \in 1 .. Len(q) + 1 : i \in Nat /\ (i = 1 \/ (i > 1 /\ i - 1 \in 1 .. Len(q) /\ (i - 1) + 1 = i))
  BY <1>1
<1>7. \A i \in 1 .. Len(q) : i \in Nat /\ i >= 1 /\ i + 1 \in 1 .. Len(q) + 1
  BY <1>1
<1>8. 1 \in 1 .. Len(q) + 1 /\ 2 \in 1 .. Len(q) + 1 /\ z[2] = q[1]
  BY <1>1, <1>2, <1>5
<1> QED
  BY <1>1, <1>2, <1>3, <1>4, <1>5, <1>6, <1>7, <1>8 DEF z

-----------------------------------------------------------------------------
(* A frame leaves the queue *)

\* What was next, first or last, once the head is gone.
LEMMA DroppedPlaces ==
  ASSUME NEW S, NEW q \in Seq(S), q # <<>>
  PROVE  LET z == Tail(q)
         IN  /\ \A i, j \in DOMAIN z : Adjacent(z, i, j) => Adjacent(q, i + 1, j + 1)
             /\ \A i \in DOMAIN z : Last(z, i) => Last(q, i + 1)
             /\ \A j \in DOMAIN z : First(z, j) =>
                  IF Carries(q[1]) THEN Adjacent(q, 1, j + 1) ELSE First(q, j + 1)
             /\ Bare(z) => IF Carries(q[1]) THEN Last(q, 1) ELSE Bare(q)
<1> DEFINE z == Tail(q)
<1>1. /\ 1 \in DOMAIN q
      /\ \A i \in DOMAIN z : i \in Nat /\ i >= 1 /\ i + 1 \in DOMAIN q /\ z[i] = q[i + 1]
      /\ \A i \in DOMAIN q : i \in Nat /\ (i = 1 \/ (i > 1 /\ i - 1 \in DOMAIN z))
  BY Dropped
<1> HIDE DEF z
<1>2. \A h \in DOMAIN q : h = 1 \/ (h \in Nat /\ h - 1 \in DOMAIN z /\ h - 1 \in Nat /\ q[h] = z[h - 1])
  BY <1>1
<1>3. ASSUME NEW i \in DOMAIN z, NEW j \in DOMAIN z, Adjacent(z, i, j)
      PROVE  Adjacent(q, i + 1, j + 1)
  <2>1. /\ i \in Nat /\ j \in Nat /\ i < j /\ Carries(q[i + 1]) /\ Carries(q[j + 1])
        /\ \A h \in DOMAIN z : i < h /\ h < j => ~Carries(z[h])
    BY <1>1, <1>3 DEF Adjacent
  <2>2. ASSUME NEW h \in DOMAIN q, i + 1 < h, h < j + 1 PROVE ~Carries(q[h])
    <3>1. h # 1
      BY <1>1, <2>1, <2>2
    <3>2. h - 1 \in DOMAIN z /\ q[h] = z[h - 1] /\ h \in Nat
      BY <1>2, <3>1
    <3>3. i < h - 1 /\ h - 1 < j
      BY <2>1, <2>2, <3>2
    <3> QED
      BY <2>1, <3>2, <3>3
  <2>3. i + 1 < j + 1
    BY <2>1
  <2> QED
    BY <2>1, <2>2, <2>3 DEF Adjacent
<1>4. ASSUME NEW i \in DOMAIN z, Last(z, i)
      PROVE  Last(q, i + 1)
  <2>1. /\ i \in Nat /\ i >= 1 /\ Carries(q[i + 1])
        /\ \A h \in DOMAIN z : i < h => ~Carries(z[h])
    BY <1>1, <1>4 DEF Last
  <2>2. ASSUME NEW h \in DOMAIN q, i + 1 < h PROVE ~Carries(q[h])
    <3>1. h # 1
      BY <1>1, <2>1, <2>2
    <3>2. h - 1 \in DOMAIN z /\ q[h] = z[h - 1] /\ h \in Nat
      BY <1>2, <3>1
    <3>3. i < h - 1
      BY <2>1, <2>2, <3>2
    <3> QED
      BY <2>1, <3>2, <3>3
  <2> QED
    BY <2>1, <2>2 DEF Last
<1>5. ASSUME NEW j \in DOMAIN z, First(z, j), Carries(q[1])
      PROVE  Adjacent(q, 1, j + 1)
  <2>1. /\ j \in Nat /\ j >= 1 /\ Carries(q[j + 1])
        /\ \A h \in DOMAIN z : h < j => ~Carries(z[h])
    BY <1>1, <1>5 DEF First
  <2>2. ASSUME NEW h \in DOMAIN q, 1 < h, h < j + 1 PROVE ~Carries(q[h])
    <3>1. h # 1
      BY <2>2
    <3>2. h - 1 \in DOMAIN z /\ q[h] = z[h - 1] /\ h \in Nat
      BY <1>2, <3>1
    <3>3. h - 1 < j
      BY <2>1, <2>2, <3>2
    <3> QED
      BY <2>1, <3>2, <3>3
  <2>3. 1 < j + 1
    BY <2>1
  <2> QED
    BY <1>5, <2>1, <2>2, <2>3 DEF Adjacent
<1>6. ASSUME NEW j \in DOMAIN z, First(z, j), ~Carries(q[1])
      PROVE  First(q, j + 1)
  <2>1. /\ j \in Nat /\ Carries(q[j + 1])
        /\ \A h \in DOMAIN z : h < j => ~Carries(z[h])
    BY <1>1, <1>6 DEF First
  <2>2. ASSUME NEW h \in DOMAIN q, h # 1, h < j + 1 PROVE ~Carries(q[h])
    <3>1. h - 1 \in DOMAIN z /\ q[h] = z[h - 1] /\ h \in Nat
      BY <1>2, <2>2
    <3>2. h - 1 < j
      BY <2>1, <2>2, <3>1
    <3> QED
      BY <2>1, <3>1, <3>2
  <2> QED
    BY <1>6, <2>1, <2>2 DEF First
<1>7. ASSUME Bare(z), Carries(q[1]) PROVE Last(q, 1)
  BY <1>2, <1>7 DEF Bare, Last
<1>8. ASSUME Bare(z), ~Carries(q[1]) PROVE Bare(q)
  BY <1>2, <1>8 DEF Bare
<1> QED
  BY <1>3, <1>4, <1>5, <1>6, <1>7, <1>8 DEF z

\* A queue and its marks lose their heads together.
LEMMA DroppedPair ==
  ASSUME NEW S, NEW q \in Seq(S), q # <<>>, NEW t \in Seq(Mark), Len(t) = Len(q)
  PROVE  LET z == Tail(q)
             u == Tail(t)
         IN  /\ u \in Seq(Mark) /\ Len(u) = Len(z) /\ t # <<>>
             /\ \A i \in DOMAIN z : z[i] = q[i + 1] /\ u[i] = t[i + 1] /\ i + 1 \in DOMAIN q
                                    /\ 1 < i + 1 /\ i \in Nat
<1> DEFINE z == Tail(q)
           u == Tail(t)
<1>1. /\ z \in Seq(S) /\ Len(z) = Len(q) - 1
      /\ \A i \in DOMAIN z : i \in Nat /\ i >= 1 /\ i + 1 \in DOMAIN q /\ z[i] = q[i + 1]
  BY Dropped
<1>2. t # <<>>
  OBVIOUS
<1>3. /\ u \in Seq(Mark) /\ Len(u) = Len(t) - 1
      /\ \A i \in DOMAIN u : u[i] = t[i + 1]
  BY <1>2, Dropped
<1>4. Len(u) = Len(z) /\ DOMAIN u = DOMAIN z
  BY <1>1, <1>3
<1> HIDE DEF z, u
<1>5. \A i \in DOMAIN z : 1 < i + 1
  BY <1>1
<1> QED
  BY <1>1, <1>2, <1>3, <1>4, <1>5 DEF z, u

\* Marks are marks.
LEMMA MarksType ==
  ASSUME NEW S, NEW q \in Seq(S), NEW t \in Seq(Mark), Len(t) = Len(q)
  PROVE  \A i \in DOMAIN q : i \in DOMAIN t /\ t[i] \in Mark /\ t[i].j \in Nat /\ t[i].c \in Nat
<1>1. DOMAIN t = DOMAIN q
  OBVIOUS
<1>2. \A i \in DOMAIN t : t[i] \in Mark
  OBVIOUS
<1>3. \A g \in Mark : g.j \in Nat /\ g.c \in Nat
  BY DEF Mark
<1> QED
  BY <1>1, <1>2, <1>3

\* What is left of a marked queue is marked.
LEMMA DroppedMarks ==
  ASSUME NEW S, NEW q \in Seq(S), q # <<>>, NEW t, NEW snt, NEW l, Marked(q, t, snt, l)
  PROVE  Marked(Tail(q), Tail(t), snt, l)
<1> DEFINE z == Tail(q)
           u == Tail(t)
<1>1. t \in Seq(Mark) /\ Len(t) = Len(q)
  BY DEF Marked
<1>2. /\ u \in Seq(Mark) /\ Len(u) = Len(z)
      /\ \A i \in DOMAIN z : z[i] = q[i + 1] /\ u[i] = t[i + 1] /\ i + 1 \in DOMAIN q
                             /\ i \in Nat
  BY <1>1, DroppedPair
<1>3. \A i, j \in DOMAIN z : Adjacent(z, i, j) => Adjacent(q, i + 1, j + 1)
  BY DroppedPlaces
<1> HIDE DEF z, u
<1>4. \A i, j \in DOMAIN z : i < j => i + 1 < j + 1
  BY <1>2
<1>5. \A i, j \in DOMAIN z : Adjacent(z, i, j) /\ z[j].k = "CF" => Continues(z[i], u[i], u[j])
  BY <1>2, <1>3 DEF Marked
<1>6. Marked(z, u, snt, l)
  BY <1>2, <1>4, <1>5 DEF Marked
<1> QED
  BY <1>6 DEF z, u

\* A sender that does not notice.
LEMMA DroppedSends ==
  ASSUME NEW S, NEW q \in Seq(S), q # <<>>, NEW t, NEW snt, NEW l, Marked(q, t, snt, l),
         NEW tx, NEW s, Sends(q, t, tx, s, snt)
  PROVE  Sends(Tail(q), Tail(t), tx, s, snt)
<1> DEFINE z == Tail(q)
           u == Tail(t)
<1>0. t \in Seq(Mark) /\ Len(t) = Len(q)
  BY DEF Marked
<1>1. \A i \in DOMAIN z : z[i] = q[i + 1] /\ u[i] = t[i + 1] /\ i + 1 \in DOMAIN q
  BY <1>0, DroppedPair
<1>2. \A i \in DOMAIN z : Last(z, i) => Last(q, i + 1)
  BY DroppedPlaces
<1> HIDE DEF z, u
<1>3. Sends(z, u, tx, s, snt)
  BY <1>1, <1>2 DEF Sends
<1> QED
  BY <1>3 DEF z, u

\* A receiver that waits, and does not see the frame or does not need it.
LEMMA DroppedWaits ==
  ASSUME NEW S, NEW q \in Seq(S), q # <<>>, NEW t, NEW snt, NEW l, Marked(q, t, snt, l),
         NEW tx, NEW s \in Mark, Sends(q, t, tx, s, snt), NEW rx, NEW r \in Mark,
         NEW flt \in Nat, NEW g \in Nat, flt <= g, q[1].k \in {"SF", "CF", "FC"},
         q[1].k = "CF" => flt + 1 <= g,
         Waits(q, t, rx, r, tx, s, snt, l, flt)
  PROVE  Waits(Tail(q), Tail(t), rx, r, tx, s, snt, l, g)
<1> DEFINE z == Tail(q)
           u == Tail(t)
<1>0. t \in Seq(Mark) /\ Len(t) = Len(q)
  BY DEF Marked
<1>1. \A i \in DOMAIN z : z[i] = q[i + 1] /\ u[i] = t[i + 1] /\ i + 1 \in DOMAIN q
  BY <1>0, DroppedPair
<1>2. /\ \A j \in DOMAIN z : First(z, j) =>
           IF Carries(q[1]) THEN Adjacent(q, 1, j + 1) ELSE First(q, j + 1)
      /\ Bare(z) => IF Carries(q[1]) THEN Last(q, 1) ELSE Bare(q)
  BY DroppedPlaces
<1>3. 1 \in DOMAIN q
  BY Dropped
<1>5. \A i \in DOMAIN q : t[i] \in Mark /\ t[i].j \in Nat /\ t[i].c \in Nat
  BY <1>0, MarksType
<1>6. r.c \in Nat /\ s.c \in Nat
  BY DEF Mark
<1> HIDE DEF z, u
<1> SUFFICES ASSUME rx.state = ISOTP_RX_WAIT_CF
             PROVE  /\ \A j \in DOMAIN z : First(z, j) /\ z[j].k = "CF" =>
                         u[j].j = r.j /\ r.c <= u[j].c + 1 /\ u[j].c <= r.c + g
                    /\ Bare(z) /\ Active(tx) => s.j = r.j /\ r.c <= s.c /\ s.c <= r.c + g
  <2>1. rx.state = ISOTP_RX_WAIT_CF => \A j \in DOMAIN z : Opens(z[j]) => r.j <= u[j].j
    BY <1>1 DEF Waits
  <2>2. Waits(z, u, rx, r, tx, s, snt, l, g)
    BY <2>1 DEF Waits
  <2> QED
    BY <2>2 DEF z, u
<1>7. CASE q[1].k \in {"SF", "FC"}
  <2>1. ~Carries(q[1])
    BY <1>7 DEF Carries
  <2>2. \A j \in DOMAIN z : First(z, j) /\ z[j].k = "CF" =>
          u[j].j = r.j /\ r.c <= u[j].c + 1 /\ u[j].c <= r.c + flt
    BY <1>1, <1>2, <2>1 DEF Waits
  <2>3. Bare(z) /\ Active(tx) => s.j = r.j /\ r.c <= s.c /\ s.c <= r.c + flt
    BY <1>2, <2>1 DEF Waits
  <2>4. \A x, y \in Nat : x <= y + flt => x <= y + g
    OBVIOUS
  <2>5. \A j \in DOMAIN z : u[j].c \in Nat
    BY <1>1, <1>5
  <2> QED
    BY <1>6, <2>2, <2>3, <2>4, <2>5, ZenonT(40)
<1>8. CASE q[1].k = "CF"
  <2>1. Carries(q[1])
    BY <1>8 DEF Carries
  <2>2. First(q, 1)
    BY <1>3, <2>1, Dropped DEF First
  <2>3. t[1].j = r.j /\ r.c <= t[1].c + 1 /\ t[1].c <= r.c + flt
    BY <1>3, <1>8, <2>2 DEF Waits
  <2>4. ASSUME NEW j \in DOMAIN z, First(z, j), z[j].k = "CF"
        PROVE  u[j].j = r.j /\ r.c <= u[j].c + 1 /\ u[j].c <= r.c + g
    <3>1. Adjacent(q, 1, j + 1) /\ q[j + 1].k = "CF" /\ u[j] = t[j + 1] /\ j + 1 \in DOMAIN q
      BY <1>1, <1>2, <2>1, <2>4
    <3>2. u[j].j = t[1].j /\ u[j].c \in {t[1].c, t[1].c + 1}
      BY <1>3, <1>8, <3>1 DEF Marked, Continues
    <3>3. t[1].c \in Nat /\ flt + 1 <= g
      BY <1>3, <1>5, <1>8
    <3>4. CASE u[j].c = t[1].c
      BY <1>6, <2>3, <3>2, <3>3, <3>4
    <3>5. CASE u[j].c = t[1].c + 1
      BY <1>6, <2>3, <3>2, <3>3, <3>5
    <3> QED
      BY <3>2, <3>4, <3>5
  <2>5. ASSUME Bare(z), Active(tx)
        PROVE  s.j = r.j /\ r.c <= s.c /\ s.c <= r.c + g
    <3>1. Last(q, 1)
      BY <1>2, <2>1, <2>5
    <3>2. t[1].j = s.j /\ s.c = t[1].c + 1
      BY <1>3, <1>8, <2>5, <3>1 DEF Sends
    <3> QED
      BY <1>3, <1>5, <1>6, <1>8, <2>3, <3>2
  <2> QED
    BY <2>4, <2>5
<1> QED
  BY <1>7, <1>8

-----------------------------------------------------------------------------
(* Bytes *)

\* Pieces of a message, put together.
LEMMA BytesJoin ==
  ASSUME NEW m \in Msg, NEW a \in Nat, NEW b \in Nat, NEW k \in Nat, k <= b, a + k <= m.len
  PROVE  /\ SubSeq(Bytes(m, 0, a), 1, a) \o SubSeq(Bytes(m, a, b), 1, k) = Bytes(m, 0, a + k)
         /\ SubSeq(Bytes(m, a, b), 1, k) = Bytes(m, a, k)
<1>1. m.len \in Nat /\ m \in Msg \cup {NoTx}
  BY IsoTpAssumption
<1> DEFINE x == Bytes(m, 0, a)
           y == Bytes(m, a, b)
           z == SubSeq(y, 1, k)
           w == Bytes(m, 0, a + k)
<1>2. x \in Seq(Octet) /\ Len(x) = a /\ y \in Seq(Octet) /\ Len(y) = b
  BY <1>1, BytesType
<1>3. w \in Seq(Octet) /\ Len(w) = a + k
  BY <1>1, BytesType
<1>4. /\ \A i \in 1 .. a : x[i] = IF 0 + i <= m.len THEN <<m, 0 + i>> ELSE Pad
      /\ \A i \in 1 .. b : y[i] = IF a + i <= m.len THEN <<m, a + i>> ELSE Pad
      /\ \A i \in 1 .. a + k : w[i] = IF 0 + i <= m.len THEN <<m, 0 + i>> ELSE Pad
  BY DEF Bytes
<1>5. z = Bytes(m, a, k)
  <2>1. Bytes(m, a, k) \in Seq(Octet) /\ Len(Bytes(m, a, k)) = k
    BY <1>1, BytesType
  <2>2. \A i \in 1 .. k : Bytes(m, a, k)[i] = IF a + i <= m.len THEN <<m, a + i>> ELSE Pad
    BY DEF Bytes
  <2> HIDE DEF y
  <2>3. z \in Seq(Octet) /\ Len(z) = k
    BY <1>2
  <2>4. \A i \in 1 .. k : z[i] = y[i]
    BY <1>2
  <2>5. \A i \in 1 .. k : i \in 1 .. b
    OBVIOUS
  <2> HIDE DEF z
  <2>6. ASSUME NEW i \in 1 .. k PROVE z[i] = Bytes(m, a, k)[i]
    <3>1. z[i] = y[i] /\ i \in 1 .. b
      BY <2>4, <2>5
    <3>2. y[i] = IF a + i <= m.len THEN <<m, a + i>> ELSE Pad
      BY <1>4, <3>1
    <3> QED
      BY <2>2, <3>1, <3>2
  <2> QED
    BY <2>1, <2>3, <2>6, SeqEqual
<1>6. SubSeq(x, 1, a) = x
  <2> HIDE DEF x
  <2> QED
    BY <1>2
<1>7. z \in Seq(Octet) /\ Len(z) = k /\ \A i \in 1 .. k : z[i] = <<m, a + i>>
  <2>1. z \in Seq(Octet) /\ Len(z) = k
    BY <1>1, <1>5, BytesType
  <2>2. \A i \in 1 .. k : Bytes(m, a, k)[i] = IF a + i <= m.len THEN <<m, a + i>> ELSE Pad
    BY DEF Bytes
  <2>3. \A i \in 1 .. k : a + i <= m.len
    BY <1>1
  <2> HIDE DEF z
  <2> QED
    BY <1>5, <2>1, <2>2, <2>3
<1> HIDE DEF x, y, z, w
<1>8. x \o z = w
  <2>1. x \o z \in Seq(Octet) /\ Len(x \o z) = a + k
    BY <1>2, <1>7, ConcatProperties
  <2>3. \A i \in 1 .. a + k : (x \o z)[i] = IF i <= a THEN x[i] ELSE z[i - a]
    BY <1>2, <1>7, ConcatProperties
  <2>2. ASSUME NEW i \in 1 .. a + k PROVE (x \o z)[i] = w[i]
    <3>1. w[i] = <<m, i>>
      <4>1. i <= m.len /\ 0 + i = i
        BY <1>1
      <4> QED
        BY <1>4, <4>1
    <3>2. CASE i <= a
      <4>1. i \in 1 .. a /\ i <= m.len /\ 0 + i = i
        BY <1>1, <3>2
      <4>2. (x \o z)[i] = x[i]
        BY <2>3, <3>2
      <4> QED
        BY <1>4, <3>1, <4>1, <4>2
    <3>3. CASE ~(i <= a)
      <4>1. i - a \in 1 .. k /\ a + (i - a) = i
        BY <3>3
      <4>2. (x \o z)[i] = z[i - a]
        BY <2>3, <3>3
      <4> QED
        BY <1>7, <3>1, <4>1, <4>2
    <3> QED
      BY <3>2, <3>3
  <2> QED
    BY <1>3, <2>1, <2>2, SeqEqual
<1>9. SubSeq(x, 1, a) \o z = w /\ z = Bytes(m, a, k)
  BY <1>5, <1>6, <1>8
<1> QED
  BY <1>9 DEF x, y, z, w

\* Messages that are not empty differ in their bytes.
LEMMA ContentDiffers ==
  ASSUME NEW m \in Msg, NEW e \in Msg, m.len # 0, Content(m) = Content(e)
  PROVE  m = e
<1>1. m.len \in Nat /\ e.len \in Nat
  BY IsoTpAssumption
<1>2. /\ Content(m) \in Seq(Octet) /\ Len(Content(m)) = m.len
      /\ Content(e) \in Seq(Octet) /\ Len(Content(e)) = e.len
  BY <1>1, BytesType DEF Content
<1>3. e.len = m.len
  BY <1>2
<1>4. 1 \in 1 .. m.len /\ 0 + 1 = 1 /\ 1 <= m.len
  BY <1>1
<1>5. Content(m)[1] = <<m, 1>> /\ Content(e)[1] = <<e, 1>>
  BY <1>3, <1>4 DEF Content, Bytes
<1> QED
  BY <1>5

-----------------------------------------------------------------------------
(* Sequence numbers and offsets *)

\* Where the next consecutive frame begins.
LEMMA OffsetNext ==
  ASSUME NEW c \in Nat
  PROVE  /\ Offset(c) \in Nat /\ Offset(0) = MAX_FF
         /\ Offset(c + 1) = Offset(c) + MAX_CF
         /\ MAX_FF <= Offset(c)
BY IsoTpAssumption DEF Offset

-----------------------------------------------------------------------------
(* Single and first frames arrive *)

\* What the head of a marked queue shows.
LEMMA HeadShows ==
  ASSUME NEW S, NEW q \in Seq(S), q # <<>>, NEW t, NEW snt \in Seq(Msg), NEW l,
         Marked(q, t, snt, l), Bears(q[1])
  PROVE  /\ 1 \in DOMAIN q /\ t[1].j \in DOMAIN snt /\ t[1].j \in Nat /\ t[1].c \in Nat
         /\ snt[t[1].j] \in Msg /\ snt[t[1].j].len \in Nat
         /\ Shows(q[1], snt[t[1].j], t[1].c) /\ (Carries(q[1]) => First(q, 1))
<1>1. 1 \in DOMAIN q /\ t \in Seq(Mark) /\ Len(t) = Len(q)
  BY DEF Marked
<1>2. t[1].j \in Nat /\ t[1].c \in Nat
  BY <1>1, MarksType
<1>3. t[1].j \in DOMAIN snt /\ Shows(q[1], snt[t[1].j], t[1].c)
  BY <1>1 DEF Marked
<1>4. snt[t[1].j] \in Msg
  BY <1>3
<1>5. Carries(q[1]) => First(q, 1)
  BY <1>1 DEF First
<1> QED
  BY <1>1, <1>2, <1>3, <1>4, <1>5, IsoTpAssumption

\* Messages that open later than the head.
LEMMA LaterOpens ==
  ASSUME NEW S, NEW q \in Seq(S), q # <<>>, NEW t, NEW snt, NEW l,
         Marked(q, t, snt, l), Bears(q[1])
  PROVE  \A j \in DOMAIN Tail(q) : Opens(Tail(q)[j]) =>
           t[1].j <= Tail(t)[j].j /\ (q[1].k # "FF" => t[1].j < Tail(t)[j].j)
<1> DEFINE z == Tail(q)
           u == Tail(t)
<1>1. 1 \in DOMAIN q /\ t \in Seq(Mark) /\ Len(t) = Len(q)
  BY DEF Marked
<1>2. \A i \in DOMAIN z : z[i] = q[i + 1] /\ u[i] = t[i + 1] /\ i + 1 \in DOMAIN q /\ 1 < i + 1
  BY <1>1, DroppedPair
<1> HIDE DEF z, u
<1>3. \A j \in DOMAIN z : Opens(z[j]) => t[1].j <= u[j].j /\ (q[1].k # "FF" => t[1].j < u[j].j)
  BY <1>1, <1>2 DEF Marked
<1> QED
  BY <1>3 DEF z, u

\* Once the message at the head is delivered, the rest is later.
LEMMA RaisedMarks ==
  ASSUME NEW z, NEW u, NEW snt, NEW l, NEW k, Marked(z, u, snt, l),
         \A j \in DOMAIN z : Opens(z[j]) => k < u[j].j
  PROVE  Marked(z, u, snt, k)
BY DEF Marked

\* A single frame is the whole of its message.
LEMMA TakeSf ==
  ASSUME NEW q \in Seq(Frames), q # <<>>, NEW t, NEW snt \in Seq(Msg), NEW l,
         Marked(q, t, snt, l), q[1].k = "SF", NEW rx \in IsoCtx
  PROVE  LET o == uds_rx_sf(rx, q[1])
             m == snt[t[1].j]
         IN  /\ o.iso.state = ISOTP_IDLE /\ l < t[1].j
             /\ \/ o.sdus = <<>>
                \/ o.sdus = <<Content(m)>> /\ m.len # 0
             /\ Marked(Tail(q), Tail(t), snt, t[1].j)
<1> DEFINE f == q[1]
           m == snt[t[1].j]
           o == uds_rx_sf(rx, f)
<1>1. Bears(f) /\ Opens(f)
  BY DEF Bears, Opens
<1>2. 1 \in DOMAIN q /\ m \in Msg /\ m.len \in Nat /\ Shows(f, m, t[1].c)
  BY <1>1, HeadShows
<1>3. f = Sf(m) /\ m.len <= MAX_SF
  BY <1>2, ShownKinds
<1>4. f.len = m.len /\ f.data = Bytes(m, 0, MAX_SF)
  BY <1>3 DEF Sf
<1>5. SubSeq(f.data, 1, f.len) = Content(m)
  <2>1. MAX_SF \in Nat /\ 0 + m.len <= m.len /\ 0 \in Nat
    BY <1>2, IsoTpAssumption
  <2>2. SubSeq(Bytes(m, 0, MAX_SF), 1, m.len) = Bytes(m, 0, m.len)
    BY <1>2, <1>3, <2>1, BytesJoin
  <2> QED
    BY <1>4, <2>2 DEF Content
<1>6. o.iso.state = ISOTP_IDLE
  BY DEF uds_rx_sf, Left, IsoCtx
<1>7. o.sdus = <<>> \/ (o.sdus = <<SubSeq(f.data, 1, f.len)>> /\ f.len # 0)
  BY DEF uds_rx_sf, Left
<1>8. l < t[1].j
  BY <1>1, <1>2 DEF Marked
<1>9. \A j \in DOMAIN Tail(q) : Opens(Tail(q)[j]) => t[1].j < Tail(t)[j].j
  BY <1>1, LaterOpens
<1>10. Marked(Tail(q), Tail(t), snt, t[1].j)
  <2>1. Marked(Tail(q), Tail(t), snt, l)
    BY DroppedMarks
  <2> QED
    BY <1>9, <2>1, RaisedMarks
<1> HIDE DEF o
<1> QED
  BY <1>4, <1>5, <1>6, <1>7, <1>8, <1>10 DEF o

\* Where a message of several frames begins.
LEMMA OffsetZero == MAX_FF = Offset(0) /\ 1 = (0 + 1) % SN_MOD
<1>1. SN_MOD \in Nat \ {0} /\ 1 \in 0 .. SN_MOD - 1 /\ 0 + 1 = 1
  BY IsoTpAssumption
<1>2. 1 % SN_MOD = 1
  BY <1>1, WrapSmall
<1>3. MAX_FF \in Nat /\ MAX_CF \in Nat
  BY IsoTpAssumption
<1>4. 0 * MAX_CF = 0
  BY <1>3
<1> QED
  BY <1>1, <1>2, <1>3, <1>4 DEF Offset

\* A first frame: the receiver waits for the first consecutive frame.
LEMMA TakeFf ==
  ASSUME NEW q \in Seq(Frames), q # <<>>, NEW t, NEW snt \in Seq(Msg), NEW l,
         Marked(q, t, snt, l), q[1].k = "FF", NEW rx \in IsoCtx, NEW tx, NEW s,
         Sends(q, t, tx, s, snt), NEW flt \in Nat
  PROVE  LET o == uds_rx_ff(rx, q[1])
             r == [j |-> t[1].j, c |-> 0]
         IN  r \in Mark /\ o.sdus = <<>>
             /\ Waits(Tail(q), Tail(t), o.iso, r, tx, s, snt, l, flt)
<1> DEFINE f == q[1]
           k == t[1].j
           m == snt[k]
           o == uds_rx_ff(rx, f)
           r == [j |-> k, c |-> 0]
           z == Tail(q)
           u == Tail(t)
<1>1. Bears(f) /\ Opens(f) /\ Carries(f)
  BY DEF Bears, Opens, Carries
<1>2. 1 \in DOMAIN q /\ m \in Msg /\ m.len \in Nat /\ Shows(f, m, t[1].c)
      /\ k \in Nat /\ k \in DOMAIN snt
  BY <1>1, HeadShows
<1>3. f = Ff(m) /\ MAX_SF < m.len /\ m.len <= TX_BUF
  BY <1>2, ShownKinds
<1>4. f.len = m.len /\ f.data = Bytes(m, 0, MAX_FF) /\ Len(f.data) = MAX_FF
  <2>1. MAX_FF \in Nat
    BY IsoTpAssumption
  <2>2. Ff(m).len = m.len /\ Ff(m).data = Bytes(m, 0, MAX_FF)
    BY DEF Ff
  <2>3. Len(Bytes(m, 0, MAX_FF)) = MAX_FF
    BY <1>2, <2>1, BytesType
  <2> QED
    BY <1>3, <2>2, <2>3
<1>5. r \in Mark /\ r.j = k /\ r.c = 0
  BY <1>2 DEF Mark
<1>6. o.sdus = <<>>
  BY DEF uds_rx_ff, Left
<1>7. o.iso.state = ISOTP_RX_WAIT_CF =>
        /\ o.iso.msg_len = f.len /\ o.iso.bytes_processed = Len(f.data) /\ o.iso.sn = 1
        /\ o.iso.rx_buffer = f.data
  BY DEF uds_rx_ff, Left, IsoCtx, ISOTP_IDLE, ISOTP_RX_WAIT_CF
<1>8. l < k
  BY <1>1, <1>2 DEF Marked
<1>9. \A j \in DOMAIN z : Opens(z[j]) => k <= u[j].j
  BY <1>1, LaterOpens
<1>10. t \in Seq(Mark) /\ Len(t) = Len(q)
  BY DEF Marked
<1>11. \A i \in DOMAIN z : z[i] = q[i + 1] /\ u[i] = t[i + 1] /\ i + 1 \in DOMAIN q
  BY <1>10, DroppedPair
<1>12. /\ \A j \in DOMAIN z : First(z, j) => Adjacent(q, 1, j + 1)
       /\ Bare(z) => Last(q, 1)
  BY <1>1, DroppedPlaces
<1>13. MAX_FF = Offset(0) /\ Offset(0) < m.len /\ 1 = (0 + 1) % SN_MOD
  <2>1. MAX_FF = Offset(0) /\ 1 = (0 + 1) % SN_MOD
    BY OffsetZero
  <2>2. MAX_FF \in Nat /\ MAX_SF \in Nat /\ MAX_FF <= MAX_SF
    BY IsoTpAssumption
  <2>3. MAX_FF < m.len
    BY <1>2, <1>3, <2>2
  <2> QED
    BY <2>1, <2>3
<1> HIDE DEF o, z, u, r
<1>14. ASSUME NEW j \in DOMAIN z, First(z, j), z[j].k = "CF"
       PROVE  u[j].j = k /\ u[j].c = 0
  <2>1. Adjacent(q, 1, j + 1) /\ q[j + 1].k = "CF" /\ u[j] = t[j + 1] /\ j + 1 \in DOMAIN q
    BY <1>11, <1>12, <1>14
  <2> QED
    BY <1>2, <2>1 DEF Marked, Continues
<1>15. ASSUME Bare(z), Active(tx)
       PROVE  s.j = k /\ s.c = 0
  BY <1>2, <1>12, <1>15 DEF Sends
<1>16. o.iso.state = ISOTP_RX_WAIT_CF => Reaches(o.iso, m, 0) /\ o.iso.rx_buffer = Bytes(m, 0, Offset(0))
  BY <1>3, <1>4, <1>7, <1>13 DEF Reaches
<1>17. 0 <= 0 + 1 /\ 0 <= 0 + flt /\ 0 <= 0
  OBVIOUS
<1>18. Waits(z, u, o.iso, r, tx, s, snt, l, flt)
  BY <1>2, <1>5, <1>8, <1>9, <1>14, <1>15, <1>16, <1>17 DEF Waits
<1> QED
  BY <1>5, <1>6, <1>18 DEF o, z, u, r

-----------------------------------------------------------------------------
(* Consecutive frames arrive *)

\* A message that can be sent has a 16-bit length (TX_BUF is 1024 in the code).
Sized == TX_BUF < 65536

\* The sequence number after a consecutive frame.
LEMMA SnStep == \A b \in Nat : ((b % SN_MOD) + 1) % SN_MOD = (b + 1) % SN_MOD
<1>1. SN_MOD \in Nat \ {0, 1}
  BY IsoTpAssumption
<1> QED
  BY <1>1, WrapNext

\* The bytes that uds_rx_cf takes from a frame, and what it then has.
ToCopy(i, f) ==
  LET remaining == (i.msg_len - i.bytes_processed) % 65536
  IN  IF remaining > Len(f.data) THEN Len(f.data) ELSE remaining
Got(i, f) == SubSeq(i.rx_buffer, 1, i.bytes_processed) \o SubSeq(f.data, 1, ToCopy(i, f))

\* What uds_rx_cf does with a frame that is in sequence.
LEMMA InSequence ==
  ASSUME NEW rx \in IsoCtx, rx.state = ISOTP_RX_WAIT_CF, NEW f, f.sn = rx.sn
  PROVE  LET o == uds_rx_cf(rx, f)
             e == rx.bytes_processed + ToCopy(rx, f)
         IN  /\ e >= rx.msg_len => o.iso.state = ISOTP_IDLE /\ o.sdus = <<Got(rx, f)>>
             /\ ~(e >= rx.msg_len) =>
                  /\ o.sdus = <<>> /\ o.iso.msg_len = rx.msg_len /\ o.iso.bytes_processed = e
                  /\ o.iso.sn = (rx.sn + 1) % SN_MOD /\ o.iso.rx_buffer = Got(rx, f)
<1> DEFINE g == Got(rx, f)
           x == (rx.sn + 1) % SN_MOD
           e == rx.bytes_processed + ToCopy(rx, f)
           n == [rx EXCEPT !.sn = x, !.rx_buffer = g, !.bytes_processed = e]
           w == [n EXCEPT !.state = ISOTP_IDLE]
           o == uds_rx_cf(rx, f)
<1>1. o = IF n.bytes_processed >= rx.msg_len THEN Left(w, <<>>, <<g>>) ELSE Left(n, <<>>, <<>>)
  BY DEF uds_rx_cf, OutOfSequence, ToCopy, Got
<1> HIDE DEF x, e, g, o
<1>2. /\ n.bytes_processed = e /\ n.msg_len = rx.msg_len /\ n.sn = x /\ n.rx_buffer = g
      /\ w.state = ISOTP_IDLE
  BY DEF IsoCtx
<1> HIDE DEF n, w
<1>4. ASSUME e >= rx.msg_len PROVE o.iso.state = ISOTP_IDLE /\ o.sdus = <<g>>
  <2>1. o = Left(w, <<>>, <<g>>)
    BY <1>1, <1>2, <1>4
  <2> QED
    BY <1>2, <2>1 DEF Left
<1>5. ASSUME ~(e >= rx.msg_len)
      PROVE  /\ o.sdus = <<>> /\ o.iso.msg_len = rx.msg_len
             /\ o.iso.bytes_processed = e /\ o.iso.sn = x /\ o.iso.rx_buffer = g
  <2>1. o = Left(n, <<>>, <<>>)
    BY <1>1, <1>2, <1>5
  <2> QED
    BY <1>2, <2>1 DEF Left
<1> QED
  BY <1>4, <1>5 DEF x, e, g, o

\* What is left fits the 16 bits it is computed in.
LEMMA Remaining ==
  ASSUME NEW x \in Nat, NEW y \in Nat, y < x, x < 65536
  PROVE  (x - y) % 65536 = x - y
<1>1. x - y \in Nat /\ x - y < 65536
  OBVIOUS
<1>2. \A z \in Nat : z < 65536 => z % 65536 = z
  OBVIOUS
<1> QED
  BY <1>1, <1>2

\* The consecutive frame that fits is the one the receiver waits for.
LEMMA RightOne ==
  ASSUME NEW q \in Seq(Frames), q # <<>>, NEW t, NEW snt \in Seq(Msg), NEW l,
         Marked(q, t, snt, l), q[1].k = "CF", NEW rx \in IsoCtx, NEW r \in Mark, NEW tx, NEW s,
         NEW flt \in Nat, flt < SN_MOD, Waits(q, t, rx, r, tx, s, snt, l, flt),
         rx.state = ISOTP_RX_WAIT_CF, q[1].sn = rx.sn
  PROVE  /\ t[1].j = r.j /\ t[1].c = r.c /\ q[1].data = Bytes(snt[r.j], Offset(r.c), MAX_CF)
         /\ snt[r.j] \in Msg /\ snt[r.j].len \in Nat
<1> DEFINE f == q[1]
           m == snt[t[1].j]
<1>1. Bears(f) /\ Carries(f)
  BY DEF Bears, Carries
<1>2. /\ 1 \in DOMAIN q /\ m \in Msg /\ m.len \in Nat /\ Shows(f, m, t[1].c)
      /\ First(q, 1) /\ t[1].c \in Nat
  BY <1>1, HeadShows
<1>3. f = Cf((t[1].c + 1) % SN_MOD, m, Offset(t[1].c))
  BY <1>2, ShownKinds
<1>4. t[1].j = r.j /\ r.c <= t[1].c + 1 /\ t[1].c <= r.c + flt /\ rx.sn = (r.c + 1) % SN_MOD
  BY <1>2 DEF Waits, Reaches
<1>5. f.sn = (t[1].c + 1) % SN_MOD /\ f.data = Bytes(m, Offset(t[1].c), MAX_CF)
  BY <1>3 DEF Cf
<1>6. t[1].c = r.c
  <2> DEFINE x == t[1].c
             y == r.c
             a == x + 1
             b == y + 1
  <2>1. y \in Nat /\ SN_MOD \in Nat \ {0, 1}
    BY IsoTpAssumption DEF Mark
  <2>2. x \in Nat /\ y <= x + 1 /\ x <= y + flt
    BY <1>2, <1>4
  <2>3. a % SN_MOD = b % SN_MOD
    BY <1>4, <1>5
  <2> HIDE DEF x, y
  <2>4. a \in Nat /\ b \in Nat /\ b <= a + 1 /\ a < b + SN_MOD /\ (a = b => x = y)
    BY <2>1, <2>2
  <2> HIDE DEF a, b
  <2>5. a = b
    BY <2>1, <2>3, <2>4, WrapEqual
  <2> QED
    BY <2>4, <2>5 DEF x, y
<1> QED
  BY <1>2, <1>4, <1>5, <1>6

\* What the receiver has after a frame is the message up to there.
LEMMA GotWhole ==
  ASSUME NEW rx, NEW f, NEW m \in Msg, NEW a \in Nat, NEW k \in Nat, MAX_CF \in Nat,
         k <= MAX_CF, a + k <= m.len, ToCopy(rx, f) = k, rx.bytes_processed = a,
         rx.rx_buffer = Bytes(m, 0, a), f.data = Bytes(m, a, MAX_CF)
  PROVE  Got(rx, f) = Bytes(m, 0, a + k)
<1> DEFINE x == Bytes(m, 0, a)
           y == Bytes(m, a, MAX_CF)
           w == Bytes(m, 0, a + k)
<1>0. m \in Msg /\ a \in Nat /\ MAX_CF \in Nat /\ k \in Nat /\ k <= MAX_CF /\ a + k <= m.len
  OBVIOUS
<1>1. SubSeq(x, 1, a) \o SubSeq(y, 1, k) = w
  BY <1>0, BytesJoin, ZenonT(40)
<1>2. rx.rx_buffer = x /\ f.data = y
  OBVIOUS
<1> HIDE DEF x, y, w
<1>3. Got(rx, f) = SubSeq(x, 1, a) \o SubSeq(y, 1, k)
  BY <1>2 DEF Got
<1> QED
  BY <1>1, <1>3 DEF w

\* The next piece of a message.
LEMMA NextPiece ==
  ASSUME NEW rx \in IsoCtx, rx.state = ISOTP_RX_WAIT_CF, NEW f, f.sn = rx.sn,
         NEW m \in Msg, m.len \in Nat, NEW c \in Nat, Reaches(rx, m, c), Sized,
         rx.rx_buffer = Bytes(m, 0, Offset(c)), f.data = Bytes(m, Offset(c), MAX_CF)
  PROVE  LET o == uds_rx_cf(rx, f)
         IN  \/ o.iso.state = ISOTP_IDLE /\ o.sdus = <<Content(m)>> /\ m.len # 0
             \/ /\ o.sdus = <<>> /\ Reaches(o.iso, m, c + 1)
                /\ o.iso.rx_buffer = Bytes(m, 0, Offset(c + 1))
<1> DEFINE a == Offset(c)
           k == ToCopy(rx, f)
           g == Got(rx, f)
           o == uds_rx_cf(rx, f)
<1>1. /\ rx.msg_len = m.len /\ rx.bytes_processed = a /\ a < m.len /\ m.len <= TX_BUF
      /\ rx.sn = (c + 1) % SN_MOD /\ rx.rx_buffer = Bytes(m, 0, a) /\ f.data = Bytes(m, a, MAX_CF)
  BY DEF Reaches
<1>2. a \in Nat /\ Offset(c + 1) = a + MAX_CF
  BY OffsetNext
<1>3. MAX_CF \in Nat /\ MAX_CF # 0 /\ TX_BUF \in Nat /\ SN_MOD \in Nat \ {0, 1}
  BY IsoTpAssumption
<1> HIDE DEF a
<1>4. Len(f.data) = MAX_CF
  <2>1. m \in Msg \cup {NoTx}
    OBVIOUS
  <2> QED
    BY <1>1, <1>2, <1>3, <2>1, BytesType
<1>5. /\ a + k >= m.len => o.iso.state = ISOTP_IDLE /\ o.sdus = <<g>>
      /\ ~(a + k >= m.len) =>
           /\ o.sdus = <<>> /\ o.iso.msg_len = m.len /\ o.iso.bytes_processed = a + k
           /\ o.iso.sn = (rx.sn + 1) % SN_MOD /\ o.iso.rx_buffer = g
  BY <1>1, InSequence
<1>7. k = IF m.len - a > MAX_CF THEN MAX_CF ELSE m.len - a
  <2>1. m.len < 65536
    BY <1>1, <1>3 DEF Sized
  <2>2. (m.len - a) % 65536 = m.len - a
    BY <1>1, <1>2, <2>1, Remaining
  <2> QED
    BY <1>1, <1>4, <2>2 DEF ToCopy
<1>8. k \in Nat /\ k <= MAX_CF /\ a + k <= m.len
  <2> HIDE DEF k
  <2> QED
    BY <1>1, <1>2, <1>3, <1>7
<1>9. g = Bytes(m, 0, a + k)
  BY <1>1, <1>2, <1>3, <1>8, GotWhole
<1> HIDE DEF k, g, o
<1>10. CASE a + k >= m.len
  <2>1. a + k = m.len /\ m.len # 0
    BY <1>1, <1>2, <1>8, <1>10
  <2>2. o.iso.state = ISOTP_IDLE /\ o.sdus = <<g>>
    BY <1>1, <1>5, <1>10
  <2>3. g = Content(m)
    BY <1>9, <2>1 DEF Content
  <2> QED
    BY <2>1, <2>2, <2>3 DEF o
<1>11. CASE ~(a + k >= m.len)
  <2>1. a + k < m.len /\ k = MAX_CF
    BY <1>1, <1>2, <1>3, <1>7, <1>8, <1>11
  <2>2. /\ o.sdus = <<>> /\ o.iso.msg_len = m.len
        /\ o.iso.bytes_processed = a + k
        /\ o.iso.sn = (rx.sn + 1) % SN_MOD /\ o.iso.rx_buffer = g
    BY <1>1, <1>5, <1>11
  <2>3. (rx.sn + 1) % SN_MOD = ((c + 1) + 1) % SN_MOD
    <3> DEFINE b == c + 1
    <3>1. b \in Nat /\ rx.sn = b % SN_MOD
      BY <1>1
    <3> HIDE DEF b
    <3>2. ((b % SN_MOD) + 1) % SN_MOD = (b + 1) % SN_MOD
      BY <3>1, SnStep
    <3>3. (rx.sn + 1) % SN_MOD = (b + 1) % SN_MOD
      BY <3>1, <3>2
    <3> QED
      BY <3>3 DEF b
  <2>4. a + k = Offset(c + 1)
    BY <1>2, <2>1
  <2>5. Reaches(o.iso, m, c + 1)
    BY <1>1, <2>1, <2>2, <2>3, <2>4 DEF Reaches
  <2>6. o.iso.rx_buffer = Bytes(m, 0, Offset(c + 1))
    BY <1>9, <2>2, <2>4
  <2> QED
    BY <2>2, <2>5, <2>6 DEF o
<1> QED
  BY <1>10, <1>11

\* A consecutive frame that is not waited for, or out of sequence.
LEMMA TakeOddCf ==
  ASSUME NEW rx \in IsoCtx, NEW f, rx.state # ISOTP_RX_WAIT_CF \/ f.sn # rx.sn
  PROVE  uds_rx_cf(rx, f).iso.state # ISOTP_RX_WAIT_CF /\ uds_rx_cf(rx, f).sdus = <<>>
<1>1. CASE rx.state # ISOTP_RX_WAIT_CF
  BY <1>1 DEF uds_rx_cf, Left
<1>2. CASE rx.state = ISOTP_RX_WAIT_CF /\ f.sn # rx.sn
  <2> DEFINE i == [rx EXCEPT !.state = ISOTP_IDLE]
  <2>1. uds_rx_cf(rx, f) = Left(i, <<>>, <<>>)
    BY <1>2 DEF uds_rx_cf, OutOfSequence
  <2>2. i.state # ISOTP_RX_WAIT_CF
    BY DEF IsoCtx, ISOTP_IDLE, ISOTP_RX_WAIT_CF
  <2> HIDE DEF i
  <2> QED
    BY <2>1, <2>2 DEF Left
<1> QED
  BY <1>1, <1>2

\* What follows the consecutive frame that was waited for.
LEMMA WaitsNext ==
  ASSUME NEW q \in Seq(Frames), q # <<>>, NEW t, NEW snt \in Seq(Msg), NEW l,
         Marked(q, t, snt, l), q[1].k = "CF", NEW rx, NEW r \in Mark, NEW tx, NEW s \in Mark,
         Sends(q, t, tx, s, snt), NEW flt \in Nat, Waits(q, t, rx, r, tx, s, snt, l, flt),
         rx.state = ISOTP_RX_WAIT_CF, t[1].j = r.j, t[1].c = r.c, NEW i,
         Reaches(i, snt[r.j], r.c + 1), i.rx_buffer = Bytes(snt[r.j], 0, Offset(r.c + 1))
  PROVE  \E n \in Mark : Waits(Tail(q), Tail(t), i, n, tx, s, snt, l, flt)
<1> DEFINE z == Tail(q)
           u == Tail(t)
           n == [j |-> r.j, c |-> r.c + 1]
<1>1. Carries(q[1])
  BY DEF Carries
<1>2. 1 \in DOMAIN q /\ t \in Seq(Mark) /\ Len(t) = Len(q)
  BY DEF Marked
<1>3. r.c \in Nat /\ r.j \in Nat /\ s.c \in Nat
  BY DEF Mark
<1>4. n \in Mark /\ n.j = r.j /\ n.c = r.c + 1
  BY <1>3 DEF Mark
<1>5. \A k \in DOMAIN z : z[k] = q[k + 1] /\ u[k] = t[k + 1] /\ k + 1 \in DOMAIN q
  BY <1>2, DroppedPair
<1>6. /\ \A j \in DOMAIN z : First(z, j) => Adjacent(q, 1, j + 1)
      /\ Bare(z) => Last(q, 1)
  BY <1>1, DroppedPlaces
<1>7. /\ r.j \in DOMAIN snt /\ l < r.j
      /\ \A j \in DOMAIN q : Opens(q[j]) => r.j <= t[j].j
  BY DEF Waits
<1> HIDE DEF z, u, n
<1>8. ASSUME NEW j \in DOMAIN z, First(z, j), z[j].k = "CF"
      PROVE  u[j].j = n.j /\ n.c <= u[j].c + 1 /\ u[j].c <= n.c + flt
  <2>1. Adjacent(q, 1, j + 1) /\ q[j + 1].k = "CF" /\ u[j] = t[j + 1] /\ j + 1 \in DOMAIN q
    BY <1>5, <1>6, <1>8
  <2>2. u[j].j = t[1].j /\ u[j].c \in {t[1].c, t[1].c + 1}
    BY <1>2, <2>1 DEF Marked, Continues
  <2>3. u[j].c = r.c \/ u[j].c = r.c + 1
    BY <2>2
  <2> QED
    BY <1>3, <1>4, <2>2, <2>3
<1>9. ASSUME Bare(z), Active(tx)
      PROVE  s.j = n.j /\ n.c <= s.c /\ s.c <= n.c + flt
  <2>1. t[1].j = s.j /\ s.c = t[1].c + 1
    BY <1>2, <1>6, <1>9 DEF Sends
  <2> QED
    BY <1>3, <1>4, <2>1
<1>10. \A j \in DOMAIN z : Opens(z[j]) => n.j <= u[j].j
  BY <1>4, <1>5, <1>7
<1>11. Waits(z, u, i, n, tx, s, snt, l, flt)
  BY <1>4, <1>7, <1>8, <1>9, <1>10 DEF Waits
<1> QED
  BY <1>4, <1>11 DEF z, u

\* A consecutive frame: refused, taken, or the last of its message.
LEMMA TakeCf ==
  ASSUME NEW q \in Seq(Frames), q # <<>>, NEW t, NEW snt \in Seq(Msg), NEW l,
         Marked(q, t, snt, l), q[1].k = "CF", NEW rx \in IsoCtx, NEW r \in Mark, NEW tx,
         NEW s \in Mark, Sends(q, t, tx, s, snt), NEW flt \in Nat, flt < SN_MOD, Sized,
         Waits(q, t, rx, r, tx, s, snt, l, flt)
  PROVE  LET o == uds_rx_cf(rx, q[1])
             z == Tail(q)
             u == Tail(t)
         IN  \/ o.sdus = <<>> /\ \E n \in Mark : Waits(z, u, o.iso, n, tx, s, snt, l, flt)
             \/ /\ o.iso.state # ISOTP_RX_WAIT_CF /\ o.sdus = <<Content(snt[r.j])>>
                /\ r.j \in DOMAIN snt /\ l < r.j /\ snt[r.j].len # 0 /\ Marked(z, u, snt, r.j)
<1> DEFINE f == q[1]
           m == snt[r.j]
           o == uds_rx_cf(rx, f)
           z == Tail(q)
           u == Tail(t)
<1>3. Bears(f) /\ f.k # "FF"
  BY DEF Bears
<1>4. \A j \in DOMAIN z : Opens(z[j]) => t[1].j <= u[j].j /\ (f.k # "FF" => t[1].j < u[j].j)
  BY <1>3, LaterOpens
<1>5. Marked(z, u, snt, l)
  BY DroppedMarks
<1>1. CASE rx.state # ISOTP_RX_WAIT_CF \/ f.sn # rx.sn
  <2>1. o.iso.state # ISOTP_RX_WAIT_CF /\ o.sdus = <<>>
    BY <1>1, TakeOddCf
  <2> HIDE DEF o, z, u
  <2>2. Waits(z, u, o.iso, r, tx, s, snt, l, flt)
    BY <2>1 DEF Waits
  <2> QED
    BY <2>1, <2>2 DEF o, z, u
<1>2. CASE rx.state = ISOTP_RX_WAIT_CF /\ f.sn = rx.sn
  <2>1. /\ t[1].j = r.j /\ t[1].c = r.c /\ f.data = Bytes(m, Offset(r.c), MAX_CF)
        /\ m \in Msg /\ m.len \in Nat
    <3>1. rx.state = ISOTP_RX_WAIT_CF /\ q[1].sn = rx.sn
      BY <1>2
    <3> QED
      BY <3>1, RightOne
  <2>2. /\ r.j \in DOMAIN snt /\ l < r.j /\ Reaches(rx, m, r.c)
        /\ rx.rx_buffer = Bytes(m, 0, Offset(r.c))
    BY <1>2 DEF Waits
  <2>3. r.c \in Nat
    BY DEF Mark
  <2>4. \/ o.iso.state = ISOTP_IDLE /\ o.sdus = <<Content(m)>> /\ m.len # 0
        \/ /\ o.sdus = <<>> /\ Reaches(o.iso, m, r.c + 1)
           /\ o.iso.rx_buffer = Bytes(m, 0, Offset(r.c + 1))
    BY <1>2, <2>1, <2>2, <2>3, NextPiece
  <2>5. CASE o.iso.state = ISOTP_IDLE /\ o.sdus = <<Content(m)>> /\ m.len # 0
    <3>2. \A j \in DOMAIN z : Opens(z[j]) => r.j < u[j].j
      BY <1>3, <1>4, <2>1
    <3> HIDE DEF o, z, u
    <3>4. Marked(z, u, snt, r.j)
      BY <1>5, <3>2, RaisedMarks
    <3>5. o.iso.state # ISOTP_RX_WAIT_CF
      BY <2>5 DEF ISOTP_IDLE, ISOTP_RX_WAIT_CF
    <3> QED
      BY <2>2, <2>5, <3>4, <3>5 DEF o, z, u
  <2>6. CASE /\ o.sdus = <<>> /\ Reaches(o.iso, m, r.c + 1)
             /\ o.iso.rx_buffer = Bytes(m, 0, Offset(r.c + 1))
    <3>1. rx.state = ISOTP_RX_WAIT_CF /\ t[1].j = r.j /\ t[1].c = r.c
      BY <1>2, <2>1
    <3> DEFINE i == o.iso
    <3>2. Reaches(i, snt[r.j], r.c + 1) /\ i.rx_buffer = Bytes(snt[r.j], 0, Offset(r.c + 1))
      BY <2>6
    <3> HIDE DEF i
    <3>3. \E n \in Mark : Waits(Tail(q), Tail(t), i, n, tx, s, snt, l, flt)
      BY <3>1, <3>2, WaitsNext
    <3> QED
      BY <2>6, <3>3 DEF i
  <2> QED
    BY <2>4, <2>5, <2>6
<1> QED
  BY <1>1, <1>2

-----------------------------------------------------------------------------
(* Reception *)

\* What is delivered: nothing, or a message sent after the last one delivered.
Advances(snt, l, k, d) ==
  \/ d = <<>> /\ k = l
  \/ k \in DOMAIN snt /\ l < k /\ d = <<Content(snt[k])>> /\ snt[k].len # 0

\* A node that is not in the middle of a reassembly waits for nothing.
LEMMA NotWaiting ==
  ASSUME NEW i, i.state # ISOTP_RX_WAIT_CF, NEW q, NEW t, NEW r, NEW tx, NEW s, NEW snt,
         NEW l, NEW flt
  PROVE  Waits(q, t, i, r, tx, s, snt, l, flt)
BY DEF Waits

\* Reception keeps the link in order, and delivers in order.
LEMMA LinkTake ==
  ASSUME NEW q \in Seq(Frames), q # <<>>, NEW t, NEW snt \in Seq(Msg), NEW l \in Nat,
         NEW rx \in IsoCtx, NEW r \in Mark, NEW tx, NEW s \in Mark, NEW flt \in Nat,
         flt < SN_MOD, Sized, Link(q, t, rx, r, tx, s, snt, l, flt)
  PROVE  LET o == uds_isotp_rx_callback(rx, Head(q))
         IN  \E n \in Mark, k \in Nat :
               /\ Link(Tail(q), Tail(t), o.iso, n, tx, s, snt, k, flt)
               /\ Advances(snt, l, k, o.sdus)
<1> DEFINE f == q[1]
           o == uds_isotp_rx_callback(rx, Head(q))
           z == Tail(q)
           u == Tail(t)
<1>1. Marked(q, t, snt, l) /\ Sends(q, t, tx, s, snt) /\ Waits(q, t, rx, r, tx, s, snt, l, flt)
  BY DEF Link
<1>2. Head(q) = f /\ f \in Frames
  OBVIOUS
<1>3. f.k \in {"SF", "FF", "CF", "FC"}
  BY <1>2 DEF Frames, FirstFrames
<1>4. Marked(z, u, snt, l)
  BY <1>1, DroppedMarks
<1>5. Sends(z, u, tx, s, snt)
  BY <1>1, DroppedSends
<1>6. CASE f.k = "SF"
  <2> DEFINE k == t[1].j
             p == uds_rx_sf(rx, f)
  <2>1. o = p
    BY <1>2, <1>6 DEF uds_isotp_rx_callback
  <2>2. /\ p.iso.state = ISOTP_IDLE /\ l < k
        /\ (p.sdus = <<>> \/ (p.sdus = <<Content(snt[k])>> /\ snt[k].len # 0))
        /\ Marked(z, u, snt, k)
    BY <1>1, <1>6, TakeSf
  <2>3. k \in Nat /\ k \in DOMAIN snt
    <3>1. Bears(q[1])
      BY <1>6 DEF Bears
    <3> QED
      BY <1>1, <3>1, HeadShows
  <2> HIDE DEF p, z, u, k, o
  <2>4. p.iso.state # ISOTP_RX_WAIT_CF
    BY <2>2 DEF ISOTP_IDLE, ISOTP_RX_WAIT_CF
  <2>5. CASE p.sdus = <<>>
    <3>1. Link(z, u, p.iso, r, tx, s, snt, l, flt) /\ Advances(snt, l, l, p.sdus)
      BY <1>4, <1>5, <2>4, <2>5, NotWaiting DEF Link, Advances
    <3> QED
      BY <2>1, <3>1 DEF o, z, u
  <2>6. CASE p.sdus = <<Content(snt[k])>> /\ snt[k].len # 0
    <3>1. Link(z, u, p.iso, r, tx, s, snt, k, flt) /\ Advances(snt, l, k, p.sdus)
      BY <1>5, <2>2, <2>3, <2>4, <2>6, NotWaiting DEF Link, Advances
    <3> QED
      BY <2>1, <2>3, <3>1 DEF o, z, u
  <2> QED
    BY <2>2, <2>5, <2>6
<1>7. CASE f.k = "FF"
  <2> DEFINE n == [j |-> t[1].j, c |-> 0]
             p == uds_rx_ff(rx, f)
  <2>1. o = p
    BY <1>2, <1>7 DEF uds_isotp_rx_callback
  <2>2. n \in Mark /\ p.sdus = <<>> /\ Waits(z, u, p.iso, n, tx, s, snt, l, flt)
    BY <1>1, <1>7, TakeFf
  <2> HIDE DEF p, z, u, n, o
  <2>3. Link(z, u, p.iso, n, tx, s, snt, l, flt) /\ Advances(snt, l, l, p.sdus)
    BY <1>4, <1>5, <2>2 DEF Link, Advances
  <2> QED
    BY <2>1, <2>2, <2>3 DEF o, z, u
<1>8. CASE f.k = "CF"
  <2> DEFINE p == uds_rx_cf(rx, f)
  <2>1. o = p
    BY <1>2, <1>8 DEF uds_isotp_rx_callback
  <2>2. \/ p.sdus = <<>> /\ \E n \in Mark : Waits(z, u, p.iso, n, tx, s, snt, l, flt)
        \/ /\ p.iso.state # ISOTP_RX_WAIT_CF /\ p.sdus = <<Content(snt[r.j])>>
           /\ r.j \in DOMAIN snt /\ l < r.j /\ snt[r.j].len # 0 /\ Marked(z, u, snt, r.j)
    BY <1>1, <1>8, TakeCf
  <2> HIDE DEF p, z, u, o
  <2>3. CASE p.sdus = <<>> /\ \E n \in Mark : Waits(z, u, p.iso, n, tx, s, snt, l, flt)
    <3>1. PICK n \in Mark : Waits(z, u, p.iso, n, tx, s, snt, l, flt)
      BY <2>3
    <3>2. Link(z, u, p.iso, n, tx, s, snt, l, flt) /\ Advances(snt, l, l, p.sdus)
      BY <1>4, <1>5, <2>3, <3>1 DEF Link, Advances
    <3> QED
      BY <2>1, <3>2 DEF o, z, u
  <2>4. CASE /\ p.iso.state # ISOTP_RX_WAIT_CF /\ p.sdus = <<Content(snt[r.j])>>
             /\ r.j \in DOMAIN snt /\ l < r.j /\ snt[r.j].len # 0 /\ Marked(z, u, snt, r.j)
    <3>1. Link(z, u, p.iso, r, tx, s, snt, r.j, flt) /\ Advances(snt, l, r.j, p.sdus)
      BY <1>5, <2>4, NotWaiting DEF Link, Advances
    <3>2. r.j \in Nat
      BY DEF Mark
    <3> QED
      BY <2>1, <3>1, <3>2 DEF o, z, u
  <2> QED
    BY <2>2, <2>3, <2>4
<1>9. CASE f.k = "FC"
  <2> DEFINE p == uds_rx_fc(rx, f)
  <2>1. o = p
    BY <1>2, <1>9 DEF uds_isotp_rx_callback
  <2>2. p.sdus = <<>>
    BY DEF uds_rx_fc, Left
  <2>3. p.iso = rx \/ p.iso.state # ISOTP_RX_WAIT_CF
    BY DEF uds_rx_fc, Left, IsoCtx, ISOTP_TX_SENDING_CF, ISOTP_RX_WAIT_CF
  <2>4. Waits(z, u, rx, r, tx, s, snt, l, flt)
    <3>1. flt <= flt /\ q[1].k \in {"SF", "CF", "FC"} /\ (q[1].k = "CF" => flt + 1 <= flt)
      BY <1>9
    <3> QED
      BY <1>1, <3>1, DroppedWaits
  <2> HIDE DEF p, z, u, o
  <2>5. Waits(z, u, p.iso, r, tx, s, snt, l, flt)
    BY <2>3, <2>4, NotWaiting
  <2>6. Link(z, u, p.iso, r, tx, s, snt, l, flt) /\ Advances(snt, l, l, p.sdus)
    BY <1>4, <1>5, <2>2, <2>5 DEF Link, Advances
  <2> QED
    BY <2>1, <2>6 DEF o, z, u
<1> QED
  BY <1>3, <1>6, <1>7, <1>8, <1>9

-----------------------------------------------------------------------------
(* What leaves a direction alone *)

\* j goes on sending what i was sending, if anything.
StillTx(i, j) ==
  Active(j) => /\ Active(i) /\ j.pending_tx = i.pending_tx /\ j.msg_len = i.msg_len
               /\ j.bytes_processed = i.bytes_processed /\ j.sn = i.sn
\* j goes on receiving what i was receiving, if anything.
StillRx(i, j) == j.state = ISOTP_RX_WAIT_CF => j = i

\* A sender that goes on, or gives up, keeps the link in order.
LEMMA LinkTx ==
  ASSUME NEW q, NEW t, NEW rx, NEW r, NEW tx, NEW s, NEW snt, NEW l, NEW flt,
         Link(q, t, rx, r, tx, s, snt, l, flt), NEW i, StillTx(tx, i)
  PROVE  Link(q, t, rx, r, i, s, snt, l, flt)
<1>1. Marked(q, t, snt, l) /\ Sends(q, t, tx, s, snt) /\ Waits(q, t, rx, r, tx, s, snt, l, flt)
  BY DEF Link
<1>2. Sends(q, t, i, s, snt)
  BY <1>1 DEF Sends, StillTx, Reaches
<1>3. Waits(q, t, rx, r, i, s, snt, l, flt)
  BY <1>1 DEF Waits, StillTx
<1> QED
  BY <1>1, <1>2, <1>3 DEF Link

\* So does a receiver.
LEMMA LinkRx ==
  ASSUME NEW q, NEW t, NEW rx, NEW r, NEW tx, NEW s, NEW snt, NEW l, NEW flt,
         Link(q, t, rx, r, tx, s, snt, l, flt), NEW i, StillRx(rx, i)
  PROVE  Link(q, t, i, r, tx, s, snt, l, flt)
<1>1. Marked(q, t, snt, l) /\ Sends(q, t, tx, s, snt) /\ Waits(q, t, rx, r, tx, s, snt, l, flt)
  BY DEF Link
<1>2. Waits(q, t, i, r, tx, s, snt, l, flt)
  <2>1. CASE i = rx
    BY <1>1, <2>1
  <2>2. CASE i.state # ISOTP_RX_WAIT_CF
    BY <2>2, NotWaiting
  <2> QED
    BY <2>1, <2>2 DEF StillRx
<1> QED
  BY <1>1, <1>2 DEF Link

\* The reception callback never makes a node send something else.
LEMMA CallbackTx ==
  ASSUME NEW i \in IsoCtx, NEW f \in Frames
  PROVE  LET o == uds_isotp_rx_callback(i, f)
         IN  /\ StillTx(i, o.iso)
             /\ o.frames = <<>> \/ o.frames = <<Fc(i.block_size, i.st_min)>>
<1> DEFINE o == uds_isotp_rx_callback(i, f)
<1>1. f.k \in {"SF", "FF", "CF", "FC"}
  BY DEF Frames, FirstFrames
<1>2. \A x \in {ISOTP_IDLE, ISOTP_RX_WAIT_CF} : x \notin {ISOTP_TX_WAIT_FC, ISOTP_TX_SENDING_CF}
  BY DEF ISOTP_IDLE, ISOTP_RX_WAIT_CF, ISOTP_TX_WAIT_FC, ISOTP_TX_SENDING_CF
<1>3. CASE f.k = "SF"
  <2>1. o = uds_rx_sf(i, f)
    BY <1>3 DEF uds_isotp_rx_callback
  <2>2. o.iso.state = ISOTP_IDLE /\ o.frames = <<>>
    BY <2>1 DEF uds_rx_sf, Left, IsoCtx
  <2> QED
    BY <1>2, <2>2 DEF StillTx, Active
<1>4. CASE f.k = "FF"
  <2>1. o = uds_rx_ff(i, f)
    BY <1>4 DEF uds_isotp_rx_callback
  <2>2. /\ o.iso.state \in {ISOTP_IDLE, ISOTP_RX_WAIT_CF}
        /\ o.frames = <<>> \/ o.frames = <<Fc(i.block_size, i.st_min)>>
    BY <2>1 DEF uds_rx_ff, Left, IsoCtx
  <2> QED
    BY <1>2, <2>2 DEF StillTx, Active
<1>5. CASE f.k = "CF"
  <2>1. o = uds_rx_cf(i, f)
    BY <1>5 DEF uds_isotp_rx_callback
  <2>2. (o.iso = i \/ o.iso.state \in {ISOTP_IDLE, ISOTP_RX_WAIT_CF}) /\ o.frames = <<>>
    <3> DEFINE g == Got(i, f)
               x == (i.sn + 1) % SN_MOD
               e == i.bytes_processed + ToCopy(i, f)
               n == [i EXCEPT !.sn = x, !.rx_buffer = g, !.bytes_processed = e]
               w == [n EXCEPT !.state = ISOTP_IDLE]
               d == [i EXCEPT !.state = ISOTP_IDLE]
    <3>1. \/ o = Left(i, <<>>, <<>>) \/ o = Left(d, <<>>, <<>>)
          \/ o = Left(w, <<>>, <<g>>)
          \/ o = Left(n, <<>>, <<>>) /\ i.state = ISOTP_RX_WAIT_CF
      BY <2>1 DEF uds_rx_cf, ToCopy, Got
    <3> HIDE DEF x, e, g, o
    <3>2. w.state = ISOTP_IDLE /\ d.state = ISOTP_IDLE /\ n.state = i.state
      BY DEF IsoCtx
    <3> HIDE DEF n, w, d
    <3> QED
      BY <3>1, <3>2 DEF Left
  <2> HIDE DEF o
  <2>3. StillTx(i, o.iso)
    BY <1>2, <2>2 DEF StillTx, Active
  <2> QED
    BY <2>2, <2>3 DEF o
<1>6. CASE f.k = "FC"
  <2>1. o = uds_rx_fc(i, f)
    BY <1>6 DEF uds_isotp_rx_callback
  <2> QED
    BY <2>1 DEF uds_rx_fc, Left, StillTx, Active, IsoCtx
<1> QED
  BY <1>1, <1>3, <1>4, <1>5, <1>6

\* Sending never makes a node receive something else.
LEMMA SendRx ==
  ASSUME NEW i \in IsoCtx, NEW m
  PROVE  StillRx(i, uds_isotp_send(i, m).iso)
BY DEF uds_isotp_send, uds_send_sf, uds_send_mf, Left, StillRx, IsoCtx, ISOTP_RX_WAIT_CF,
       ISOTP_TX_WAIT_FC

\* Nor does uds_tp_isotp_process.
LEMMA ProcessRx ==
  ASSUME NEW i \in IsoCtx, NEW n, NEW ok
  PROVE  StillRx(i, uds_tp_isotp_process(i, n, ok).iso)
<1> DEFINE p == uds_tp_isotp_process(i, n, ok)
           a == [i EXCEPT !.state = ISOTP_IDLE]
           b == [i EXCEPT !.state = ISOTP_TX_WAIT_FC, !.bs_counter = 0]
           c == CfSent(i, n)
<1>1. p.iso = i \/ (i.state = ISOTP_TX_SENDING_CF /\ p.iso \in {a, b, c})
  BY DEF uds_tp_isotp_process, Left
<1>2. a.state = ISOTP_IDLE /\ b.state = ISOTP_TX_WAIT_FC
  BY DEF IsoCtx
<1>3. c.state \in {i.state, ISOTP_IDLE}
  BY DEF CfSent, IsoCtx
<1> HIDE DEF p, a, b, c
<1>4. StillRx(i, p.iso)
  BY <1>1, <1>2, <1>3 DEF StillRx, ISOTP_RX_WAIT_CF, ISOTP_TX_WAIT_FC, ISOTP_IDLE,
     ISOTP_TX_SENDING_CF
<1> QED
  BY <1>4 DEF p

-----------------------------------------------------------------------------
(* A frame enters the queue *)

\* What is next, first or last, once a frame has been added.
LEMMA AddedPlaces ==
  ASSUME NEW S, NEW q \in Seq(S), NEW f \in S
  PROVE  LET z == q \o <<f>>
             e == Len(q) + 1
         IN  /\ \A i, j \in DOMAIN z : Adjacent(z, i, j) =>
                  \/ i \in DOMAIN q /\ j \in DOMAIN q /\ Adjacent(q, i, j)
                  \/ j = e /\ i \in DOMAIN q /\ Last(q, i)
             /\ \A i \in DOMAIN z : Last(z, i) =>
                  \/ i = e /\ Carries(f)
                  \/ i \in DOMAIN q /\ Last(q, i) /\ ~Carries(f)
             /\ \A j \in DOMAIN z : First(z, j) =>
                  \/ j \in DOMAIN q /\ First(q, j)
                  \/ j = e /\ Bare(q)
             /\ Bare(z) => Bare(q) /\ ~Carries(f)
<1> DEFINE z == q \o <<f>>
           e == Len(q) + 1
<1>1. /\ \A i \in DOMAIN q : i \in Nat /\ i < e /\ i \in DOMAIN z /\ z[i] = q[i]
      /\ e \in DOMAIN z /\ z[e] = f /\ e \in Nat
      /\ \A i \in DOMAIN z : i \in Nat /\ (i \in DOMAIN q \/ i = e)
  BY Added
<1> HIDE DEF z, e
<1>2. ASSUME NEW i \in DOMAIN z, NEW j \in DOMAIN z, Adjacent(z, i, j)
      PROVE  \/ i \in DOMAIN q /\ j \in DOMAIN q /\ Adjacent(q, i, j)
             \/ j = e /\ i \in DOMAIN q /\ Last(q, i)
  <2>1. /\ i < j /\ Carries(z[i]) /\ Carries(z[j])
        /\ \A h \in DOMAIN z : i < h /\ h < j => ~Carries(z[h])
    BY <1>2 DEF Adjacent
  <2>2. i \in DOMAIN q
    <3>1. CASE i = e
      <4>1. j \in Nat /\ (j < e \/ j = e)
        BY <1>1
      <4> QED
        BY <1>1, <2>1, <3>1, <4>1
    <3> QED
      BY <1>1, <3>1
  <2>3. CASE j \in DOMAIN q
    BY <1>1, <2>1, <2>2, <2>3 DEF Adjacent
  <2>4. CASE j = e
    BY <1>1, <2>1, <2>2, <2>4 DEF Last
  <2> QED
    BY <1>1, <2>3, <2>4
<1>3. ASSUME NEW i \in DOMAIN z, Last(z, i)
      PROVE  (i = e /\ Carries(f)) \/ (i \in DOMAIN q /\ Last(q, i) /\ ~Carries(f))
  <2>1. CASE i = e
    BY <1>1, <1>3, <2>1 DEF Last
  <2>2. CASE i \in DOMAIN q
    BY <1>1, <1>3, <2>2 DEF Last
  <2> QED
    BY <1>1, <2>1, <2>2
<1>4. ASSUME NEW j \in DOMAIN z, First(z, j)
      PROVE  (j \in DOMAIN q /\ First(q, j)) \/ (j = e /\ Bare(q))
  <2>1. CASE j = e
    BY <1>1, <1>4, <2>1 DEF First, Bare
  <2>2. CASE j \in DOMAIN q
    BY <1>1, <1>4, <2>2 DEF First
  <2> QED
    BY <1>1, <2>1, <2>2
<1>5. Bare(z) => Bare(q) /\ ~Carries(f)
  BY <1>1 DEF Bare
<1> QED
  BY <1>2, <1>3, <1>4, <1>5 DEF z, e

\* A queue and its marks grow together.
LEMMA AddedPair ==
  ASSUME NEW S, NEW q \in Seq(S), NEW f \in S, NEW t \in Seq(Mark), Len(t) = Len(q),
         NEW g \in Mark
  PROVE  LET z == q \o <<f>>
             u == t \o <<g>>
             e == Len(q) + 1
         IN  /\ u \in Seq(Mark) /\ Len(u) = Len(z)
             /\ \A i \in DOMAIN q : i \in Nat /\ i < e /\ i \in DOMAIN z /\ z[i] = q[i] /\ u[i] = t[i]
             /\ e \in DOMAIN z /\ z[e] = f /\ u[e] = g /\ e \in Nat
             /\ \A i \in DOMAIN z : i \in Nat /\ (i \in DOMAIN q \/ i = e)
<1> DEFINE z == q \o <<f>>
           u == t \o <<g>>
           e == Len(q) + 1
<1>1. /\ z \in Seq(S) /\ Len(z) = Len(q) + 1
      /\ \A i \in DOMAIN q : i \in Nat /\ i < e /\ i \in DOMAIN z /\ z[i] = q[i]
      /\ e \in DOMAIN z /\ z[e] = f /\ e \in Nat
      /\ \A i \in DOMAIN z : i \in Nat /\ (i \in DOMAIN q \/ i = e)
  BY Added
<1>2. /\ u \in Seq(Mark) /\ Len(u) = Len(t) + 1
      /\ \A i \in DOMAIN t : u[i] = t[i]
      /\ u[Len(t) + 1] = g
  BY Added
<1>3. DOMAIN t = DOMAIN q
  OBVIOUS
<1> HIDE DEF z, u
<1>4. u[e] = g
  BY <1>2
<1> HIDE DEF e
<1>5. Len(u) = Len(z)
  BY <1>1, <1>2
<1> QED
  BY <1>1, <1>2, <1>3, <1>4, <1>5 DEF z, u, e

\* A frame more, of the right message, is marked.
LEMMA AddedMarks ==
  ASSUME NEW S, NEW q \in Seq(S), NEW f \in S, NEW t, NEW snt, NEW l, Marked(q, t, snt, l),
         NEW g \in Mark,
         Bears(f) => g.j \in DOMAIN snt /\ Shows(f, snt[g.j], g.c),
         f.k = "CF" => \A i \in DOMAIN q : Last(q, i) => Continues(q[i], t[i], g),
         Opens(f) => l < g.j /\ \A i \in DOMAIN q : Bears(q[i]) => t[i].j <= g.j /\ t[i].j < g.j
  PROVE  Marked(q \o <<f>>, t \o <<g>>, snt, l)
<1> DEFINE z == q \o <<f>>
           u == t \o <<g>>
           e == Len(q) + 1
<1>1. t \in Seq(Mark) /\ Len(t) = Len(q)
  BY DEF Marked
<1>2. /\ u \in Seq(Mark) /\ Len(u) = Len(z)
      /\ \A i \in DOMAIN q : i \in Nat /\ i < e /\ i \in DOMAIN z /\ z[i] = q[i] /\ u[i] = t[i]
      /\ e \in DOMAIN z /\ z[e] = f /\ u[e] = g /\ e \in Nat
      /\ \A i \in DOMAIN z : i \in Nat /\ (i \in DOMAIN q \/ i = e)
  BY <1>1, AddedPair
<1>3. \A i, j \in DOMAIN z : Adjacent(z, i, j) =>
        \/ i \in DOMAIN q /\ j \in DOMAIN q /\ Adjacent(q, i, j)
        \/ j = e /\ i \in DOMAIN q /\ Last(q, i)
  BY AddedPlaces
<1> HIDE DEF z, u, e
<1>4. \A i \in DOMAIN z : Bears(z[i]) => u[i].j \in DOMAIN snt /\ Shows(z[i], snt[u[i].j], u[i].c)
  BY <1>2 DEF Marked
<1>5. ASSUME NEW i \in DOMAIN z, NEW j \in DOMAIN z, Adjacent(z, i, j), z[j].k = "CF"
      PROVE  Continues(z[i], u[i], u[j])
  <2>1. CASE i \in DOMAIN q /\ j \in DOMAIN q /\ Adjacent(q, i, j)
    BY <1>2, <1>5, <2>1 DEF Marked
  <2>2. CASE j = e /\ i \in DOMAIN q /\ Last(q, i)
    BY <1>2, <1>5, <2>2
  <2> QED
    BY <1>3, <1>5, <2>1, <2>2
<1>6. \A j \in DOMAIN z : Opens(z[j]) => l < u[j].j
  BY <1>2 DEF Marked
<1>7. ASSUME NEW i \in DOMAIN z, NEW j \in DOMAIN z, i < j, Bears(z[i]), Opens(z[j])
      PROVE  u[i].j <= u[j].j /\ (z[i].k # "FF" => u[i].j < u[j].j)
  <2>1. i \in DOMAIN q
    BY <1>2, <1>7
  <2>2. CASE j \in DOMAIN q
    BY <1>2, <1>7, <2>1, <2>2 DEF Marked
  <2>3. CASE j = e
    BY <1>2, <1>7, <2>1, <2>3
  <2> QED
    BY <1>2, <2>2, <2>3
<1>8. Marked(z, u, snt, l)
  BY <1>2, <1>4, <1>5, <1>6, <1>7 DEF Marked
<1> QED
  BY <1>8 DEF z, u

\* One message more has been sent.
LEMMA LinkGrows ==
  ASSUME NEW q, NEW t, NEW rx, NEW r, NEW tx, NEW s, NEW snt \in Seq(Msg), NEW l, NEW flt,
         Link(q, t, rx, r, tx, s, snt, l, flt), NEW m \in Msg
  PROVE  Link(q, t, rx, r, tx, s, Append(snt, m), l, flt)
<1> DEFINE a == Append(snt, m)
<1>1. \A i \in DOMAIN snt : i \in DOMAIN a /\ a[i] = snt[i]
  OBVIOUS
<1>2. Marked(q, t, snt, l) /\ Sends(q, t, tx, s, snt) /\ Waits(q, t, rx, r, tx, s, snt, l, flt)
  BY DEF Link
<1> HIDE DEF a
<1>3. Marked(q, t, a, l)
  BY <1>1, <1>2 DEF Marked
<1>4. Sends(q, t, tx, s, a)
  BY <1>1, <1>2 DEF Sends
<1>5. Waits(q, t, rx, r, tx, s, a, l, flt)
  BY <1>1, <1>2 DEF Waits
<1> QED
  BY <1>3, <1>4, <1>5 DEF Link, a

\* A frame that does not belong to a segmented message, for the sender.
LEMMA AddedSends ==
  ASSUME NEW S, NEW q \in Seq(S), NEW f \in S, ~Carries(f), NEW t \in Seq(Mark), Len(t) = Len(q),
         NEW g \in Mark, NEW tx, NEW s, NEW snt, Sends(q, t, tx, s, snt)
  PROVE  Sends(q \o <<f>>, t \o <<g>>, tx, s, snt)
<1> DEFINE z == q \o <<f>>
           u == t \o <<g>>
           e == Len(q) + 1
<1>1. \A i \in DOMAIN q : z[i] = q[i] /\ u[i] = t[i]
  BY AddedPair
<1>2. \A i \in DOMAIN z : Last(z, i) => i \in DOMAIN q /\ Last(q, i)
  BY AddedPlaces
<1> HIDE DEF z, u
<1>3. Sends(z, u, tx, s, snt)
  BY <1>1, <1>2 DEF Sends
<1> QED
  BY <1>3 DEF z, u

\* A frame more, for a receiver that waits.
LEMMA AddedWaits ==
  ASSUME NEW S, NEW q \in Seq(S), NEW f \in S, NEW t \in Seq(Mark), Len(t) = Len(q),
         NEW g \in Mark, NEW rx, NEW r, NEW tx, NEW s, NEW snt, NEW l, NEW flt,
         Waits(q, t, rx, r, tx, s, snt, l, flt), NEW i, NEW n,
         Carries(f) \/ (i = tx /\ n = s),
         rx.state = ISOTP_RX_WAIT_CF /\ Opens(f) => r.j <= g.j,
         rx.state = ISOTP_RX_WAIT_CF /\ Bare(q) /\ f.k = "CF" =>
           g.j = r.j /\ r.c <= g.c + 1 /\ g.c <= r.c + flt
  PROVE  Waits(q \o <<f>>, t \o <<g>>, rx, r, i, n, snt, l, flt)
<1> DEFINE z == q \o <<f>>
           u == t \o <<g>>
           e == Len(q) + 1
<1>1. /\ \A k \in DOMAIN q : z[k] = q[k] /\ u[k] = t[k]
      /\ z[e] = f /\ u[e] = g
      /\ \A k \in DOMAIN z : k \in DOMAIN q \/ k = e
  BY AddedPair
<1>2. /\ \A j \in DOMAIN z : First(z, j) => (j \in DOMAIN q /\ First(q, j)) \/ (j = e /\ Bare(q))
      /\ Bare(z) => Bare(q) /\ ~Carries(f)
  BY AddedPlaces
<1> HIDE DEF z, u, e
<1> SUFFICES ASSUME rx.state = ISOTP_RX_WAIT_CF PROVE Waits(z, u, rx, r, i, n, snt, l, flt)
  <2>1. CASE rx.state = ISOTP_RX_WAIT_CF
    BY <2>1 DEF z, u
  <2>2. CASE rx.state # ISOTP_RX_WAIT_CF
    BY <2>2, NotWaiting
  <2> QED
    BY <2>1, <2>2
<1>3. \A j \in DOMAIN z : Opens(z[j]) => r.j <= u[j].j
  BY <1>1 DEF Waits
<1>4. ASSUME NEW j \in DOMAIN z, First(z, j), z[j].k = "CF"
      PROVE  u[j].j = r.j /\ r.c <= u[j].c + 1 /\ u[j].c <= r.c + flt
  <2>1. CASE j \in DOMAIN q /\ First(q, j)
    BY <1>1, <1>4, <2>1 DEF Waits
  <2>2. CASE j = e /\ Bare(q)
    BY <1>1, <1>4, <2>2
  <2> QED
    BY <1>2, <1>4, <2>1, <2>2
<1>5. Bare(z) /\ Active(i) => n.j = r.j /\ r.c <= n.c /\ n.c <= r.c + flt
  BY <1>2 DEF Waits
<1> QED
  BY <1>3, <1>4, <1>5 DEF Waits

\* A flow control frame changes nothing in this direction.
LEMMA LinkFc ==
  ASSUME NEW q \in Seq(Frames), NEW f \in Frames, f.k = "FC", NEW t, NEW rx, NEW r, NEW tx, NEW s,
         NEW snt, NEW l, NEW flt, Link(q, t, rx, r, tx, s, snt, l, flt)
  PROVE  \E u : Link(q \o <<f>>, u, rx, r, tx, s, snt, l, flt)
<1> DEFINE g == [j |-> 0, c |-> 0]
           z == q \o <<f>>
           u == t \o <<g>>
<1>1. Marked(q, t, snt, l) /\ Sends(q, t, tx, s, snt) /\ Waits(q, t, rx, r, tx, s, snt, l, flt)
  BY DEF Link
<1>2. t \in Seq(Mark) /\ Len(t) = Len(q)
  BY <1>1 DEF Marked
<1>3. g \in Mark
  BY DEF Mark
<1>4. ~Carries(f) /\ ~Bears(f) /\ ~Opens(f) /\ f.k # "CF"
  BY DEF Carries, Bears, Opens
<1> HIDE DEF g
<1>5. Marked(z, u, snt, l)
  BY <1>1, <1>3, <1>4, AddedMarks
<1>6. Sends(z, u, tx, s, snt)
  BY <1>1, <1>2, <1>3, <1>4, AddedSends
<1>7. Waits(z, u, rx, r, tx, s, snt, l, flt)
  BY <1>1, <1>2, <1>3, <1>4, AddedWaits
<1> HIDE DEF z, u
<1>8. Link(z, u, rx, r, tx, s, snt, l, flt)
  BY <1>5, <1>6, <1>7 DEF Link
<1> QED
  BY <1>8 DEF z

-----------------------------------------------------------------------------
(* Sending *)

\* The first frame or single frame of a new message comes after all others.
LEMMA LinkOpens ==
  ASSUME NEW q \in Seq(Frames), NEW f \in Frames, NEW t, NEW rx, NEW r, NEW tx, NEW s,
         NEW snt \in Seq(Msg), NEW l \in Nat, l <= Len(snt), NEW flt,
         Link(q, t, rx, r, tx, s, snt, l, flt), NEW m \in Msg,
         NEW g \in Mark, g.j = Len(snt) + 1, g.c = 0,
         Opens(f), Shows(f, m, 0)
  PROVE  LET z == q \o <<f>>
             u == t \o <<g>>
             a == Append(snt, m)
         IN  g.j \in DOMAIN a /\ a[g.j] = m /\ Marked(z, u, a, l)
<1> DEFINE z == q \o <<f>>
           u == t \o <<g>>
           a == Append(snt, m)
<1>1. Link(q, t, rx, r, tx, s, a, l, flt)
  BY LinkGrows
<1>2. /\ Marked(q, t, a, l) /\ Waits(q, t, rx, r, tx, s, a, l, flt)
      /\ Marked(q, t, snt, l) /\ Waits(q, t, rx, r, tx, s, snt, l, flt)
  BY <1>1 DEF Link
<1>3. t \in Seq(Mark) /\ Len(t) = Len(q)
  BY <1>2 DEF Marked
<1>4. Len(snt) \in Nat /\ \A i \in DOMAIN snt : i \in Nat /\ i <= Len(snt)
  OBVIOUS
<1>5. g.j = Len(snt) + 1 /\ g.c = 0
  OBVIOUS
<1>6. g.j \in DOMAIN a /\ a[g.j] = m
  BY <1>4, <1>5
<1>7. l < g.j
  BY <1>4, <1>5
<1>8. \A i \in DOMAIN snt : i <= g.j /\ i < g.j
  BY <1>4, <1>5
<1>9. \A i \in DOMAIN q : Bears(q[i]) => t[i].j <= g.j /\ t[i].j < g.j
  BY <1>2, <1>8 DEF Marked
<1>10. f.k # "CF"
  BY DEF Opens
<1> HIDE DEF a
<1>11. Marked(z, u, a, l)
  <2>1. Bears(f) => g.j \in DOMAIN a /\ Shows(f, a[g.j], g.c)
    BY <1>5, <1>6
  <2> QED
    BY <1>2, <1>5, <1>7, <1>9, <1>10, <2>1, AddedMarks
<1> QED
  BY <1>6, <1>11 DEF a

\* A receiver that waits, when a new message is sent.
LEMMA OpensWaits ==
  ASSUME NEW q \in Seq(Frames), NEW f \in Frames, NEW t, NEW rx, NEW r, NEW tx, NEW s,
         NEW snt \in Seq(Msg), NEW l, NEW flt, Link(q, t, rx, r, tx, s, snt, l, flt),
         NEW m \in Msg, NEW g \in Mark, g.j = Len(snt) + 1, Opens(f),
         NEW i, NEW n, Carries(f) \/ (i = tx /\ n = s)
  PROVE  Waits(q \o <<f>>, t \o <<g>>, rx, r, i, n, Append(snt, m), l, flt)
<1> DEFINE a == Append(snt, m)
<1>1. Link(q, t, rx, r, tx, s, a, l, flt)
  BY LinkGrows
<1>2. /\ Marked(q, t, a, l) /\ Waits(q, t, rx, r, tx, s, a, l, flt)
      /\ Waits(q, t, rx, r, tx, s, snt, l, flt)
  BY <1>1 DEF Link
<1>3. t \in Seq(Mark) /\ Len(t) = Len(q)
  BY <1>2 DEF Marked
<1>4. Len(snt) \in Nat /\ \A k \in DOMAIN snt : k \in Nat /\ k <= Len(snt)
  OBVIOUS
<1>5. \A k \in DOMAIN snt : k <= g.j
  BY <1>4
<1>6. f.k # "CF"
  BY DEF Opens
<1>7. rx.state = ISOTP_RX_WAIT_CF /\ Opens(f) => r.j <= g.j
  BY <1>2, <1>5 DEF Waits
<1> HIDE DEF a
<1>8. Waits(q \o <<f>>, t \o <<g>>, rx, r, i, n, a, l, flt)
  BY <1>2, <1>3, <1>6, <1>7, AddedWaits
<1> QED
  BY <1>8 DEF a

\* uds_isotp_send keeps the link in order, whether or not the bus takes the frame;
\* it must take first frames.
LEMMA LinkSend ==
  ASSUME NEW q \in Seq(Frames), NEW t, NEW rx, NEW r, NEW tx \in IsoCtx, NEW s \in Mark,
         NEW snt \in Seq(Msg), NEW l \in Nat, l <= Len(snt), NEW flt,
         Link(q, t, rx, r, tx, s, snt, l, flt), NEW m \in Msg, NEW ok \in BOOLEAN,
         m.len > MAX_SF => ok
  PROVE  LET o == uds_isotp_send(tx, m)
         IN  \E u, n : /\ n \in Mark
                       /\ Link(IF ok THEN q \o o.frames ELSE q, u, rx, r, o.iso, n,
                               Append(snt, m), l, flt)
<1> DEFINE o == uds_isotp_send(tx, m)
           a == Append(snt, m)
           b == IF ok THEN q \o o.frames ELSE q
           g == [j |-> Len(snt) + 1, c |-> 0]
           u == t \o <<g>>
<1>1. Link(q, t, rx, r, tx, s, a, l, flt)
  BY LinkGrows
<1>2. m.len \in Nat /\ MAX_SF \in Nat /\ TX_BUF \in Nat /\ MAX_FF \in Nat /\ MAX_FF <= MAX_SF
  BY IsoTpAssumption
<1>6. g \in Mark /\ g.j = Len(snt) + 1 /\ g.c = 0
  <2>1. Len(snt) + 1 \in Nat
    OBVIOUS
  <2> QED
    BY <2>1 DEF Mark
<1> HIDE DEF g
<1>3. CASE m.len <= MAX_SF
  <2> DEFINE f == Sf(m)
             z == q \o <<f>>
  <2>1. o.iso = tx /\ o.frames = <<f>>
    BY <1>3 DEF uds_isotp_send, uds_send_sf, Left
  <2>2. f \in Frames
    BY SfType
  <2>3. Opens(f) /\ ~Carries(f) /\ Shows(f, m, 0)
    BY <1>3 DEF Opens, Carries, Shows, Sf
  <2> HIDE DEF f, o
  <2>4. CASE ok
    <3>1. Opens(f) /\ Shows(f, m, 0)
      BY <2>3
    <3>2. Marked(z, u, a, l)
      BY <1>6, <2>2, <3>1, LinkOpens
    <3>3. Waits(z, u, rx, r, tx, s, a, l, flt)
      BY <1>6, <2>2, <3>1, OpensWaits
    <3>4. Sends(z, u, tx, s, a)
      <4>1. Sends(q, t, tx, s, a) /\ Marked(q, t, a, l)
        BY <1>1 DEF Link
      <4>2. t \in Seq(Mark) /\ Len(t) = Len(q)
        BY <4>1 DEF Marked
      <4> HIDE DEF a
      <4> QED
        BY <1>6, <2>2, <2>3, <4>1, <4>2, AddedSends
    <3> HIDE DEF a, z, u
    <3>5. Link(z, u, rx, r, tx, s, a, l, flt)
      BY <3>2, <3>3, <3>4 DEF Link
    <3>6. b = z
      BY <2>1, <2>4 DEF z
    <3> HIDE DEF b
    <3> QED
      BY <2>1, <3>5, <3>6 DEF a, b, o
  <2>5. CASE ~ok
    <3>1. b = q
      BY <2>5
    <3> HIDE DEF b, a
    <3> QED
      BY <1>1, <2>1, <3>1 DEF o, b, a
  <2> QED
    BY <2>4, <2>5
<1>4. CASE m.len > MAX_SF /\ m.len > TX_BUF
  <2>1. o.iso = tx /\ o.frames = <<>>
    BY <1>2, <1>4 DEF uds_isotp_send, uds_send_mf, Left
  <2> HIDE DEF o
  <2>2. b = q
    BY <2>1
  <2> HIDE DEF b, a
  <2> QED
    BY <1>1, <2>1, <2>2 DEF o, b, a
<1>5. CASE m.len > MAX_SF /\ ~(m.len > TX_BUF)
  <2> DEFINE f == Ff(m)
             z == q \o <<f>>
             i == [tx EXCEPT !.pending_tx = m, !.msg_len = m.len,
                             !.bytes_processed = MAX_FF, !.sn = 1,
                             !.state = ISOTP_TX_WAIT_FC]
  <2>1. o.iso = i /\ o.frames = <<f>>
    BY <1>2, <1>5 DEF uds_isotp_send, uds_send_mf, Left
  <2>2. f \in Frames
    BY <1>2, <1>5, FfType
  <2>3. Opens(f) /\ Carries(f) /\ f.k = "FF" /\ Shows(f, m, 0)
    BY <1>2, <1>5 DEF Opens, Carries, Shows, Ff
  <2>4. i.pending_tx = m /\ i.msg_len = m.len /\ i.bytes_processed = MAX_FF /\ i.sn = 1
    BY DEF IsoCtx
  <2>5. Reaches(i, m, 0)
    <3>1. MAX_FF = Offset(0) /\ 1 = (0 + 1) % SN_MOD
      BY OffsetZero
    <3>2. Offset(0) < m.len /\ m.len <= TX_BUF
      BY <1>2, <1>5, <3>1
    <3> HIDE DEF i
    <3> QED
      BY <2>4, <3>1, <3>2 DEF Reaches
  <2> HIDE DEF f, o, i
  <2>7. g.j \in DOMAIN a /\ a[g.j] = m /\ Marked(z, u, a, l)
    BY <1>6, <2>2, <2>3, LinkOpens
  <2>8. Waits(z, u, rx, r, i, g, a, l, flt)
    BY <1>6, <2>2, <2>3, OpensWaits
  <2>10. Sends(z, u, i, g, a)
    <3> DEFINE e == Len(q) + 1
    <3>1. t \in Seq(Mark) /\ Len(t) = Len(q)
      BY <1>1 DEF Link, Marked
    <3>2. z[e] = f /\ u[e] = g
      BY <1>6, <2>2, <3>1, AddedPair
    <3>3. \A k \in DOMAIN z : Last(z, k) => k = e
      BY <2>2, <2>3, AddedPlaces
    <3> HIDE DEF z, u, e, a
    <3> QED
      BY <2>3, <2>4, <2>5, <2>7, <1>6, <3>2, <3>3 DEF Sends
  <2> HIDE DEF a, z, u
  <2>11. Link(z, u, rx, r, i, g, a, l, flt)
    BY <2>7, <2>8, <2>10 DEF Link
  <2>12. b = z
    BY <1>5, <2>1 DEF z
  <2> HIDE DEF b
  <2> QED
    BY <1>6, <2>1, <2>11, <2>12 DEF a, b, o
<1> QED
  BY <1>2, <1>3, <1>4, <1>5

-----------------------------------------------------------------------------
(* Consecutive frames are sent *)

\* A context after a consecutive frame that is not the last one.
LEMMA CfSentReaches ==
  ASSUME NEW i \in IsoCtx, NEW m, m.len \in Nat, NEW c \in Nat, Reaches(i, m, c), NEW x,
         Active(CfSent(i, x))
  PROVE  Reaches(CfSent(i, x), m, c + 1) /\ CfSent(i, x).pending_tx = i.pending_tx
<1> DEFINE d == i.bytes_processed + MAX_CF >= i.msg_len
           b == IF d THEN i.msg_len ELSE i.bytes_processed + MAX_CF
           y == (i.sn + 1) % SN_MOD
           v == (i.bs_counter + 1) % 256
           w == IF d THEN ISOTP_IDLE ELSE i.state
           o == [i EXCEPT !.bytes_processed = b, !.sn = y, !.bs_counter = v, !.timer_st = x,
                          !.state = w]
<1>1. CfSent(i, x) = o
  BY DEF CfSent
<1> HIDE DEF b, y, v, w
<1>2. /\ o.bytes_processed = b /\ o.sn = y /\ o.state = w /\ o.msg_len = i.msg_len
      /\ o.pending_tx = i.pending_tx
  BY DEF IsoCtx
<1> HIDE DEF o
<1>3. ~d
  BY <1>1, <1>2 DEF w, Active, ISOTP_IDLE, ISOTP_TX_WAIT_FC, ISOTP_TX_SENDING_CF
<1>4. /\ i.msg_len = m.len /\ i.bytes_processed = Offset(c) /\ i.sn = (c + 1) % SN_MOD
      /\ m.len <= TX_BUF
  BY DEF Reaches
<1>5. Offset(c) \in Nat /\ Offset(c + 1) = Offset(c) + MAX_CF /\ MAX_CF \in Nat
  BY OffsetNext, IsoTpAssumption
<1>6. b = Offset(c + 1) /\ Offset(c + 1) < m.len
  BY <1>3, <1>4, <1>5 DEF b
<1>7. y = ((c + 1) + 1) % SN_MOD
  <2> DEFINE e == c + 1
  <2>1. e \in Nat /\ i.sn = e % SN_MOD
    BY <1>4
  <2> HIDE DEF e
  <2>2. (i.sn + 1) % SN_MOD = (e + 1) % SN_MOD
    BY <2>1, SnStep
  <2> QED
    BY <2>2 DEF e, y
<1>8. Reaches(o, m, c + 1)
  BY <1>2, <1>4, <1>6, <1>7 DEF Reaches
<1> QED
  BY <1>1, <1>2, <1>8

\* The next consecutive frame of the message the sender is sending.
LEMMA LinkCf ==
  ASSUME NEW q \in Seq(Frames), NEW t, NEW rx, NEW r \in Mark, NEW tx \in IsoCtx, NEW s \in Mark,
         NEW snt \in Seq(Msg), NEW l, NEW flt \in Nat, Link(q, t, rx, r, tx, s, snt, l, flt),
         Active(tx), NEW x
  PROVE  \E u, n : /\ n \in Mark
                   /\ Link(q \o <<Cf(tx.sn, tx.pending_tx, tx.bytes_processed)>>, u,
                           rx, r, CfSent(tx, x), n, snt, l, flt)
<1> DEFINE f == Cf(tx.sn, tx.pending_tx, tx.bytes_processed)
           m == snt[s.j]
           i == CfSent(tx, x)
           z == q \o <<f>>
           u == t \o <<s>>
           n == [j |-> s.j, c |-> s.c + 1]
           e == Len(q) + 1
<1>1. Marked(q, t, snt, l) /\ Sends(q, t, tx, s, snt) /\ Waits(q, t, rx, r, tx, s, snt, l, flt)
  BY DEF Link
<1>2. t \in Seq(Mark) /\ Len(t) = Len(q)
  BY <1>1 DEF Marked
<1>3. s.j \in Nat /\ s.c \in Nat /\ r.c \in Nat
  BY DEF Mark
<1>4. n \in Mark /\ n.j = s.j /\ n.c = s.c + 1
  BY <1>3 DEF Mark
<1> HIDE DEF n
<1>5. /\ s.j \in DOMAIN snt /\ tx.pending_tx = m /\ Reaches(tx, m, s.c)
      /\ \A k \in DOMAIN q : Last(q, k) =>
           /\ q[k].k = "FF" => t[k].j = s.j /\ s.c = 0
           /\ q[k].k = "CF" => t[k].j = s.j /\ s.c = t[k].c + 1
  BY <1>1 DEF Sends
<1>6. m \in Msg /\ m.len \in Nat
  BY <1>5, IsoTpAssumption
<1>7. f \in Frames
  <2>1. tx.sn \in 0 .. SN_MOD - 1 /\ tx.pending_tx \in Msg \cup {NoTx} /\ tx.bytes_processed \in Nat
    BY DEF IsoCtx
  <2> QED
    BY <2>1, CfType
<1>8. f.k = "CF" /\ Carries(f) /\ ~Opens(f)
  BY DEF Cf, Carries, Opens
<1>9. Shows(f, m, s.c)
  <2>1. tx.sn = (s.c + 1) % SN_MOD /\ tx.bytes_processed = Offset(s.c) /\ Offset(s.c) < m.len
    BY <1>5 DEF Reaches
  <2>2. f = Cf((s.c + 1) % SN_MOD, m, Offset(s.c))
    BY <1>5, <2>1
  <2> QED
    BY <2>1, <2>2 DEF Shows
<1> HIDE DEF f
<1>10. Marked(z, u, snt, l)
  <2>1. f.k = "CF" => \A k \in DOMAIN q : Last(q, k) => Continues(q[k], t[k], s)
    BY <1>5 DEF Continues
  <2>2. Bears(f) => s.j \in DOMAIN snt /\ Shows(f, snt[s.j], s.c)
    BY <1>5, <1>9
  <2> QED
    BY <1>1, <1>7, <1>8, <2>1, <2>2, AddedMarks
<1>11. rx.state = ISOTP_RX_WAIT_CF /\ Bare(q) /\ f.k = "CF" =>
         s.j = r.j /\ r.c <= s.c + 1 /\ s.c <= r.c + flt
  <2>1. rx.state = ISOTP_RX_WAIT_CF /\ Bare(q) => s.j = r.j /\ r.c <= s.c /\ s.c <= r.c + flt
    BY <1>1 DEF Waits
  <2> QED
    BY <1>3, <2>1
<1>12. Waits(z, u, rx, r, i, n, snt, l, flt)
  <2> HIDE DEF i
  <2> QED
    BY <1>1, <1>2, <1>7, <1>8, <1>11, AddedWaits
<1>13. Sends(z, u, i, n, snt)
  <2>1. Active(i) => Reaches(i, m, s.c + 1) /\ i.pending_tx = m
    BY <1>3, <1>5, <1>6, CfSentReaches
  <2>2. z[e] = f /\ u[e] = s
    BY <1>2, <1>7, AddedPair
  <2>3. \A k \in DOMAIN z : Last(z, k) => k = e
    BY <1>7, <1>8, AddedPlaces
  <2> HIDE DEF i, z, u, e
  <2> QED
    BY <1>4, <1>5, <1>8, <2>1, <2>2, <2>3 DEF Sends
<1> HIDE DEF z, u, i
<1>14. Link(z, u, rx, r, i, n, snt, l, flt)
  BY <1>10, <1>12, <1>13 DEF Link
<1> QED
  BY <1>4, <1>14 DEF z, i, f

\* uds_tp_isotp_process keeps the link in order.
LEMMA LinkProcess ==
  ASSUME NEW q \in Seq(Frames), NEW t, NEW rx, NEW r \in Mark, NEW tx \in IsoCtx, NEW s \in Mark,
         NEW snt \in Seq(Msg), NEW l, NEW flt \in Nat, Link(q, t, rx, r, tx, s, snt, l, flt),
         tx.state = ISOTP_TX_SENDING_CF, NEW x, NEW ok \in BOOLEAN
  PROVE  LET o == uds_tp_isotp_process(tx, x, ok)
         IN  \E u, n : /\ n \in Mark
                       /\ Link(IF ok THEN q \o o.frames ELSE q, u, rx, r, o.iso, n, snt, l, flt)
<1> DEFINE o == uds_tp_isotp_process(tx, x, ok)
           f == Cf(tx.sn, tx.pending_tx, tx.bytes_processed)
           i == CfSent(tx, x)
           a == [tx EXCEPT !.state = ISOTP_IDLE]
           b == [tx EXCEPT !.state = ISOTP_TX_WAIT_FC, !.bs_counter = 0]
           z == IF ok THEN q \o o.frames ELSE q
<1>1. Active(tx)
  BY DEF Active
<1>2. \/ o.frames = <<>> /\ o.iso \in {tx, a, b}
      \/ ok /\ o.frames = <<f>> /\ o.iso = i
  <2> HIDE DEF f, i, a, b
  <2> QED
    BY DEF uds_tp_isotp_process, Left, f, i, a, b
<1>3. StillTx(tx, tx) /\ StillTx(tx, a) /\ StillTx(tx, b)
  BY <1>1 DEF StillTx, Active, IsoCtx, ISOTP_IDLE, ISOTP_TX_WAIT_FC, ISOTP_TX_SENDING_CF
<1>4. CASE o.frames = <<>> /\ o.iso \in {tx, a, b}
  <2> HIDE DEF o, a, b
  <2>1. z = q
    BY <1>4
  <2>2. StillTx(tx, o.iso)
    BY <1>3, <1>4
  <2>3. Link(q, t, rx, r, o.iso, s, snt, l, flt)
    BY <2>2, LinkTx
  <2> HIDE DEF z
  <2> QED
    BY <2>1, <2>3 DEF o, z
<1>5. CASE ok /\ o.frames = <<f>> /\ o.iso = i
  <2>1. \E u, n : n \in Mark /\ Link(q \o <<f>>, u, rx, r, i, n, snt, l, flt)
    BY <1>1, LinkCf
  <2> HIDE DEF o, f, i
  <2>2. z = q \o <<f>>
    BY <1>5
  <2> HIDE DEF z
  <2> QED
    BY <1>5, <2>1, <2>2 DEF o, z
<1> QED
  BY <1>2, <1>4, <1>5

-----------------------------------------------------------------------------
(* Faults *)

\* A frame is lost; not a first frame.
LEMMA LinkLose ==
  ASSUME NEW q \in Seq(Frames), q # <<>>, NEW t, NEW rx, NEW r \in Mark, NEW tx, NEW s \in Mark,
         NEW snt, NEW l, NEW flt \in Nat, Link(q, t, rx, r, tx, s, snt, l, flt), q[1].k # "FF"
  PROVE  Link(Tail(q), Tail(t), rx, r, tx, s, snt, l, flt + 1)
<1>1. Marked(q, t, snt, l) /\ Sends(q, t, tx, s, snt) /\ Waits(q, t, rx, r, tx, s, snt, l, flt)
  BY DEF Link
<1>2. q[1] \in Frames
  OBVIOUS
<1>3. q[1].k \in {"SF", "CF", "FC"}
  BY <1>2 DEF Frames, FirstFrames
<1>4. flt + 1 \in Nat /\ flt <= flt + 1 /\ flt + 1 <= flt + 1
  OBVIOUS
<1>5. Waits(Tail(q), Tail(t), rx, r, tx, s, snt, l, flt + 1)
  BY <1>1, <1>3, <1>4, DroppedWaits
<1>6. Marked(Tail(q), Tail(t), snt, l)
  BY <1>1, DroppedMarks
<1>7. Sends(Tail(q), Tail(t), tx, s, snt)
  BY <1>1, DroppedSends
<1> QED
  BY <1>5, <1>6, <1>7 DEF Link

\* What is next, first or last, once the head comes twice.
LEMMA RepeatedPlaces ==
  ASSUME NEW S, NEW q \in Seq(S), q # <<>>
  PROVE  LET z == <<Head(q)>> \o q
         IN  /\ \A i, j \in DOMAIN z : Adjacent(z, i, j) =>
                  (i = 1 /\ j = 2) \/ (i > 1 /\ j > 1 /\ Adjacent(q, i - 1, j - 1))
             /\ \A i \in DOMAIN z : Last(z, i) => i > 1 /\ Last(q, i - 1)
             /\ \A j \in DOMAIN z : First(z, j) =>
                  (j = 1 /\ First(q, 1)) \/ (j > 1 /\ First(q, j - 1))
             /\ Bare(z) => Bare(q)
<1> DEFINE z == <<Head(q)>> \o q
<1>1. /\ 1 \in DOMAIN q /\ 1 \in DOMAIN z /\ 2 \in DOMAIN z /\ z[1] = q[1] /\ z[2] = q[1]
      /\ \A i \in DOMAIN z : i \in Nat /\ (i = 1 \/ (i > 1 /\ i - 1 \in DOMAIN q /\ z[i] = q[i - 1]))
      /\ \A i \in DOMAIN q : i \in Nat /\ i >= 1 /\ i + 1 \in DOMAIN z /\ z[i + 1] = q[i]
  BY Repeated
<1> HIDE DEF z
<1>2. ASSUME NEW i \in DOMAIN z, NEW j \in DOMAIN z, Adjacent(z, i, j)
      PROVE  (i = 1 /\ j = 2) \/ (i > 1 /\ j > 1 /\ Adjacent(q, i - 1, j - 1))
  <2>1. /\ i < j /\ Carries(z[i]) /\ Carries(z[j]) /\ i \in Nat /\ j \in Nat
        /\ \A h \in DOMAIN z : i < h /\ h < j => ~Carries(z[h])
    BY <1>1, <1>2 DEF Adjacent
  <2>2. CASE i = 1
    <3>1. Carries(z[2]) /\ 1 < 2 /\ j > 1
      BY <1>1, <2>1, <2>2
    <3>2. ~(2 < j)
      BY <1>1, <2>1, <2>2, <3>1
    <3> QED
      BY <2>1, <2>2, <3>1, <3>2
  <2>3. CASE i # 1
    <3>1. i > 1 /\ j > 1 /\ z[i] = q[i - 1] /\ z[j] = q[j - 1]
      <4>1. i > 1 /\ j > 1
        BY <1>1, <2>1, <2>3
      <4>2. j # 1
        BY <2>1, <4>1
      <4> QED
        BY <1>1, <2>3, <4>1, <4>2
    <3>2. i - 1 < j - 1
      BY <2>1
    <3>3. ASSUME NEW h \in DOMAIN q, i - 1 < h, h < j - 1 PROVE ~Carries(q[h])
      <4>1. h \in Nat /\ h + 1 \in DOMAIN z /\ z[h + 1] = q[h]
        BY <1>1
      <4>2. i < h + 1 /\ h + 1 < j
        BY <2>1, <3>3, <4>1
      <4> QED
        BY <2>1, <4>1, <4>2
    <3> QED
      BY <2>1, <3>1, <3>2, <3>3 DEF Adjacent
  <2> QED
    BY <2>2, <2>3
<1>3. ASSUME NEW i \in DOMAIN z, Last(z, i)
      PROVE  i > 1 /\ Last(q, i - 1)
  <2>1. Carries(z[i]) /\ i \in Nat /\ \A h \in DOMAIN z : i < h => ~Carries(z[h])
    BY <1>1, <1>3 DEF Last
  <2>2. i # 1
    BY <1>1, <2>1
  <2>3. i > 1 /\ z[i] = q[i - 1]
    BY <1>1, <2>2
  <2>4. ASSUME NEW h \in DOMAIN q, i - 1 < h PROVE ~Carries(q[h])
    <3>1. h \in Nat /\ h + 1 \in DOMAIN z /\ z[h + 1] = q[h]
      BY <1>1
    <3>2. i < h + 1
      BY <2>1, <2>4, <3>1
    <3> QED
      BY <2>1, <3>1, <3>2
  <2> QED
    BY <2>1, <2>3, <2>4 DEF Last
<1>4. ASSUME NEW j \in DOMAIN z, First(z, j)
      PROVE  (j = 1 /\ First(q, 1)) \/ (j > 1 /\ First(q, j - 1))
  <2>1. Carries(z[j]) /\ j \in Nat /\ \A h \in DOMAIN z : h < j => ~Carries(z[h])
    BY <1>1, <1>4 DEF First
  <2>2. CASE j = 1
    <3>1. \A h \in DOMAIN q : ~(h < 1)
      BY <1>1
    <3> QED
      BY <1>1, <2>1, <2>2, <3>1 DEF First
  <2>3. CASE j # 1
    <3>1. j > 1 /\ z[j] = q[j - 1]
      BY <1>1, <2>3
    <3>2. ASSUME NEW h \in DOMAIN q, h < j - 1 PROVE ~Carries(q[h])
      <4>1. h \in Nat /\ h + 1 \in DOMAIN z /\ z[h + 1] = q[h]
        BY <1>1
      <4>2. h + 1 < j
        BY <2>1, <3>2, <4>1
      <4> QED
        BY <2>1, <4>1, <4>2
    <3> QED
      BY <2>1, <3>1, <3>2 DEF First
  <2> QED
    BY <2>2, <2>3
<1>5. Bare(z) => Bare(q)
  <2>1. ASSUME Bare(z), NEW h \in DOMAIN q PROVE ~Carries(q[h])
    BY <1>1, <2>1 DEF Bare
  <2> QED
    BY <2>1 DEF Bare
<1> QED
  BY <1>2, <1>3, <1>4, <1>5 DEF z

\* A frame comes twice; not a single frame.
LEMMA LinkDouble ==
  ASSUME NEW q \in Seq(Frames), q # <<>>, NEW t, NEW rx, NEW r \in Mark, NEW tx, NEW s \in Mark,
         NEW snt, NEW l, NEW flt \in Nat, Link(q, t, rx, r, tx, s, snt, l, flt), q[1].k # "SF"
  PROVE  \E u : Link(<<Head(q)>> \o q, u, rx, r, tx, s, snt, l, flt + 1)
<1> DEFINE z == <<Head(q)>> \o q
           u == <<Head(t)>> \o t
<1>1. Marked(q, t, snt, l) /\ Sends(q, t, tx, s, snt) /\ Waits(q, t, rx, r, tx, s, snt, l, flt)
  BY DEF Link
<1>2. t \in Seq(Mark) /\ Len(t) = Len(q) /\ t # <<>> /\ DOMAIN t = DOMAIN q
  BY <1>1 DEF Marked
<1>3. /\ z \in Seq(Frames) /\ Len(z) = Len(q) + 1
      /\ 1 \in DOMAIN q /\ 1 \in DOMAIN z /\ 2 \in DOMAIN z /\ z[1] = q[1] /\ z[2] = q[1]
      /\ \A i \in DOMAIN z : i \in Nat /\ (i = 1 \/ (i > 1 /\ i - 1 \in DOMAIN q /\ z[i] = q[i - 1]))
  BY Repeated
<1>4. /\ u \in Seq(Mark) /\ Len(u) = Len(t) + 1 /\ u[1] = t[1] /\ u[2] = t[1]
      /\ \A i \in DOMAIN u : i = 1 \/ u[i] = t[i - 1]
  BY <1>2, Repeated
<1>5. DOMAIN u = DOMAIN z /\ Len(u) = Len(z)
  BY <1>2, <1>3, <1>4
<1>6. /\ \A i, j \in DOMAIN z : Adjacent(z, i, j) =>
           (i = 1 /\ j = 2) \/ (i > 1 /\ j > 1 /\ Adjacent(q, i - 1, j - 1))
      /\ \A i \in DOMAIN z : Last(z, i) => i > 1 /\ Last(q, i - 1)
      /\ \A j \in DOMAIN z : First(z, j) =>
           (j = 1 /\ First(q, 1)) \/ (j > 1 /\ First(q, j - 1))
      /\ Bare(z) => Bare(q)
  BY RepeatedPlaces
<1>7. \A i \in DOMAIN q : t[i].j \in Nat /\ t[i].c \in Nat
  BY <1>2, MarksType
<1>8. r.c \in Nat /\ s.c \in Nat
  BY DEF Mark
<1> HIDE DEF z, u
<1>9. ASSUME NEW i \in DOMAIN z, i # 1
      PROVE  i \in Nat /\ i > 1 /\ i - 1 \in DOMAIN q /\ z[i] = q[i - 1] /\ u[i] = t[i - 1]
  BY <1>3, <1>4, <1>5, <1>9
<1>10. ASSUME NEW i \in DOMAIN z
       PROVE  \E k \in DOMAIN q : z[i] = q[k] /\ u[i] = t[k]
  <2>1. CASE i = 1
    BY <1>3, <1>4, <2>1
  <2>2. CASE i # 1
    BY <1>9, <2>2
  <2> QED
    BY <2>1, <2>2
<1>11. Marked(z, u, snt, l)
  <2>1. \A i \in DOMAIN z : Bears(z[i]) => u[i].j \in DOMAIN snt /\ Shows(z[i], snt[u[i].j], u[i].c)
    BY <1>1, <1>10 DEF Marked
  <2>2. ASSUME NEW i \in DOMAIN z, NEW j \in DOMAIN z, Adjacent(z, i, j), z[j].k = "CF"
        PROVE  Continues(z[i], u[i], u[j])
    <3>1. CASE i = 1 /\ j = 2
      BY <1>3, <1>4, <2>2, <3>1 DEF Continues
    <3>2. CASE i > 1 /\ j > 1 /\ Adjacent(q, i - 1, j - 1)
      <4>1. i # 1 /\ j # 1
        BY <1>3, <3>2
      <4>2. /\ i - 1 \in DOMAIN q /\ z[i] = q[i - 1] /\ u[i] = t[i - 1]
            /\ j - 1 \in DOMAIN q /\ z[j] = q[j - 1] /\ u[j] = t[j - 1]
        BY <1>9, <4>1
      <4> QED
        BY <1>1, <2>2, <3>2, <4>2 DEF Marked
    <3> QED
      BY <1>6, <2>2, <3>1, <3>2
  <2>3. \A j \in DOMAIN z : Opens(z[j]) => l < u[j].j
    BY <1>1, <1>10 DEF Marked
  <2>4. ASSUME NEW i \in DOMAIN z, NEW j \in DOMAIN z, i < j, Bears(z[i]), Opens(z[j])
        PROVE  u[i].j <= u[j].j /\ (z[i].k # "FF" => u[i].j < u[j].j)
    <3>0. j # 1 /\ i \in Nat /\ j \in Nat
      BY <1>3, <2>4
    <3>1. j - 1 \in DOMAIN q /\ z[j] = q[j - 1] /\ u[j] = t[j - 1]
      BY <1>9, <3>0
    <3>2. CASE i = 1 /\ j = 2
      <4>1. q[1].k = "FF" /\ u[i] = t[1] /\ u[j] = t[1] /\ z[i] = q[1]
        BY <1>3, <1>4, <2>4, <3>2 DEF Opens
      <4> QED
        BY <1>3, <1>7, <4>1
    <3>3. CASE i = 1 /\ j # 2
      <4>1. 1 < j - 1 /\ z[i] = q[1] /\ u[i] = t[1]
        BY <1>3, <1>4, <2>4, <3>0, <3>3
      <4> QED
        BY <1>1, <1>3, <2>4, <3>1, <4>1 DEF Marked
    <3>4. CASE i # 1
      <4>1. i - 1 \in DOMAIN q /\ z[i] = q[i - 1] /\ u[i] = t[i - 1]
        BY <1>9, <3>4
      <4>2. i - 1 < j - 1
        BY <2>4, <3>0
      <4> QED
        BY <1>1, <2>4, <3>1, <4>1, <4>2 DEF Marked
    <3> QED
      BY <3>2, <3>3, <3>4
  <2> QED
    BY <1>4, <1>5, <2>1, <2>2, <2>3, <2>4 DEF Marked
<1>12. Sends(z, u, tx, s, snt)
  <2>1. ASSUME NEW i \in DOMAIN z, Last(z, i)
        PROVE  i - 1 \in DOMAIN q /\ z[i] = q[i - 1] /\ u[i] = t[i - 1] /\ Last(q, i - 1)
    <3>1. i > 1 /\ Last(q, i - 1)
      BY <1>6, <2>1
    <3>2. i # 1
      BY <3>1
    <3> QED
      BY <1>9, <3>1, <3>2
  <2> QED
    BY <1>1, <2>1 DEF Sends
<1>13. Waits(z, u, rx, r, tx, s, snt, l, flt + 1)
  <2> SUFFICES ASSUME rx.state = ISOTP_RX_WAIT_CF
               PROVE  Waits(z, u, rx, r, tx, s, snt, l, flt + 1)
    BY NotWaiting
  <2>1. \A j \in DOMAIN z : Opens(z[j]) => r.j <= u[j].j
    BY <1>1, <1>10 DEF Waits
  <2>2. \A j \in DOMAIN q : First(q, j) /\ q[j].k = "CF" =>
          t[j].j = r.j /\ r.c <= t[j].c + 1 /\ t[j].c <= r.c + (flt + 1)
    <3>1. \A j \in DOMAIN q : First(q, j) /\ q[j].k = "CF" =>
            t[j].j = r.j /\ r.c <= t[j].c + 1 /\ t[j].c <= r.c + flt
      BY <1>1 DEF Waits
    <3> QED
      BY <1>7, <1>8, <3>1
  <2>3. ASSUME NEW j \in DOMAIN z, First(z, j), z[j].k = "CF"
        PROVE  u[j].j = r.j /\ r.c <= u[j].c + 1 /\ u[j].c <= r.c + (flt + 1)
    <3>1. CASE j = 1 /\ First(q, 1)
      BY <1>3, <1>4, <2>2, <2>3, <3>1
    <3>2. CASE j > 1 /\ First(q, j - 1)
      <4>1. j # 1
        BY <3>2
      <4>2. j - 1 \in DOMAIN q /\ z[j] = q[j - 1] /\ u[j] = t[j - 1]
        BY <1>9, <4>1
      <4> QED
        BY <2>2, <2>3, <3>2, <4>2
    <3> QED
      BY <1>6, <2>3, <3>1, <3>2
  <2>4. Bare(z) /\ Active(tx) => s.j = r.j /\ r.c <= s.c /\ s.c <= r.c + (flt + 1)
    <3>1. Bare(z) /\ Active(tx) => s.j = r.j /\ r.c <= s.c /\ s.c <= r.c + flt
      BY <1>1, <1>6 DEF Waits
    <3> QED
      BY <1>8, <3>1
  <2>5. /\ r.j \in DOMAIN snt /\ l < r.j /\ Reaches(rx, snt[r.j], r.c)
        /\ rx.rx_buffer = Bytes(snt[r.j], 0, Offset(r.c))
    BY <1>1 DEF Waits
  <2> QED
    BY <2>1, <2>3, <2>4, <2>5 DEF Waits
<1>14. Link(z, u, rx, r, tx, s, snt, l, flt + 1)
  BY <1>11, <1>12, <1>13 DEF Link
<1> QED
  BY <1>14 DEF z

\* More faults are no harm.
LEMMA LinkMonotone ==
  ASSUME NEW q \in Seq(Frames), NEW t, NEW rx, NEW r \in Mark, NEW tx, NEW s \in Mark,
         NEW snt, NEW l, NEW flt \in Nat, Link(q, t, rx, r, tx, s, snt, l, flt)
  PROVE  Link(q, t, rx, r, tx, s, snt, l, flt + 1)
<1>1. Marked(q, t, snt, l) /\ Sends(q, t, tx, s, snt) /\ Waits(q, t, rx, r, tx, s, snt, l, flt)
  BY DEF Link
<1>2. t \in Seq(Mark) /\ Len(t) = Len(q)
  BY <1>1 DEF Marked
<1>3. \A i \in DOMAIN q : t[i].j \in Nat /\ t[i].c \in Nat
  BY <1>2, MarksType
<1>4. r.c \in Nat /\ s.c \in Nat
  BY DEF Mark
<1>5. /\ \A c \in Nat : c <= r.c + flt => c <= r.c + (flt + 1)
  BY <1>4
<1>6. Waits(q, t, rx, r, tx, s, snt, l, flt + 1)
  BY <1>1, <1>3, <1>4, <1>5 DEF Waits
<1> QED
  BY <1>1, <1>6 DEF Link

-----------------------------------------------------------------------------
(* One direction of the link *)

\* The last SDU delivered is message l of those sent (0: none yet).
UpTo(d, snt, l) ==
  IF d = <<>> THEN l = 0
  ELSE l \in DOMAIN snt /\ d[Len(d)] = Content(snt[l]) /\ snt[l].len # 0

\* One direction of the link, as it should be.
Orderly(q, rx, tx, snt, d, flt) ==
  \E t, r, s, l : /\ r \in Mark /\ s \in Mark /\ l \in Nat /\ l <= Len(snt)
                  /\ Link(q, t, rx, r, tx, s, snt, l, flt) /\ UpTo(d, snt, l)

\* What uds_input_sdu is given.
Sdu == Seq(Octet)

\* What a message gives the stack.
LEMMA ContentSdu ==
  ASSUME NEW m \in Msg
  PROVE  Content(m) \in Sdu
<1>1. m.len \in Nat /\ m \in Msg \cup {NoTx}
  BY IsoTpAssumption
<1> QED
  BY <1>1, BytesType DEF Content, Sdu

\* What reception delivers is the next message or a later one.
LEMMA UpToAdvances ==
  ASSUME NEW snt \in Seq(Msg), NEW l \in Nat, NEW d \in Seq(Sdu), UpTo(d, snt, l),
         NEW k \in Nat, NEW e, Advances(snt, l, k, e)
  PROVE  UpTo(d \o e, snt, k) /\ d \o e \in Seq(Sdu) /\ (l <= Len(snt) => k <= Len(snt))
<1>1. CASE e = <<>> /\ k = l
  <2>1. d \o e = d
    BY <1>1
  <2> QED
    BY <1>1, <2>1
<1>2. CASE k \in DOMAIN snt /\ l < k /\ e = <<Content(snt[k])>> /\ snt[k].len # 0
  <2> DEFINE c == Content(snt[k])
  <2>1. c \in Sdu /\ k <= Len(snt)
    BY <1>2, ContentSdu
  <2> HIDE DEF c
  <2>2. d \o e = d \o <<c>>
    BY <1>2 DEF c
  <2>3. d \o <<c>> \in Seq(Sdu) /\ Len(d \o <<c>>) = Len(d) + 1 /\ (d \o <<c>>)[Len(d) + 1] = c
    BY <2>1
  <2>4. d \o <<c>> # <<>>
    BY <2>1
  <2> QED
    BY <1>2, <2>1, <2>2, <2>3, <2>4 DEF UpTo, c
<1> QED
  BY <1>1, <1>2 DEF Advances

\* Reception.
LEMMA OrderlyTake ==
  ASSUME NEW q \in Seq(Frames), q # <<>>, NEW snt \in Seq(Msg), NEW d \in Seq(Sdu),
         NEW rx \in IsoCtx, NEW tx, NEW flt \in Nat, flt < SN_MOD, Sized,
         Orderly(q, rx, tx, snt, d, flt)
  PROVE  LET o == uds_isotp_rx_callback(rx, Head(q))
         IN  /\ Orderly(Tail(q), o.iso, tx, snt, d \o o.sdus, flt)
             /\ d \o o.sdus \in Seq(Sdu)
             /\ \E l, k \in Nat : UpTo(d, snt, l) /\ Advances(snt, l, k, o.sdus)
<1> DEFINE o == uds_isotp_rx_callback(rx, Head(q))
<1>1. PICK t, r, s, l : /\ r \in Mark /\ s \in Mark /\ l \in Nat /\ l <= Len(snt)
                        /\ Link(q, t, rx, r, tx, s, snt, l, flt) /\ UpTo(d, snt, l)
  BY DEF Orderly
<1>2. PICK n \in Mark, k \in Nat : /\ Link(Tail(q), Tail(t), o.iso, n, tx, s, snt, k, flt)
                                   /\ Advances(snt, l, k, o.sdus)
  BY <1>1, LinkTake
<1> HIDE DEF o
<1>3. UpTo(d \o o.sdus, snt, k) /\ d \o o.sdus \in Seq(Sdu) /\ k <= Len(snt)
  BY <1>1, <1>2, UpToAdvances
<1>4. Orderly(Tail(q), o.iso, tx, snt, d \o o.sdus, flt)
  BY <1>1, <1>2, <1>3 DEF Orderly
<1> QED
  BY <1>1, <1>2, <1>3, <1>4 DEF o

\* The sender gives up its message or goes on with it.
LEMMA OrderlyTx ==
  ASSUME NEW q, NEW snt, NEW d, NEW rx, NEW tx, NEW flt, Orderly(q, rx, tx, snt, d, flt),
         NEW i, StillTx(tx, i)
  PROVE  Orderly(q, rx, i, snt, d, flt)
<1>1. PICK t, r, s, l : /\ r \in Mark /\ s \in Mark /\ l \in Nat /\ l <= Len(snt)
                        /\ Link(q, t, rx, r, tx, s, snt, l, flt) /\ UpTo(d, snt, l)
  BY DEF Orderly
<1>2. Link(q, t, rx, r, i, s, snt, l, flt)
  BY <1>1, LinkTx
<1> QED
  BY <1>1, <1>2 DEF Orderly

\* The receiver gives up its message or goes on with it.
LEMMA OrderlyRx ==
  ASSUME NEW q, NEW snt, NEW d, NEW rx, NEW tx, NEW flt, Orderly(q, rx, tx, snt, d, flt),
         NEW i, StillRx(rx, i)
  PROVE  Orderly(q, i, tx, snt, d, flt)
<1>1. PICK t, r, s, l : /\ r \in Mark /\ s \in Mark /\ l \in Nat /\ l <= Len(snt)
                        /\ Link(q, t, rx, r, tx, s, snt, l, flt) /\ UpTo(d, snt, l)
  BY DEF Orderly
<1>2. Link(q, t, i, r, tx, s, snt, l, flt)
  BY <1>1, LinkRx
<1> QED
  BY <1>1, <1>2 DEF Orderly

\* A flow control frame that answers the other direction.
LEMMA OrderlyFc ==
  ASSUME NEW q \in Seq(Frames), NEW f \in Frames, f.k = "FC", NEW snt, NEW d, NEW rx, NEW tx,
         NEW flt, Orderly(q, rx, tx, snt, d, flt)
  PROVE  Orderly(q \o <<f>>, rx, tx, snt, d, flt)
<1>1. PICK t, r, s, l : /\ r \in Mark /\ s \in Mark /\ l \in Nat /\ l <= Len(snt)
                        /\ Link(q, t, rx, r, tx, s, snt, l, flt) /\ UpTo(d, snt, l)
  BY DEF Orderly
<1>2. PICK u : Link(q \o <<f>>, u, rx, r, tx, s, snt, l, flt)
  BY <1>1, LinkFc
<1> QED
  BY <1>1, <1>2 DEF Orderly

\* Sending: a first frame is not refused.
LEMMA OrderlySend ==
  ASSUME NEW q \in Seq(Frames), NEW snt \in Seq(Msg), NEW d, NEW rx, NEW tx \in IsoCtx, NEW flt,
         Orderly(q, rx, tx, snt, d, flt), NEW m \in Msg, NEW ok \in BOOLEAN, m.len > MAX_SF => ok
  PROVE  LET o == uds_isotp_send(tx, m)
         IN  Orderly(IF ok THEN q \o o.frames ELSE q, rx, o.iso, Append(snt, m), d, flt)
<1> DEFINE o == uds_isotp_send(tx, m)
           z == IF ok THEN q \o o.frames ELSE q
           a == Append(snt, m)
<1>1. PICK t, r, s, l : /\ r \in Mark /\ s \in Mark /\ l \in Nat /\ l <= Len(snt)
                        /\ Link(q, t, rx, r, tx, s, snt, l, flt) /\ UpTo(d, snt, l)
  BY DEF Orderly
<1>2. PICK u, n : n \in Mark /\ Link(z, u, rx, r, o.iso, n, a, l, flt)
  BY <1>1, LinkSend
<1>3. Len(a) = Len(snt) + 1 /\ Len(snt) \in Nat
      /\ \A i \in DOMAIN snt : i \in DOMAIN a /\ a[i] = snt[i]
  OBVIOUS
<1> HIDE DEF o, z, a
<1>4. l <= Len(a)
  BY <1>1, <1>3
<1>5. UpTo(d, a, l)
  BY <1>1, <1>3 DEF UpTo
<1>6. Orderly(z, rx, o.iso, a, d, flt)
  BY <1>1, <1>2, <1>4, <1>5 DEF Orderly
<1> QED
  BY <1>6 DEF o, z, a

\* The next consecutive frame.
LEMMA OrderlyProcess ==
  ASSUME NEW q \in Seq(Frames), NEW snt \in Seq(Msg), NEW d, NEW rx, NEW tx \in IsoCtx,
         NEW flt \in Nat, Orderly(q, rx, tx, snt, d, flt), tx.state = ISOTP_TX_SENDING_CF,
         NEW x, NEW ok \in BOOLEAN
  PROVE  LET o == uds_tp_isotp_process(tx, x, ok)
         IN  Orderly(IF ok THEN q \o o.frames ELSE q, rx, o.iso, snt, d, flt)
<1> DEFINE o == uds_tp_isotp_process(tx, x, ok)
           z == IF ok THEN q \o o.frames ELSE q
<1>1. PICK t, r, s, l : /\ r \in Mark /\ s \in Mark /\ l \in Nat /\ l <= Len(snt)
                        /\ Link(q, t, rx, r, tx, s, snt, l, flt) /\ UpTo(d, snt, l)
  BY DEF Orderly
<1>2. PICK u, n : n \in Mark /\ Link(z, u, rx, r, o.iso, n, snt, l, flt)
  BY <1>1, LinkProcess
<1> HIDE DEF o, z
<1>6. Orderly(z, rx, o.iso, snt, d, flt)
  BY <1>1, <1>2 DEF Orderly
<1> QED
  BY <1>6 DEF o, z

\* A frame is lost or comes twice, here or in the other direction.
LEMMA OrderlyFault ==
  ASSUME NEW q \in Seq(Frames), NEW snt, NEW d, NEW rx, NEW tx, NEW flt \in Nat,
         Orderly(q, rx, tx, snt, d, flt)
  PROVE  /\ Orderly(q, rx, tx, snt, d, flt + 1)
         /\ q # <<>> /\ Head(q).k # "FF" => Orderly(Tail(q), rx, tx, snt, d, flt + 1)
         /\ q # <<>> /\ Head(q).k # "SF" => Orderly(<<Head(q)>> \o q, rx, tx, snt, d, flt + 1)
<1>1. PICK t, r, s, l : /\ r \in Mark /\ s \in Mark /\ l \in Nat /\ l <= Len(snt)
                        /\ Link(q, t, rx, r, tx, s, snt, l, flt) /\ UpTo(d, snt, l)
  BY DEF Orderly
<1>2. Orderly(q, rx, tx, snt, d, flt + 1)
  <2>1. Link(q, t, rx, r, tx, s, snt, l, flt + 1)
    BY <1>1, LinkMonotone
  <2> QED
    BY <1>1, <2>1 DEF Orderly
<1>3. ASSUME q # <<>>, Head(q).k # "FF"
      PROVE  Orderly(Tail(q), rx, tx, snt, d, flt + 1)
  <2>1. q[1].k # "FF"
    BY <1>3
  <2>2. Link(Tail(q), Tail(t), rx, r, tx, s, snt, l, flt + 1)
    BY <1>1, <1>3, <2>1, LinkLose
  <2> QED
    BY <1>1, <2>2 DEF Orderly
<1>4. ASSUME q # <<>>, Head(q).k # "SF"
      PROVE  Orderly(<<Head(q)>> \o q, rx, tx, snt, d, flt + 1)
  <2>1. q[1].k # "SF"
    BY <1>4
  <2>2. PICK u : Link(<<Head(q)>> \o q, u, rx, r, tx, s, snt, l, flt + 1)
    BY <1>1, <1>4, <2>1, LinkDouble
  <2> QED
    BY <1>1, <2>2 DEF Orderly
<1> QED
  BY <1>2, <1>3, <1>4

-----------------------------------------------------------------------------
(* Both directions *)

\* The link has two ends.
TwoEnds == \E a, b \in Node : a # b /\ Node = {a, b}

\* No message is sent twice.
Distinct(s) == \A i, j \in DOMAIN s : s[i] = s[j] => i = j

\* What is on its way to n, what n has received of it and what its peer sends.
LinkInto(n) == Orderly(bus[n], iso[n], iso[Peer(n)], sent[Peer(n)], delivered[n], faults)

\* The inductive invariant of the refinement.
KeptInv ==
  /\ TpInv
  /\ faults \in Nat /\ faults <= MAX_FAULTS
  /\ sent \in [Node -> Seq(Msg)] /\ delivered \in [Node -> Seq(Sdu)]
  /\ \A n \in Node : Distinct(sent[n]) /\ LinkInto(n)

\* What the refinement asks of the constants.  First frames are neither lost nor
\* refused (MCIsoTpStall shows what becomes of the sender then; a consecutive frame
\* of the lost message could continue the one before it).  Fewer faults than there
\* are sequence numbers: when SN_MOD frames in a row are lost the next one has the
\* number that is waited for.
SteadyLink == TwoEnds /\ ~LOSE_FIRST /\ Sized /\ MAX_FAULTS < SN_MOD

\* The peer of the peer is the node itself.
LEMMA Ends ==
  ASSUME TwoEnds, NEW n \in Node
  PROVE  /\ Peer(n) \in Node /\ Peer(n) # n /\ Peer(Peer(n)) = n
         /\ \A p \in Node : p = n \/ p = Peer(n)
<1>1. PICK a, b \in Node : a # b /\ Node = {a, b}
  BY DEF TwoEnds
<1>2. \A x \in Node : Peer(x) \in Node /\ Peer(x) # x
  <2> TAKE x \in Node
  <2>1. \E p \in Node : p # x
    BY <1>1
  <2> QED
    BY <2>1 DEF Peer
<1> QED
  BY <1>1, <1>2

\* Both directions are all there is.
LEMMA BothWays ==
  ASSUME TwoEnds, NEW n \in Node, LinkInto(n)', LinkInto(Peer(n))'
  PROVE  \A p \in Node : LinkInto(p)'
<1> SUFFICES ASSUME NEW p \in Node PROVE LinkInto(p)'
  OBVIOUS
<1>1. p = n \/ p = Peer(n)
  BY Ends
<1>2. CASE p = n
  BY <1>2
<1>3. CASE p = Peer(n)
  BY <1>3
<1> QED
  BY <1>1, <1>2, <1>3

\* What can_send does to the bus.
LEMMA PutAt ==
  ASSUME TwoEnds, NEW b \in [Node -> Seq(Frames)], NEW n \in Node, NEW fs
  PROVE  /\ Put(b, n, fs)[n] = b[n]
         /\ Put(b, n, fs)[Peer(n)] = IF CanSend(n) THEN b[Peer(n)] \o fs ELSE b[Peer(n)]
BY Ends DEF Put

\* A message that was not sent before keeps them distinct.
LEMMA DistinctNext ==
  ASSUME NEW s \in Seq(Msg), Distinct(s), NEW m \in Msg, \A i \in DOMAIN s : s[i] # m
  PROVE  Distinct(Append(s, m))
<1> DEFINE a == Append(s, m)
           k == Len(s) + 1
<1>1. /\ Len(s) \in Nat /\ DOMAIN s = 1 .. Len(s) /\ DOMAIN a = 1 .. k /\ a[k] = m
      /\ \A i \in 1 .. Len(s) : a[i] = s[i]
  OBVIOUS
<1>2. \A i \in 1 .. k : i \in 1 .. Len(s) \/ i = k
  BY <1>1
<1> HIDE DEF a, k
<1>3. Distinct(a)
  BY <1>1, <1>2 DEF Distinct
<1> QED
  BY <1>3 DEF a

\* The parts of the invariant that one step of n may change, given both
\* directions.
LEMMA KeptNext ==
  ASSUME SteadyLink, KeptInv, NEW n \in Node, TpInv', faults' \in Nat, faults' <= MAX_FAULTS,
         NEW s \in Seq(Msg), sent' = [sent EXCEPT ![n] = s], Distinct(s),
         NEW d \in Seq(Sdu), delivered' = [delivered EXCEPT ![n] = d],
         LinkInto(n)', LinkInto(Peer(n))'
  PROVE  KeptInv'
<1>1. \A p \in Node : LinkInto(p)'
  BY BothWays DEF SteadyLink
<1>2. sent \in [Node -> Seq(Msg)] /\ delivered \in [Node -> Seq(Sdu)]
      /\ \A p \in Node : Distinct(sent[p])
  BY DEF KeptInv
<1>3. sent' \in [Node -> Seq(Msg)] /\ delivered' \in [Node -> Seq(Sdu)]
  BY <1>2
<1>4. ASSUME NEW p \in Node PROVE Distinct(sent'[p])
  <2>1. sent'[p] = IF p = n THEN s ELSE sent[p]
    BY <1>2
  <2> QED
    BY <1>2, <2>1
<1> QED
  BY <1>1, <1>3, <1>4 DEF KeptInv, Distinct

\* A message is sent: n may give up what it was receiving.
LEMMA SendMsgKept ==
  ASSUME SteadyLink, KeptInv, NEW n \in Node, NEW m \in Msg, SendMsg(n, m)
  PROVE  KeptInv'
<1> DEFINE b == Peer(n)
           o == uds_isotp_send(iso[n], m)
           ok == CanSend(n)
<1>1. /\ b \in Node /\ b # n /\ Peer(b) = n
  BY Ends DEF SteadyLink
<1>2. /\ iso \in [Node -> IsoCtx] /\ bus \in [Node -> Seq(Frames)] /\ TpInv
      /\ sent \in [Node -> Seq(Msg)] /\ delivered \in [Node -> Seq(Sdu)]
      /\ faults \in Nat /\ faults <= MAX_FAULTS
      /\ LinkInto(n) /\ LinkInto(b) /\ Distinct(sent[n])
  BY <1>1 DEF KeptInv, TpInv
<1>3. /\ m \in Unsent(n) /\ Takes(n, m)
      /\ iso' = [iso EXCEPT ![n] = o.iso] /\ bus' = Put(bus, n, o.frames)
      /\ sent' = [sent EXCEPT ![n] = Append(@, m)] /\ delivered' = delivered /\ faults' = faults
  BY DEF SendMsg
<1>4. ok \in BOOLEAN /\ (m.len > MAX_SF => ok)
  BY <1>3 DEF Takes, CanSend, SteadyLink
<1>5. Orderly(bus[b], iso[b], iso[n], sent[n], delivered[b], faults)
  BY <1>1, <1>2 DEF LinkInto
<1>6. Orderly(IF ok THEN bus[b] \o o.frames ELSE bus[b], iso[b], o.iso, Append(sent[n], m),
              delivered[b], faults)
  BY <1>1, <1>2, <1>4, <1>5, OrderlySend
<1>7. Orderly(bus[n], iso[n], iso[b], sent[b], delivered[n], faults)
  BY <1>2 DEF LinkInto
<1>8. Orderly(bus[n], o.iso, iso[b], sent[b], delivered[n], faults)
  BY <1>2, <1>7, SendRx, OrderlyRx
<1>9. bus'[n] = bus[n] /\ bus'[b] = IF ok THEN bus[b] \o o.frames ELSE bus[b]
  BY <1>2, <1>3, PutAt DEF SteadyLink
<1> HIDE DEF o, ok, b
<1>10. iso'[n] = o.iso /\ iso'[b] = iso[b] /\ sent'[n] = Append(sent[n], m) /\ sent'[b] = sent[b]
  BY <1>1, <1>2, <1>3
<1>11. LinkInto(b)'
  <2>1. Orderly(bus'[b], iso'[b], iso'[n], sent'[n], delivered'[b], faults')
    BY <1>3, <1>6, <1>9, <1>10
  <2> QED
    BY <1>1, <2>1 DEF LinkInto
<1>12. LinkInto(n)'
  <2>1. Orderly(bus'[n], iso'[n], iso'[b], sent'[b], delivered'[n], faults')
    BY <1>3, <1>8, <1>9, <1>10
  <2> QED
    BY <2>1 DEF LinkInto, b
<1>13. TpInv'
  BY <1>2, SendMsgKeeps
<1>14. Append(sent[n], m) \in Seq(Msg) /\ Distinct(Append(sent[n], m))
  BY <1>2, <1>3, DistinctNext DEF Unsent
<1>15. delivered' = [delivered EXCEPT ![n] = delivered[n]] /\ delivered[n] \in Seq(Sdu)
  BY <1>2, <1>3
<1> QED
  BY <1>2, <1>3, <1>11, <1>12, <1>13, <1>14, <1>15, KeptNext DEF b

\* uds_tp_isotp_process sends a consecutive frame.
LEMMA ProcessTpKept ==
  ASSUME SteadyLink, KeptInv, NEW n \in Node, ProcessTp(n)
  PROVE  KeptInv'
<1> DEFINE b == Peer(n)
           ok == CanSend(n)
           o == uds_tp_isotp_process(iso[n], now, ok)
<1>1. /\ b \in Node /\ b # n /\ Peer(b) = n
  BY Ends DEF SteadyLink
<1>2. /\ iso \in [Node -> IsoCtx] /\ bus \in [Node -> Seq(Frames)] /\ TpInv
      /\ sent \in [Node -> Seq(Msg)] /\ delivered \in [Node -> Seq(Sdu)]
      /\ faults \in Nat /\ faults <= MAX_FAULTS
      /\ LinkInto(n) /\ LinkInto(b) /\ Distinct(sent[n])
  BY <1>1 DEF KeptInv, TpInv
<1>3. /\ iso[n].state = ISOTP_TX_SENDING_CF
      /\ iso' = [iso EXCEPT ![n] = o.iso] /\ bus' = Put(bus, n, o.frames)
      /\ sent' = sent /\ delivered' = delivered /\ faults' = faults
  BY DEF ProcessTp
<1>4. ok \in BOOLEAN
  BY DEF CanSend
<1>5. Orderly(bus[b], iso[b], iso[n], sent[n], delivered[b], faults)
  BY <1>1, <1>2 DEF LinkInto
<1>6. Orderly(IF ok THEN bus[b] \o o.frames ELSE bus[b], iso[b], o.iso, sent[n],
              delivered[b], faults)
  <2> HIDE DEF ok, b
  <2> QED
    BY <1>1, <1>2, <1>3, <1>4, <1>5, OrderlyProcess
<1>7. Orderly(bus[n], iso[n], iso[b], sent[b], delivered[n], faults)
  BY <1>2 DEF LinkInto
<1>8. Orderly(bus[n], o.iso, iso[b], sent[b], delivered[n], faults)
  BY <1>2, <1>7, ProcessRx, OrderlyRx
<1>9. bus'[n] = bus[n] /\ bus'[b] = IF ok THEN bus[b] \o o.frames ELSE bus[b]
  BY <1>2, <1>3, PutAt DEF SteadyLink
<1> HIDE DEF o, ok, b
<1>10. iso'[n] = o.iso /\ iso'[b] = iso[b]
  BY <1>1, <1>2, <1>3
<1>11. LinkInto(b)'
  <2>1. Orderly(bus'[b], iso'[b], iso'[n], sent'[n], delivered'[b], faults')
    BY <1>3, <1>6, <1>9, <1>10
  <2> QED
    BY <1>1, <2>1 DEF LinkInto
<1>12. LinkInto(n)'
  <2>1. Orderly(bus'[n], iso'[n], iso'[b], sent'[b], delivered'[n], faults')
    BY <1>3, <1>8, <1>9, <1>10
  <2> QED
    BY <2>1 DEF LinkInto, b
<1>13. TpInv'
  BY <1>2, ProcessTpKeeps
<1>14. sent' = [sent EXCEPT ![n] = sent[n]] /\ sent[n] \in Seq(Msg)
       /\ delivered' = [delivered EXCEPT ![n] = delivered[n]] /\ delivered[n] \in Seq(Sdu)
  BY <1>2, <1>3
<1> QED
  BY <1>2, <1>3, <1>11, <1>12, <1>13, <1>14, KeptNext DEF b

\* What both directions are after the callback, before any answer.
LEMMA AfterTaken ==
  ASSUME SteadyLink, KeptInv, NEW n \in Node, bus[n] # <<>>
  PROVE  LET b == Peer(n)
             o == Taken(n)
         IN  /\ Orderly(Tail(bus[n]), o.iso, iso[b], sent[b], delivered[n] \o o.sdus, faults)
             /\ Orderly(bus[b], iso[b], o.iso, sent[n], delivered[b], faults)
             /\ o.iso \in IsoCtx /\ delivered[n] \o o.sdus \in Seq(Sdu)
             /\ o.frames = <<>> \/ \E f \in Frames : f.k = "FC" /\ o.frames = <<f>>
             /\ \E l, k \in Nat : UpTo(delivered[n], sent[b], l) /\ Advances(sent[b], l, k, o.sdus)
<1> DEFINE b == Peer(n)
           o == Taken(n)
           f == Head(bus[n])
<1>1. /\ b \in Node /\ b # n /\ Peer(b) = n
  BY Ends DEF SteadyLink
<1>2. /\ iso[n] \in IsoCtx /\ Good(iso[n]) /\ bus \in [Node -> Seq(Frames)]
      /\ bus[n] \in Seq(Frames) /\ \A p \in Node : Len(bus[p]) <= QUEUE
      /\ sent[b] \in Seq(Msg) /\ delivered[n] \in Seq(Sdu)
      /\ faults \in Nat /\ faults <= MAX_FAULTS /\ LinkInto(n) /\ LinkInto(b)
  BY <1>1 DEF KeptInv, TpInv, Good
<1>3. f \in Frames
  BY <1>2, TakeFrame
<1>4. o = uds_isotp_rx_callback(iso[n], f)
  BY DEF Taken
<1>5. faults < SN_MOD /\ Sized
  BY <1>2, IsoTpAssumption, LinkAssumption DEF SteadyLink
<1>6. Orderly(bus[n], iso[n], iso[b], sent[b], delivered[n], faults)
  BY <1>2 DEF LinkInto
<1>7. /\ Orderly(Tail(bus[n]), o.iso, iso[b], sent[b], delivered[n] \o o.sdus, faults)
      /\ delivered[n] \o o.sdus \in Seq(Sdu)
      /\ \E l, k \in Nat : UpTo(delivered[n], sent[b], l) /\ Advances(sent[b], l, k, o.sdus)
  <2> HIDE DEF b
  <2> QED
    BY <1>2, <1>5, <1>6, OrderlyTake DEF Taken
<1>8. Orderly(bus[b], iso[b], iso[n], sent[n], delivered[b], faults)
  BY <1>1, <1>2 DEF LinkInto
<1>9. StillTx(iso[n], o.iso)
      /\ (o.frames = <<>> \/ o.frames = <<Fc(iso[n].block_size, iso[n].st_min)>>)
  BY <1>2, <1>3, <1>4, CallbackTx
<1>10. Good(o.iso)
  BY <1>2, <1>3, <1>4, ReceiveGood
<1> DEFINE c == Fc(iso[n].block_size, iso[n].st_min)
<1>11. c.k = "FC" /\ c \in Frames
  <2>1. iso[n].block_size \in BsByte /\ iso[n].st_min \in BsByte
    BY <1>2 DEF IsoCtx
  <2> QED
    BY <2>1, FcType, Kinds
<1> HIDE DEF o, b, c, f
<1>12. Orderly(bus[b], iso[b], o.iso, sent[n], delivered[b], faults)
  BY <1>8, <1>9, OrderlyTx
<1>13. o.iso \in IsoCtx
  BY <1>10 DEF Good
<1>14. o.frames = <<>> \/ \E g \in Frames : g.k = "FC" /\ o.frames = <<g>>
  BY <1>9, <1>11 DEF c
<1> QED
  BY <1>7, <1>12, <1>13, <1>14 DEF o, b

\* A frame arrives and the callback leaves the two directions as they should be.
LEMMA ArriveKept ==
  ASSUME SteadyLink, KeptInv, NEW n \in Node, NEW after, NEW answer \in Seq(Msg),
         Arrive(n, after, answer), TpInv', Distinct(sent[n] \o answer),
         delivered[n] \o Taken(n).sdus \in Seq(Sdu),
         Orderly(Tail(bus[n]), after.iso, iso[Peer(n)], sent[Peer(n)],
                 delivered[n] \o Taken(n).sdus, faults),
         Orderly(IF CanSend(n) THEN bus[Peer(n)] \o after.frames ELSE bus[Peer(n)],
                 iso[Peer(n)], after.iso, sent[n] \o answer, delivered[Peer(n)], faults)
  PROVE  KeptInv'
<1> DEFINE b == Peer(n)
           e == Taken(n).sdus
           q == [bus EXCEPT ![n] = Tail(@)]
           ok == CanSend(n)
<1>1. /\ b \in Node /\ b # n /\ Peer(b) = n
  BY Ends DEF SteadyLink
<1>2. /\ iso \in [Node -> IsoCtx] /\ bus \in [Node -> Seq(Frames)] /\ TpInv
      /\ \A p \in Node : Len(bus[p]) <= QUEUE
      /\ sent \in [Node -> Seq(Msg)] /\ delivered \in [Node -> Seq(Sdu)]
      /\ faults \in Nat /\ faults <= MAX_FAULTS
  BY <1>1 DEF KeptInv, TpInv
<1>3. /\ bus[n] # <<>> /\ iso' = [iso EXCEPT ![n] = after.iso] /\ bus' = Put(q, n, after.frames)
      /\ sent' = [sent EXCEPT ![n] = @ \o answer] /\ delivered' = [delivered EXCEPT ![n] = @ \o e]
      /\ faults' = faults
  BY DEF Arrive
<1>4. q \in [Node -> Seq(Frames)]
  BY <1>2, <1>3, TakeFrame
<1>5. q[n] = Tail(bus[n]) /\ q[b] = bus[b]
  BY <1>1, <1>2
<1> HIDE DEF q
<1>6. bus'[n] = q[n] /\ bus'[b] = IF ok THEN q[b] \o after.frames ELSE q[b]
  BY <1>3, <1>4, PutAt DEF SteadyLink
<1>7. /\ Orderly(Tail(bus[n]), after.iso, iso[b], sent[b], delivered[n] \o e, faults)
      /\ Orderly(IF ok THEN bus[b] \o after.frames ELSE bus[b], iso[b], after.iso,
                 sent[n] \o answer, delivered[b], faults)
      /\ delivered[n] \o e \in Seq(Sdu)
  OBVIOUS
<1> HIDE DEF b, e, ok
<1>8. /\ iso'[n] = after.iso /\ iso'[b] = iso[b]
      /\ sent'[n] = sent[n] \o answer /\ sent'[b] = sent[b]
      /\ delivered'[n] = delivered[n] \o e /\ delivered'[b] = delivered[b]
  BY <1>1, <1>2, <1>3
<1>9. LinkInto(b)'
  <2>1. Orderly(bus'[b], iso'[b], iso'[n], sent'[n], delivered'[b], faults')
    BY <1>3, <1>5, <1>6, <1>7, <1>8
  <2> QED
    BY <1>1, <2>1 DEF LinkInto
<1>10. LinkInto(n)'
  <2>1. Orderly(bus'[n], iso'[n], iso'[b], sent'[b], delivered'[n], faults')
    BY <1>3, <1>5, <1>6, <1>7, <1>8
  <2> QED
    BY <2>1 DEF LinkInto, b
<1>11. sent[n] \o answer \in Seq(Msg)
  <2>1. sent[n] \in Seq(Msg)
    BY <1>2
  <2> QED
    BY <2>1
<1> QED
  BY <1>2, <1>3, <1>7, <1>9, <1>10, <1>11, KeptNext DEF b

\* A frame arrives; it may be answered by a flow control frame.
LEMMA ReceiveKept ==
  ASSUME SteadyLink, KeptInv, NEW n \in Node, Receive(n)
  PROVE  KeptInv'
<1> DEFINE b == Peer(n)
           o == Taken(n)
           z == IF CanSend(n) THEN bus[b] \o o.frames ELSE bus[b]
<1>1. b \in Node
  BY Ends DEF SteadyLink
<1>2. bus[n] # <<>> /\ Arrive(n, o, <<>>)
  BY DEF Receive
<1>3. TpInv'
  BY ReceiveKeeps DEF KeptInv
<1>4. bus[b] \in Seq(Frames) /\ sent[n] \in Seq(Msg) /\ Distinct(sent[n])
  BY <1>1 DEF KeptInv, TpInv
<1>5. /\ Orderly(Tail(bus[n]), o.iso, iso[b], sent[b], delivered[n] \o o.sdus, faults)
      /\ Orderly(bus[b], iso[b], o.iso, sent[n], delivered[b], faults)
      /\ delivered[n] \o o.sdus \in Seq(Sdu)
      /\ o.frames = <<>> \/ \E f \in Frames : f.k = "FC" /\ o.frames = <<f>>
  BY <1>2, AfterTaken
<1> HIDE DEF o, b
<1>6. Orderly(z, iso[b], o.iso, sent[n], delivered[b], faults)
  <2>1. CASE o.frames = <<>>
    <3>1. z = bus[b]
      BY <1>4, <2>1
    <3> QED
      BY <1>5, <3>1
  <2>2. ASSUME NEW f \in Frames, f.k = "FC", o.frames = <<f>>
        PROVE  Orderly(z, iso[b], o.iso, sent[n], delivered[b], faults)
    <3>1. Orderly(bus[b] \o <<f>>, iso[b], o.iso, sent[n], delivered[b], faults)
      BY <1>4, <1>5, <2>2, OrderlyFc
    <3> QED
      BY <1>5, <2>2, <3>1
  <2> QED
    BY <1>5, <2>1, <2>2
<1>7. sent[n] \o <<>> = sent[n] /\ <<>> \in Seq(Msg)
  BY <1>4
<1>8. Distinct(sent[n] \o <<>>)
      /\ Orderly(z, iso[b], o.iso, sent[n] \o <<>>, delivered[b], faults)
  BY <1>4, <1>6, <1>7
<1> QED
  BY <1>2, <1>3, <1>5, <1>7, <1>8, ArriveKept DEF o, b

\* A frame arrives, and the SDU it completes is answered at once.
LEMMA AnswerKept ==
  ASSUME SteadyLink, KeptInv, NEW n \in Node, NEW m \in Msg, ReceiveAndAnswer(n, m)
  PROVE  KeptInv'
<1> DEFINE b == Peer(n)
           o == Taken(n)
           a == uds_isotp_send(o.iso, m)
           ok == CanSend(n)
           z == IF ok THEN bus[b] \o a.frames ELSE bus[b]
<1>1. b \in Node
  BY Ends DEF SteadyLink
<1>2. bus[n] # <<>> /\ m \in Unsent(n) /\ Takes(n, m) /\ Arrive(n, a, <<m>>)
  BY DEF ReceiveAndAnswer
<1>3. TpInv'
  BY ReceiveKeeps DEF KeptInv
<1>4. bus[b] \in Seq(Frames) /\ sent[n] \in Seq(Msg) /\ Distinct(sent[n])
  BY <1>1 DEF KeptInv, TpInv
<1>5. /\ Orderly(Tail(bus[n]), o.iso, iso[b], sent[b], delivered[n] \o o.sdus, faults)
      /\ Orderly(bus[b], iso[b], o.iso, sent[n], delivered[b], faults)
      /\ o.iso \in IsoCtx /\ delivered[n] \o o.sdus \in Seq(Sdu)
  BY <1>2, AfterTaken
<1>6. ok \in BOOLEAN /\ (m.len > MAX_SF => ok)
  BY <1>2 DEF Takes, CanSend, SteadyLink
<1> HIDE DEF o, b, ok
<1>7. Orderly(z, iso[b], a.iso, Append(sent[n], m), delivered[b], faults)
  BY <1>4, <1>5, <1>6, OrderlySend
<1>8. Orderly(Tail(bus[n]), a.iso, iso[b], sent[b], delivered[n] \o o.sdus, faults)
  BY <1>5, SendRx, OrderlyRx
<1>9. Distinct(Append(sent[n], m))
  BY <1>2, <1>4, DistinctNext DEF Unsent
<1>10. sent[n] \o <<m>> = Append(sent[n], m) /\ <<m>> \in Seq(Msg)
  BY <1>4, AppendIsConcat
<1>11. Distinct(sent[n] \o <<m>>)
       /\ Orderly(z, iso[b], a.iso, sent[n] \o <<m>>, delivered[b], faults)
  BY <1>7, <1>9, <1>10
<1> HIDE DEF a
<1> QED
  BY <1>2, <1>3, <1>5, <1>8, <1>10, <1>11, ArriveKept DEF o, b, ok

\* A frame is lost or comes twice.
LEMMA FaultKept ==
  ASSUME SteadyLink, KeptInv, NEW n \in Node, Lose(n) \/ Double(n)
  PROVE  KeptInv'
<1> DEFINE b == Peer(n)
<1>1. /\ b \in Node /\ b # n /\ Peer(b) = n
  BY Ends DEF SteadyLink
<1>2. /\ bus \in [Node -> Seq(Frames)] /\ TpInv /\ sent[n] \in Seq(Msg) /\ Distinct(sent[n])
      /\ sent \in [Node -> Seq(Msg)] /\ delivered \in [Node -> Seq(Sdu)]
      /\ delivered[n] \in Seq(Sdu) /\ faults \in Nat /\ faults <= MAX_FAULTS
      /\ LinkInto(n) /\ LinkInto(b)
  BY <1>1 DEF KeptInv, TpInv
<1>3. /\ faults < MAX_FAULTS /\ faults' = faults + 1 /\ bus[n] # <<>>
      /\ UNCHANGED <<iso, sent, delivered>>
      /\ \/ Head(bus[n]).k # "FF" /\ bus' = [bus EXCEPT ![n] = Tail(@)]
         \/ Head(bus[n]).k # "SF" /\ bus' = [bus EXCEPT ![n] = <<Head(@)>> \o @]
  BY DEF Lose, Double, SteadyLink
<1>4. TpInv'
  BY <1>2, FaultKeeps
<1>5. faults' \in Nat /\ faults' <= MAX_FAULTS
  BY <1>2, <1>3, LinkAssumption
<1>6. /\ Orderly(bus[n], iso[n], iso[b], sent[b], delivered[n], faults)
      /\ Orderly(bus[b], iso[b], iso[n], sent[n], delivered[b], faults)
  BY <1>1, <1>2 DEF LinkInto
<1> HIDE DEF b
<1>7. bus'[b] = bus[b] /\ bus[b] \in Seq(Frames) /\ bus[n] \in Seq(Frames)
  BY <1>1, <1>2, <1>3
<1>8. \/ Head(bus[n]).k # "FF" /\ bus'[n] = Tail(bus[n])
      \/ Head(bus[n]).k # "SF" /\ bus'[n] = <<Head(bus[n])>> \o bus[n]
  BY <1>2, <1>3
<1>9. LinkInto(b)'
  <2>1. Orderly(bus[b], iso[b], iso[n], sent[n], delivered[b], faults + 1)
    BY <1>2, <1>6, <1>7, OrderlyFault
  <2>2. Orderly(bus'[b], iso'[b], iso'[n], sent'[n], delivered'[b], faults')
    BY <1>3, <1>7, <2>1
  <2> QED
    BY <1>1, <2>2 DEF LinkInto
<1>10. LinkInto(n)'
  <2>1. /\ Head(bus[n]).k # "FF" =>
             Orderly(Tail(bus[n]), iso[n], iso[b], sent[b], delivered[n], faults + 1)
        /\ Head(bus[n]).k # "SF" =>
             Orderly(<<Head(bus[n])>> \o bus[n], iso[n], iso[b], sent[b], delivered[n], faults + 1)
    BY <1>2, <1>3, <1>6, <1>7, OrderlyFault
  <2>2. Orderly(bus'[n], iso'[n], iso'[b], sent'[b], delivered'[n], faults')
    BY <1>3, <1>8, <2>1
  <2> QED
    BY <2>2 DEF LinkInto, b
<1>11. sent' = [sent EXCEPT ![n] = sent[n]] /\ delivered' = [delivered EXCEPT ![n] = delivered[n]]
  BY <1>2, <1>3
<1> QED
  BY <1>2, <1>4, <1>5, <1>9, <1>10, <1>11, KeptNext DEF b

\* The nodes start with an empty bus, and idle.
LEMMA KeptInit == SteadyLink /\ TpInit => KeptInv
<1> SUFFICES ASSUME SteadyLink, TpInit PROVE KeptInv
  OBVIOUS
<1>1. TpInv
  BY TpInitInv
<1>2. /\ faults = 0 /\ sent = [n \in Node |-> <<>>] /\ delivered = [n \in Node |-> <<>>]
      /\ bus = [n \in Node |-> <<>>]
      /\ \A n \in Node : iso[n] \in Booted(n)
  BY DEF TpInit
<1>3. \A n \in Node : iso[n].state = ISOTP_IDLE
  BY <1>2 DEF Booted, uds_tp_isotp_init
<1>4. faults \in Nat /\ faults <= MAX_FAULTS
  BY <1>2, LinkAssumption
<1>5. sent \in [Node -> Seq(Msg)] /\ delivered \in [Node -> Seq(Sdu)]
  BY <1>2
<1>6. ASSUME NEW n \in Node PROVE Distinct(sent[n]) /\ LinkInto(n)
  <2> DEFINE b == Peer(n)
             g == [j |-> 0, c |-> 0]
  <2>1. b \in Node
    BY Ends DEF SteadyLink
  <2>2. sent[n] = <<>> /\ sent[b] = <<>> /\ delivered[n] = <<>> /\ bus[n] = <<>>
    BY <1>2, <2>1
  <2>3. iso[n].state = ISOTP_IDLE /\ iso[b].state = ISOTP_IDLE
    BY <1>3, <2>1
  <2>4. g \in Mark
    BY DEF Mark
  <2> HIDE DEF g, b
  <2>5. iso[n].state # ISOTP_RX_WAIT_CF /\ ~Active(iso[b])
    BY <2>3 DEF Active, ISOTP_IDLE, ISOTP_RX_WAIT_CF, ISOTP_TX_WAIT_FC, ISOTP_TX_SENDING_CF
  <2>6. Marked(<<>>, <<>>, <<>>, 0)
    <3>1. DOMAIN <<>> = {} /\ <<>> \in Seq(Mark)
      OBVIOUS
    <3> QED
      BY <3>1 DEF Marked
  <2>7. Link(<<>>, <<>>, iso[n], g, iso[b], g, <<>>, 0, faults)
    BY <2>5, <2>6 DEF Link, Sends, Waits
  <2>8. UpTo(<<>>, <<>>, 0)
    BY DEF UpTo
  <2>9. Orderly(<<>>, iso[n], iso[b], <<>>, <<>>, faults)
    <3>1. 0 \in Nat /\ 0 <= Len(<<>>)
      OBVIOUS
    <3> QED
      BY <2>4, <2>7, <2>8, <3>1 DEF Orderly
  <2>10. LinkInto(n)
    BY <2>2, <2>9 DEF LinkInto, b
  <2> QED
    BY <2>2, <2>10 DEF Distinct
<1> QED
  BY <1>1, <1>4, <1>5, <1>6 DEF KeptInv

\* Every step keeps both directions in order.
LEMMA KeptStep == SteadyLink /\ KeptInv /\ [TpNext]_tpvars => KeptInv'
<1> SUFFICES ASSUME SteadyLink, KeptInv, [TpNext]_tpvars PROVE KeptInv'
  OBVIOUS
<1>1. ASSUME UNCHANGED <<iso, bus, sent, delivered, faults>>, TpInv'
      PROVE  KeptInv'
  BY <1>1 DEF KeptInv, LinkInto, Distinct
<1>2. CASE UNCHANGED tpvars \/ TpTick
  <2>1. TpInv'
    BY <1>2, TpNextKeeps DEF KeptInv, TpNext
  <2> QED
    BY <1>1, <1>2, <2>1 DEF tpvars, TpTick
<1>3. CASE TpNext
  BY <1>2, <1>3, SendMsgKept, ProcessTpKept, ReceiveKept, AnswerKept, FaultKept DEF TpNext
<1> QED
  BY <1>2, <1>3

-----------------------------------------------------------------------------
(* The service *)

\* The last message delivered is where the service says it is.
LEMMA BehindIs ==
  ASSUME NEW n \in Node, sent[Peer(n)] \in Seq(Msg), Distinct(sent[Peer(n)]), NEW l,
         UpTo(delivered[n], sent[Peer(n)], l)
  PROVE  Service!Behind(n) = l
<1> DEFINE d == delivered[n]
           s == sent[Peer(n)]
<1>1. Service!Behind(n) =
        IF d = <<>> THEN 0
        ELSE CHOOSE k \in DOMAIN s : \E j \in DOMAIN s : j = k /\ d[Len(d)] = Content(s[j])
  BY DEF Service!Behind, Service!OtherEnd, Peer
<1>2. s \in Seq(Msg) /\ Distinct(s) /\ UpTo(d, s, l)
  OBVIOUS
<1> HIDE DEF d, s
<1>3. CASE d = <<>>
  BY <1>1, <1>2, <1>3 DEF UpTo
<1>4. CASE d # <<>>
  <2>1. l \in DOMAIN s /\ d[Len(d)] = Content(s[l]) /\ s[l].len # 0 /\ s[l] \in Msg
    BY <1>2, <1>4 DEF UpTo
  <2>2. ASSUME NEW k \in DOMAIN s, d[Len(d)] = Content(s[k])
        PROVE  k = l
    <3>1. s[k] \in Msg /\ Content(s[l]) = Content(s[k])
      BY <1>2, <2>1, <2>2
    <3>2. s[l] = s[k]
      BY <2>1, <3>1, ContentDiffers
    <3> QED
      BY <1>2, <2>1, <3>2 DEF Distinct
  <2>3. \E k \in DOMAIN s : \E j \in DOMAIN s : j = k /\ d[Len(d)] = Content(s[j])
    BY <2>1
  <2> DEFINE c == CHOOSE k \in DOMAIN s : \E j \in DOMAIN s : j = k /\ d[Len(d)] = Content(s[j])
  <2>4. c \in DOMAIN s /\ \E j \in DOMAIN s : j = c /\ d[Len(d)] = Content(s[j])
    BY <2>3
  <2>5. Service!Behind(n) = c
    BY <1>1, <1>4
  <2> HIDE DEF c
  <2> QED
    BY <2>2, <2>4, <2>5
<1> QED
  BY <1>3, <1>4

\* A frame that arrives gives the stack nothing, or a message that is ahead.
LEMMA GivesAhead ==
  ASSUME SteadyLink, KeptInv, NEW n \in Node, bus[n] # <<>>,
         delivered' = [delivered EXCEPT ![n] = @ \o Taken(n).sdus]
  PROVE  \/ delivered' = delivered
         \/ \E m \in Service!Ahead(n) :
              delivered' = [delivered EXCEPT ![n] = Append(@, Content(m))]
<1> DEFINE b == Peer(n)
           e == Taken(n).sdus
           s == sent[b]
           d == delivered[n]
<1>1. b \in Node
  BY Ends DEF SteadyLink
<1>2. s \in Seq(Msg) /\ Distinct(s) /\ d \in Seq(Sdu) /\ delivered \in [Node -> Seq(Sdu)]
  BY <1>1 DEF KeptInv
<1>3. PICK l, k \in Nat : UpTo(d, s, l) /\ Advances(s, l, k, e)
  BY AfterTaken
<1>4. Service!Behind(n) = l
  BY <1>2, <1>3, BehindIs
<1>5. Service!Ahead(n) = {s[j] : j \in l + 1 .. Len(s)}
  BY <1>4 DEF Service!Ahead, Service!OtherEnd, Peer
<1> HIDE DEF b, e, s
<1>6. CASE e = <<>>
  <2>1. d \o e = d
    BY <1>2, <1>6
  <2>2. delivered' = delivered
    BY <1>2, <2>1 DEF e
  <2> QED
    BY <2>2
<1>7. CASE k \in DOMAIN s /\ l < k /\ e = <<Content(s[k])>>
  <2>1. k \in l + 1 .. Len(s) /\ s[k] \in Msg
    BY <1>2, <1>7
  <2>2. s[k] \in Service!Ahead(n)
    BY <1>5, <2>1
  <2>3. Content(s[k]) \in Sdu
    BY <2>1, ContentSdu
  <2>4. d \o e = Append(d, Content(s[k]))
    BY <1>2, <1>7, <2>3, AppendIsConcat
  <2>5. delivered' = [delivered EXCEPT ![n] = Append(@, Content(s[k]))]
    BY <1>2, <2>4 DEF e
  <2> QED
    BY <2>2, <2>5
<1> QED
  BY <1>3, <1>6, <1>7 DEF Advances

\* Every step is a step of the service, or none.
LEMMA ServiceSteps ==
  ASSUME SteadyLink, KeptInv, [TpNext]_tpvars
  PROVE  [\E n \in Node : Service!ServiceStep(n)]_<<sent, delivered>>
<1>1. ASSUME UNCHANGED <<sent, delivered>>
      PROVE  [\E n \in Node : Service!ServiceStep(n)]_<<sent, delivered>>
  BY <1>1
<1>2. ASSUME NEW n \in Node, NEW m \in Msg, SendMsg(n, m)
      PROVE  Service!ServiceStep(n)
  BY <1>2 DEF SendMsg, Service!ServiceStep
<1>3. ASSUME NEW n \in Node, Receive(n)
      PROVE  Service!ServiceStep(n)
  <2>1. /\ bus[n] # <<>> /\ delivered' = [delivered EXCEPT ![n] = @ \o Taken(n).sdus]
        /\ sent' = [sent EXCEPT ![n] = @ \o <<>>]
    BY <1>3 DEF Receive, Arrive
  <2>2. sent \in [Node -> Seq(Msg)]
    BY DEF KeptInv
  <2>3. sent[n] \o <<>> = sent[n]
    BY <2>2
  <2>4. sent' = sent
    BY <2>1, <2>2, <2>3
  <2> QED
    BY <2>1, <2>4, GivesAhead DEF Service!ServiceStep
<1>4. ASSUME NEW n \in Node, NEW m \in Msg, ReceiveAndAnswer(n, m)
      PROVE  Service!ServiceStep(n)
  <2>1. /\ bus[n] # <<>> /\ delivered' = [delivered EXCEPT ![n] = @ \o Taken(n).sdus]
        /\ sent' = [sent EXCEPT ![n] = @ \o <<m>>]
    BY <1>4 DEF ReceiveAndAnswer, Arrive
  <2>2. sent \in [Node -> Seq(Msg)] /\ sent[n] \in Seq(Msg)
    BY DEF KeptInv
  <2>3. sent[n] \o <<m>> = Append(sent[n], m)
    BY <2>2, AppendIsConcat
  <2>4. sent' = [sent EXCEPT ![n] = Append(@, m)]
    BY <2>1, <2>2, <2>3
  <2> QED
    BY <2>1, <2>4, GivesAhead DEF Service!ServiceStep
<1>5. ASSUME NEW n \in Node, ProcessTp(n) \/ Lose(n) \/ Double(n)
      PROVE  UNCHANGED <<sent, delivered>>
  BY <1>5 DEF ProcessTp, Lose, Double
<1>6. ASSUME TpTick \/ UNCHANGED tpvars
      PROVE  UNCHANGED <<sent, delivered>>
  BY <1>6 DEF TpTick, tpvars
<1> QED
  BY <1>1, <1>2, <1>3, <1>4, <1>5, <1>6 DEF TpNext

\* Between two ends whose bus refuses and loses no first frame, with fewer
\* faults than sequence numbers and messages that fit a 16-bit length, what
\* uds_input_sdu is given is the whole of a message the peer sent, in order and
\* once.
THEOREM TransportKeepsService == SteadyLink => (TpSpec => ServiceKept)
<1>1. TpInit => Service!ServiceInit
  BY DEF TpInit, Service!ServiceInit
<1>2. SteadyLink /\ KeptInv /\ [TpNext]_tpvars =>
        [\E n \in Node : Service!ServiceStep(n)]_<<sent, delivered>>
  BY ServiceSteps
<1>3. ASSUME SteadyLink PROVE TpSpec => ServiceKept
  <2>1. TpInit => KeptInv
    BY <1>3, KeptInit
  <2>2. KeptInv /\ [TpNext]_tpvars => KeptInv'
    BY <1>3, KeptStep
  <2>3. KeptInv /\ [TpNext]_tpvars =>
          [\E n \in Node : Service!ServiceStep(n)]_<<sent, delivered>>
    BY <1>2, <1>3
  <2> QED
    BY <1>1, <2>1, <2>2, <2>3, PTL DEF TpSpec, ServiceKept, Service!ServiceSpec
<1> QED
  BY <1>3
=============================================================================
