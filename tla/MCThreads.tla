----------------------------- MODULE MCThreads -----------------------------
(***************************************************************************)
(* Small instances of UdsThreads: one asynchronous service, a request that *)
(* is busy or answered at once, a silent tester present, and the response  *)
(* to a client request, whose callback may send the next one.              *)
(***************************************************************************)
EXTENDS UdsThreads, TLC

Rq(sid, b1, len) ==
  [sid |-> sid, b1 |-> b1, b2 |-> 0, len |-> len, size |-> 0, ids |-> <<>>]
Ans(res, chain) == [safe |-> TRUE, again |-> TRUE, res |-> res, chain |-> chain]

AsyncService ==
  {[sid |-> 186, min_len |-> 2, sess |-> Sessions, sec |-> 0, subs |-> {1},
    user |-> TRUE]}

ThreadDeliveries ==
  { <<Rq(186, 1, 2), Ans(UDS_PENDING, 0)>>,
    <<Rq(TESTER_PRESENT, 128, 2), Ans(0, 0)>>,
    <<Rq(READ_DATA_BY_ID + 64, 0, 3), Ans(0, 0)>>,
    <<Rq(READ_DATA_BY_ID + 64, 0, 3), Ans(0, READ_DATA_BY_ID)>> }

NoDids == << >>
Intervals == <<1, 1, 2>>
=============================================================================
