----------------------------- MODULE TpService -----------------------------
(***************************************************************************)
(* What a transport promises the UDS stack on top of it: between two ends, *)
(* messages may get lost, but what arrives is a message of the other end,  *)
(* whole, in the order of sending and once.                                *)
(***************************************************************************)
EXTENDS Naturals, Sequences

CONSTANTS
  Node,        \* the two ends
  Msg,         \* messages
  Content(_)   \* what the stack is given when a message arrives

VARIABLES
  sent,       \* sent[n]: messages n has sent
  delivered   \* delivered[n]: what n's stack has been given

OtherEnd(n) == CHOOSE p \in Node : p # n

\* How many of the other end's messages are behind n: up to the last arrived.
Behind(n) ==
  LET d == delivered[n]
      s == sent[OtherEnd(n)]
      At(k) == \E j \in DOMAIN s : j = k /\ d[Len(d)] = Content(s[j])
  IN  IF d = <<>> THEN 0 ELSE CHOOSE k \in DOMAIN s : At(k)

Ahead(n) == {sent[OtherEnd(n)][j] : j \in Behind(n) + 1 .. Len(sent[OtherEnd(n)])}

\* n sends a message, or one arrives at n, or both (an answer).
ServiceStep(n) ==
  /\ \/ delivered' = delivered
     \/ \E m \in Ahead(n) :
          delivered' = [delivered EXCEPT ![n] = Append(@, Content(m))]
  /\ \/ sent' = sent
     \/ \E m \in Msg : sent' = [sent EXCEPT ![n] = Append(@, m)]

ServiceInit == sent = [n \in Node |-> <<>>] /\ delivered = [n \in Node |-> <<>>]

ServiceSpec ==
  ServiceInit /\ [][\E n \in Node : ServiceStep(n)]_<<sent, delivered>>
=============================================================================
