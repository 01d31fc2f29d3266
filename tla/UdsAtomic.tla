----------------------------- MODULE UdsAtomic -----------------------------
(***************************************************************************)
(* What docs/OSAL.md promises of a stack whose mutex hooks are set: calls  *)
(* of several threads take effect one after the other, each of them whole. *)
(* A call maps the context to the next one and hands its messages to the   *)
(* transport; nothing else is visible of it.                               *)
(***************************************************************************)
EXTENDS Integers, Sequences

CONSTANTS
  Calls,            \* the calls that the threads may make
  Effect(_, _, _),  \* the context and the message of a call, made in a context
                    \* at a time
  Fresh,            \* the context after uds_init
  CLOCK             \* get_time_ms() wraps here

VARIABLES
  ctx,     \* uds_ctx_t between two calls
  now,     \* get_time_ms()
  wire     \* what the last call handed to fn_tp_send, until time passes

AtomicInit == ctx = Fresh /\ now = 0 /\ wire = <<>>

Perform(call) ==
  LET o == Effect(call, ctx, now)
  IN  ctx' = o.ctx /\ wire' = o.msg /\ UNCHANGED now

AtomicTick == now' = (now + 1) % CLOCK /\ wire' = <<>> /\ UNCHANGED ctx

AtomicNext == AtomicTick \/ \E call \in Calls : Perform(call)

AtomicSpec == AtomicInit /\ [][AtomicNext]_<<ctx, now, wire>>
=============================================================================
