-------------------------- MODULE OrderStateMachine --------------------------
(***************************************************************************)
(* The order state machine of backend/src/orders/order-state-machine.ts:   *)
(* a constant-level table of the legal moves of an order's status, and the *)
(* two questions the services ask of it.  The statuses are those of the    *)
(* OrderStatus enum of the Prisma schema.                                  *)
(***************************************************************************)

OrderStatus ==
  {"CREATED", "CHECKOUT_STARTED", "PAYMENT_PENDING", "PAYMENT_RECEIVED",
   "WAITING_WALLET", "SETTLEMENT_PENDING", "SETTLED", "SETTLEMENT_FAILED",
   "PAYMENT_FAILED", "WITHDRAW_PENDING", "WITHDRAW_COMPLETED",
   "WITHDRAW_FAILED", "CANCELLED"}

(* Where each status may move.  A status that is absent from the left of   *)
(* every pair is terminal.                                                 *)
Transitions ==
  {<<"CREATED", "CHECKOUT_STARTED">>,
   <<"CHECKOUT_STARTED", "PAYMENT_PENDING">>,
   <<"PAYMENT_PENDING", "PAYMENT_RECEIVED">>,
   <<"PAYMENT_PENDING", "WAITING_WALLET">>,
   <<"PAYMENT_PENDING", "PAYMENT_FAILED">>,
   <<"PAYMENT_RECEIVED", "SETTLEMENT_PENDING">>,
   <<"PAYMENT_RECEIVED", "WAITING_WALLET">>,
   <<"WAITING_WALLET", "SETTLEMENT_PENDING">>,
   <<"SETTLEMENT_PENDING", "SETTLED">>,
   <<"SETTLEMENT_PENDING", "SETTLEMENT_FAILED">>,
   <<"SETTLEMENT_PENDING", "PAYMENT_RECEIVED">>,
   <<"SETTLED", "WITHDRAW_PENDING">>,
   <<"WITHDRAW_PENDING", "WITHDRAW_COMPLETED">>,
   <<"WITHDRAW_PENDING", "WITHDRAW_FAILED">>}
  \cup
  {<<s, "CANCELLED">> :
     s \in {"CREATED", "CHECKOUT_STARTED", "PAYMENT_PENDING",
            "PAYMENT_RECEIVED", "WAITING_WALLET", "SETTLEMENT_PENDING",
            "WITHDRAW_PENDING"}}

CanTransition(from, to) == <<from, to>> \in Transitions

IsTerminal(status) == \A to \in OrderStatus : ~CanTransition(status, to)
=============================================================================
