----------------------------- MODULE Statechart -----------------------------
(***************************************************************************)
(* The flat state machines of statechart.rs and its five bundled fixtures. *)
(* A machine is its initial state and its <<state, action, next>> edges;   *)
(* a state without an edge is terminal.                                    *)
(***************************************************************************)
CONSTANTS NoMachine, NoState   \* Option::None

Initial ==
  [charge |-> "created", customer |-> "active", invoice |-> "draft",
   order |-> "pending", subscription |-> "trialing"]

ChargeEdges ==
  { <<"created", "capture", "captured">>, <<"created", "void", "voided">>,
    <<"captured", "refund", "refunded">> }

CustomerEdges ==
  { <<"active", "suspend", "suspended">>, <<"active", "delete", "deleted">>,
    <<"suspended", "reactivate", "active">>,
    <<"suspended", "delete", "deleted">> }

InvoiceEdges ==
  { <<"draft", "finalize", "open">>, <<"draft", "void", "voided">>,
    <<"open", "pay", "paid">>, <<"open", "void", "voided">>,
    <<"open", "uncollectible", "uncollectible">>,
    <<"paid", "refund", "refunded">>,
    <<"uncollectible", "pay", "paid">>, <<"uncollectible", "void", "voided">> }

OrderEdges ==
  { <<"pending", "pay", "paid">>, <<"pending", "cancel", "cancelled">>,
    <<"paid", "ship", "shipped">>, <<"paid", "refund", "refunded">>,
    <<"shipped", "deliver", "delivered">>, <<"shipped", "return", "returned">>,
    <<"delivered", "return", "returned">>, <<"returned", "refund", "refunded">> }

SubscriptionEdges ==
  { <<"trialing", "activate", "active">>, <<"trialing", "cancel", "cancelled">>,
    <<"active", "pause", "paused">>, <<"active", "cancel", "cancelled">>,
    <<"paused", "resume", "active">>, <<"paused", "cancel", "cancelled">> }

Edges ==
  [charge |-> ChargeEdges, customer |-> CustomerEdges, invoice |-> InvoiceEdges,
   order |-> OrderEdges, subscription |-> SubscriptionEdges]

(* StatechartRegistry: the machines it holds, by id. *)
Machines == DOMAIN Initial

StatesOf(m) == {Initial[m]} \cup UNION { {e[1], e[3]} : e \in Edges[m] }
States == UNION { StatesOf(m) : m \in Machines }
Actions == UNION { { e[2] : e \in Edges[m] } : m \in Machines }

(* StateMachine::apply through the registry: the next state, or none. *)
Apply(m, s, a) ==
  IF m # NoMachine /\ \E n \in StatesOf(m) : <<s, a, n>> \in Edges[m]
    THEN CHOOSE n \in StatesOf(m) : <<s, a, n>> \in Edges[m]
    ELSE NoState
=============================================================================
