-------------------------------- MODULE Ledger --------------------------------
(***************************************************************************)
(* The business tables behind the Java task bodies: one account and one    *)
(* order of a workflow, every payment of one unit.  The payments read the  *)
(* balance, compute, and write the result back, in a READ COMMITTED        *)
(* transaction and with neither a version nor a row lock: that no update   *)
(* is lost is left to the engine that calls them.                          *)
(***************************************************************************)
EXTENDS ReddoDelivery

CONSTANT Funds  \* the account's balance at the start

ASSUME FundsAssumption == Funds \in Nat

VARIABLES
  balance,  \* saga_accounts.balance
  order,    \* saga_orders.status ("NONE": no such row)
  seen      \* broker thread -> the balance its transaction has read

ledgerVars == <<vars, balance, order, seen>>

Unread == Funds + 10

Payments == {"charge_payment", "refund_payment"}

Key(c) == Dag[Own(c)].key

LedgerInit ==
  /\ Init
  /\ balance = Funds
  /\ order = "NONE"
  /\ seen = [c \in Consumers |-> Unread]

-----------------------------------------------------------------------------
\* findById: the balance this transaction goes on with.
LedgerRead(c) ==
  /\ jpc[c] = "exec"
  /\ Key(c) \in Payments
  /\ seen[c] = Unread
  /\ seen' = [seen EXCEPT ![c] = balance]
  /\ UNCHANGED <<vars, balance, order>>

CreateOrder == order' = "PENDING" /\ UNCHANGED balance

CancelOrder == order' = "CANCELLED" /\ UNCHANGED balance

ChargePayment(c) ==
  /\ seen[c] # Unread
  /\ seen[c] >= 1
  /\ balance' = seen[c] - 1
  /\ UNCHANGED order

RefundPaymentUnsaved(c) ==
  /\ seen[c] # Unread
  /\ balance' = seen[c]
  /\ UNCHANGED order
RefundPayment(c) ==
  /\ seen[c] # Unread
  /\ balance' = seen[c] + 1
  /\ UNCHANGED order

\* The transaction of a task body that returned commits; that of a body that
\* threw, or whose replica died, is rolled back.
Worked(c) == jpc[c] = "exec" /\ jpc'[c] = "complete"

LedgerCommit ==
  /\ \/ \E c \in Consumers :
          /\ Worked(c)
          /\ \/ Key(c) = "create_order" /\ CreateOrder
             \/ Key(c) = "cancel_order" /\ CancelOrder
             \/ Key(c) = "charge_payment" /\ ChargePayment(c)
             \/ Key(c) = "refund_payment" /\ RefundPayment(c)
             \/ Key(c) = "unknown" /\ UNCHANGED <<balance, order>>
     \/ (\A c \in Consumers : ~Worked(c)) /\ UNCHANGED <<balance, order>>
  /\ seen' = [c \in Consumers |-> IF jpc'[c] = "exec" THEN seen[c] ELSE Unread]

LedgerNext ==
  \/ \E c \in Consumers : LedgerRead(c)
  \/ Next /\ LedgerCommit

LedgerSpec == LedgerInit /\ [][LedgerNext]_ledgerVars

\* No process needs more than that somebody goes on: a weaker assumption than
\* the fairness of Reddo, which gives every process its turn.
LedgerStep ==
  \/ \E c \in Consumers : LedgerRead(c)
  \/ /\ \/ GateStep /\ UNCHANGED <<brokerVars, workerVars>>
        \/ /\ \E c \in Consumers : BrokerStep(c)
           /\ UNCHANGED <<gateVars, workerVars>>
        \/ /\ \E n \in Nodes : PodWorks(n)
           /\ UNCHANGED <<gateVars, brokerVars>>
     /\ LedgerCommit

LedgerFairSpec == LedgerSpec /\ WF_ledgerVars(LedgerStep)

-----------------------------------------------------------------------------
\* The executions of the tasks with this key, each once: the first of a task and
\* the second, which stands for all that follow.
Executed(key) ==
  {e \in Tasks \X (1 .. 2) : Dag[e[1]].key = key /\ e[2] <= runs[e[1]]}

Executions(key) == Cardinality(Executed(key))

\* Every payment that was executed is in the balance, once for each execution.
\* About the read and the write of chargePayment and refundPayment under
\* redelivery: nothing in them keeps two threads apart.
NoLostUpdate ==
  balance + Executions("charge_payment") = Funds + Executions("refund_payment")

\* A workflow reported FAILED has given the money back and left no open order.
\* About the business effect of a whole saga, whatever was delivered twice.
Restored == wf = "FAILED" => balance = Funds /\ order # "PENDING"

-----------------------------------------------------------------------------
(* Where no update is lost. *)

Pays(t) == Dag[t].key \in Payments

\* q cannot start before p has taken effect: p is one of its dependencies, or
\* the task that it undoes.
After(q, p) ==
  \/ p \in Deps(q) /\ q \notin CompensationKeys
  \/ SagaFail \in Deps(q) /\ \A o \in Tasks : Comp(o) = q => o = p

\* The account is the brokers' business, and of any two payments the DAG puts
\* one before the other.
PaymentsOrdered ==
  /\ IsFiniteSet(Tasks)
  /\ \A t \in Tasks : Pays(t) => Dag[t].worker = "java"
  /\ \A o \in Tasks :
       Comp(o) # NoTask /\ Pays(Comp(o)) => Dag[o].worker = "java"
  /\ \A p, q \in Tasks : Pays(p) /\ Pays(q) /\ p # q => After(p, q) \/ After(q, p)

\* What a transaction has read is still the balance, unless the task has been
\* executed by another in the meantime.
ReadIsFresh ==
  \A c \in Consumers :
    jpc[c] = "exec" /\ seen[c] # Unread /\ ~HasRun(Own(c)) => seen[c] = balance

LedgerInv ==
  /\ balance \in Nat /\ seen \in [Consumers -> Nat]
  /\ \A c \in Consumers : jpc[c] # "exec" => seen[c] = Unread
  /\ \A c \in Consumers : seen[c] # Unread => Pays(Own(c))
  /\ AtMostOnce => NoLostUpdate /\ ReadIsFresh

-----------------------------------------------------------------------------
(* Where the books are balanced. *)

Orders == {"create_order", "cancel_order"}

\* A saga that undoes everything it did: every charge by a refund and every
\* order by a cancellation of its own, all by the brokers, and no refund but
\* for a charge.
BooksBalance ==
  /\ SagaInLine /\ PaymentsOrdered
  /\ \A t \in Tasks :
       Dag[t].key = "charge_payment" =>
         Comp(t) # NoTask /\ Dag[Comp(t)].key = "refund_payment"
  /\ \A u \in Tasks :
       Dag[u].key = "refund_payment" =>
         \E t \in Tasks : Comp(t) = u /\ Dag[t].key = "charge_payment"
  /\ \A t \in Tasks :
       Dag[t].key = "create_order" =>
         Comp(t) # NoTask /\ Dag[Comp(t)].key = "cancel_order"
  /\ \A t \in Tasks : Dag[t].key \in Orders => Dag[t].worker = "java"

\* Some task has created an order that its compensation has yet to cancel.
OrderOpen ==
  \E t \in Tasks :
    Dag[t].key = "create_order" /\ HasRun(t) /\ ~HasRun(Comp(t))

OrderInv == order = "PENDING" => OrderOpen
=============================================================================
