-------------------------- MODULE OrderStateMachine --------------------------
(***************************************************************************)
(* One order of routing/state_machine.rs: the threads that activate,       *)
(* cancel and reject it and the ones that report its executions share it   *)
(* through &self.  One action is one atomic access together with the local *)
(* computation that follows it; the relaxed loads and stores of different  *)
(* fields are taken in program order.  The average fill price and          *)
(* last_update are not modelled: no decision depends on them.              *)
(***************************************************************************)
EXTENDS Integers

CONSTANTS
    Threads,      \* the callers
    Quantity,     \* the order's quantity
    Fills,        \* the quantities an execution may report
    MaxCalls      \* calls of all threads (a bound)

ASSUME OrderAssumption ==
    /\ Quantity \in Nat \ {0}
    /\ Fills \subseteq Nat \ {0}
    /\ MaxCalls \in Nat

VARIABLES
    state, filled_quantity, remaining_quantity, fill_count, executed,
    pc,           \* where each caller is
    reg,          \* each caller's locals
    calls         \* calls made by all threads

order == <<state, filled_quantity, remaining_quantity, fill_count, executed>>
vars == <<order, pc, reg, calls>>

OrderState == {"Pending", "New", "PartiallyFilled", "Filled", "Cancelled",
               "Rejected"}

is_terminal(s) == s \in {"Filled", "Cancelled", "Rejected"}

is_valid_transition(from, to) ==
    \/ from = "Pending" /\ to \in {"New", "Rejected", "Cancelled"}
    \/ from = "New" /\ to \in {"PartiallyFilled", "Filled", "Cancelled"}
    \/ from = "PartiallyFilled" /\ to \in {"Filled", "Cancelled"}

PC == {"idle", "c_load", "j_load", "t_load", "t_store", "x_swap", "x_state",
       "x_filled", "x_remaining", "x_set_filled", "x_set_remaining", "x_count"}

\* target: of transition(); current: the state loaded last; quantity: reported;
\* filled, remaining: loaded by report_execution().
Locals == [target : OrderState, current : OrderState, quantity : Nat,
           filled : Nat, remaining : Nat]

TypeOK ==
    /\ state \in OrderState
    /\ filled_quantity \in Nat /\ remaining_quantity \in Nat
    /\ fill_count \in Nat /\ executed \in BOOLEAN
    /\ pc \in [Threads -> PC]
    /\ reg \in [Threads -> Locals]
    /\ calls \in Nat

Init ==
    /\ state = "Pending" /\ filled_quantity = 0 /\ remaining_quantity = Quantity
    /\ fill_count = 0 /\ executed = FALSE
    /\ pc = [c \in Threads |-> "idle"]
    /\ reg = [c \in Threads |-> [target |-> "New", current |-> "Pending",
                                 quantity |-> 0, filled |-> 0, remaining |-> 0]]
    /\ calls = 0

Go(c, from, to) ==
    /\ pc[c] = from
    /\ pc' = [pc EXCEPT ![c] = to]
    /\ UNCHANGED calls

-----------------------------------------------------------------------------
(* transition(target): the state is loaded, tested and stored               *)

\* A transition() that does not validate (a mutated form of TransitionLoad).
Bug_Unvalidated(c) ==
    /\ Go(c, "t_load", "t_store")
    /\ UNCHANGED <<order, reg>>

TransitionLoad(c) ==
    /\ Go(c, "t_load",
          IF is_valid_transition(state, reg[c].target) THEN "t_store" ELSE "idle")
    /\ UNCHANGED <<order, reg>>

TransitionStore(c) ==
    /\ Go(c, "t_store", "idle")
    /\ state' = reg[c].target
    /\ UNCHANGED <<filled_quantity, remaining_quantity, fill_count, executed, reg>>

\* cancel() and reject(): their own test of the state, before transition().
CancelLoad(c) ==
    /\ Go(c, "c_load", IF is_terminal(state) THEN "idle" ELSE "t_load")
    /\ UNCHANGED <<order, reg>>

RejectLoad(c) ==
    /\ Go(c, "j_load", IF state \in {"Pending", "New"} THEN "t_load" ELSE "idle")
    /\ UNCHANGED <<order, reg>>

-----------------------------------------------------------------------------
(* report_execution(quantity)                                               *)

\* A flag that is tested but never set (a mutated form of ExecutionSwap).
Bug_FlagOnlyLoaded(c) ==
    /\ Go(c, "x_swap", IF executed THEN "idle" ELSE "x_state")
    /\ UNCHANGED <<order, reg>>

\* The idempotency flag: DuplicateExecution unless it was clear.
ExecutionSwap(c) ==
    /\ Go(c, "x_swap", IF executed THEN "idle" ELSE "x_state")
    /\ executed' = TRUE
    /\ UNCHANGED <<state, filled_quantity, remaining_quantity, fill_count, reg>>

ExecutionState(c) ==
    /\ Go(c, "x_state", IF is_terminal(state) THEN "idle" ELSE "x_filled")
    /\ reg' = [reg EXCEPT ![c].current = state]
    /\ UNCHANGED order

ExecutionFilled(c) ==
    /\ Go(c, "x_filled", "x_remaining")
    /\ reg' = [reg EXCEPT ![c].filled = filled_quantity]
    /\ UNCHANGED order

ExecutionRemaining(c) ==
    /\ Go(c, "x_remaining", "x_set_filled")
    /\ reg' = [reg EXCEPT ![c].remaining = remaining_quantity]
    /\ UNCHANGED order

\* No more is filled than remains.
actual_qty(quantity, remaining) ==
    IF quantity < remaining THEN quantity ELSE remaining

new_filled(c) == reg[c].filled + actual_qty(reg[c].quantity, reg[c].remaining)
new_remaining(c) == reg[c].remaining - actual_qty(reg[c].quantity, reg[c].remaining)

ExecutionSetFilled(c) ==
    /\ Go(c, "x_set_filled", "x_set_remaining")
    /\ filled_quantity' = new_filled(c)
    /\ UNCHANGED <<state, remaining_quantity, fill_count, executed, reg>>

ExecutionSetRemaining(c) ==
    /\ Go(c, "x_set_remaining", "x_count")
    /\ remaining_quantity' = new_remaining(c)
    /\ UNCHANGED <<state, filled_quantity, fill_count, executed, reg>>

\* Every fill completes the order (a mutated form of target_after).
Bug_AlwaysFilled(remaining) == "Filled"

\* The state a fill leads to.
target_after(remaining) == IF remaining = 0 THEN "Filled" ELSE "PartiallyFilled"

\* fill_count, and then transition(), which an order that was already partly
\* filled and still has a remainder does without.
ExecutionCount(c) ==
    /\ Go(c, "x_count",
          IF new_remaining(c) = 0 \/ reg[c].current # "PartiallyFilled"
          THEN "t_load" ELSE "idle")
    /\ fill_count' = fill_count + 1
    /\ reg' = [reg EXCEPT ![c].target = target_after(new_remaining(c))]
    /\ UNCHANGED <<state, filled_quantity, remaining_quantity, executed>>

-----------------------------------------------------------------------------
\* activate(), cancel(), reject() and report_execution() are called.
Call(c) ==
    /\ pc[c] = "idle" /\ calls < MaxCalls
    /\ calls' = calls + 1
    /\ \/ /\ \E p \in {<<"t_load", "New">>, <<"c_load", "Cancelled">>,
                       <<"j_load", "Rejected">>} :
               /\ pc' = [pc EXCEPT ![c] = p[1]]
               /\ reg' = [reg EXCEPT ![c].target = p[2]]
       \/ /\ pc' = [pc EXCEPT ![c] = "x_swap"]
          /\ \E q \in Fills : reg' = [reg EXCEPT ![c].quantity = q]
    /\ UNCHANGED order

Step(c) ==
    \/ Call(c) \/ TransitionLoad(c) \/ TransitionStore(c)
    \/ CancelLoad(c) \/ RejectLoad(c)
    \/ ExecutionSwap(c) \/ ExecutionState(c) \/ ExecutionFilled(c)
    \/ ExecutionRemaining(c) \/ ExecutionSetFilled(c) \/ ExecutionSetRemaining(c)
    \/ ExecutionCount(c)

Next == \E c \in Threads : Step(c)

Spec == Init /\ [][Next]_vars

-----------------------------------------------------------------------------
(* Properties                                                               *)

\* Executions reported by any number of threads, duplicates among them, are
\* booked once: the order has at most one fill.
OneFill == fill_count <= 1

\* Whatever races, the filled and the remaining quantity add up to the order's
\* whenever no report is between its two stores.
Conserved ==
    (\A c \in Threads : pc[c] # "x_set_remaining")
      => filled_quantity + remaining_quantity = Quantity

\* Whatever races, the state does not claim a fill that was not booked: a
\* partly filled order has a fill and a remainder, a filled one no remainder.
StateShowsFills ==
    /\ state = "PartiallyFilled" => filled_quantity > 0 /\ remaining_quantity > 0
    /\ state = "Filled" => filled_quantity = Quantity /\ remaining_quantity = 0

\* A complete order stays what it is: Filled, Cancelled and Rejected have no
\* successor ("validates transitions").
TerminalFinal == [][is_terminal(state) => state' = state]_vars

=============================================================================
