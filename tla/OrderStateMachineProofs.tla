----------------------- MODULE OrderStateMachineProofs -----------------------
(***************************************************************************)
(* Racing callers cannot make an order book an execution twice, lose a     *)
(* part of its quantity or claim a fill that was not booked: for any set   *)
(* of threads, any quantity and any reported fills.                        *)
(*                                                                         *)
(* The three properties are not inductive: they rest on who may write the  *)
(* quantities.  The swap of `executed' lets one caller ever into the       *)
(* booking section (OneAtATime, FlagShows), whose locals describe what it  *)
(* is about to store (Booking); a claim about fills (a state, or a         *)
(* transition to such a state under way) exists only when the section is   *)
(* over (Claims).  If calls do not overlap, the state keeps to the valid   *)
(* transitions as well: a store follows its own test (SerialInv).          *)
(***************************************************************************)
EXTENDS MCOrder, TLAPS

\* c has won the swap of `executed' and has not yet counted its fill.
InBooking(c) == pc[c] \in {"x_state", "x_filled", "x_remaining", "x_set_filled",
                           "x_set_remaining", "x_count"}

\* c is in the transition() that follows a fill.
Closing(c) == /\ pc[c] \in {"t_load", "t_store"}
              /\ reg[c].target \in {"PartiallyFilled", "Filled"}

OneAtATime == \A c, d \in Threads : InBooking(c) /\ InBooking(d) => c = d

FlagShows ==
    /\ ~executed => /\ fill_count = 0 /\ filled_quantity = 0
                    /\ remaining_quantity = Quantity
    /\ \A c \in Threads : InBooking(c) => executed /\ fill_count = 0

Untouched == filled_quantity = 0 /\ remaining_quantity = Quantity

Booking ==
    \A c \in Threads :
       /\ pc[c] \in {"x_swap", "x_state", "x_filled", "x_remaining",
                     "x_set_filled", "x_set_remaining", "x_count"}
            => reg[c].quantity > 0
       /\ pc[c] \in {"x_state", "x_filled", "x_remaining", "x_set_filled"}
            => Untouched
       /\ pc[c] \in {"x_remaining", "x_set_filled", "x_set_remaining", "x_count"}
            => reg[c].filled = 0
       /\ pc[c] \in {"x_set_filled", "x_set_remaining", "x_count"}
            => reg[c].remaining = Quantity
       /\ pc[c] \in {"x_set_remaining", "x_count"}
            => filled_quantity = new_filled(c)
       /\ pc[c] = "x_count" => remaining_quantity = new_remaining(c)
       /\ pc[c] = "c_load" => reg[c].target = "Cancelled"
       /\ pc[c] = "j_load" => reg[c].target = "Rejected"

Claims ==
    /\ state \in {"PartiallyFilled", "Filled"} => fill_count = 1
    /\ \A c \in Threads : Closing(c) =>
          /\ fill_count = 1
          /\ filled_quantity > 0
          /\ filled_quantity + remaining_quantity = Quantity
          /\ reg[c].target = "PartiallyFilled" => remaining_quantity > 0
          /\ reg[c].target = "Filled" => remaining_quantity = 0

IInv == /\ TypeOK /\ OneFill /\ Conserved /\ StateShowsFills
        /\ OneAtATime /\ FlagShows /\ Booking /\ Claims

-----------------------------------------------------------------------------
\* The types are inductive, given that no fill exceeds what remains.
LEMMA TypeInductive == TypeOK /\ [Next]_vars => TypeOK'
<1> SUFFICES ASSUME TypeOK, [Next]_vars PROVE TypeOK'
  OBVIOUS
<1> USE OrderAssumption DEF TypeOK, PC, Locals, OrderState, Go, order
<1>1. ASSUME NEW c \in Threads, Call(c) PROVE TypeOK'
  BY <1>1 DEF Call
<1>2. ASSUME NEW c \in Threads, TransitionLoad(c) PROVE TypeOK'
  BY <1>2 DEF TransitionLoad
<1>3. ASSUME NEW c \in Threads, TransitionStore(c) PROVE TypeOK'
  BY <1>3 DEF TransitionStore
<1>4. ASSUME NEW c \in Threads, CancelLoad(c) PROVE TypeOK'
  BY <1>4 DEF CancelLoad
<1>5. ASSUME NEW c \in Threads, RejectLoad(c) PROVE TypeOK'
  BY <1>5 DEF RejectLoad
<1>6. ASSUME NEW c \in Threads, ExecutionSwap(c) PROVE TypeOK'
  BY <1>6 DEF ExecutionSwap
<1>7. ASSUME NEW c \in Threads, ExecutionState(c) PROVE TypeOK'
  BY <1>7 DEF ExecutionState
<1>8. ASSUME NEW c \in Threads, ExecutionFilled(c) PROVE TypeOK'
  BY <1>8 DEF ExecutionFilled
<1>9. ASSUME NEW c \in Threads, ExecutionRemaining(c) PROVE TypeOK'
  BY <1>9 DEF ExecutionRemaining
<1>10. ASSUME NEW c \in Threads, ExecutionSetFilled(c) PROVE TypeOK'
  BY <1>10 DEF ExecutionSetFilled, new_filled, actual_qty
<1>11. ASSUME NEW c \in Threads, ExecutionSetRemaining(c) PROVE TypeOK'
  BY <1>11 DEF ExecutionSetRemaining, new_remaining, actual_qty
<1>12. ASSUME NEW c \in Threads, ExecutionCount(c) PROVE TypeOK'
  BY <1>12 DEF ExecutionCount, target_after
<1>13. CASE UNCHANGED vars
  BY <1>13 DEF vars
<1> QED
  BY <1>1, <1>2, <1>3, <1>4, <1>5, <1>6, <1>7, <1>8, <1>9, <1>10, <1>11,
     <1>12, <1>13 DEF Next, Step

-----------------------------------------------------------------------------
\* What a step of thread c outside the booking section does to the quantities:
\* nothing.  Such a step preserves all that does not speak of c's own claim.
LEMMA OutsideBooking ==
    ASSUME IInv, TypeOK', NEW c \in Threads, NEW l \in PC,
           pc' = [pc EXCEPT ![c] = l],
           ~InBooking(c), ~InBooking(c)',
           UNCHANGED <<filled_quantity, remaining_quantity, fill_count, executed>>,
           \A d \in Threads \ {c} : reg'[d] = reg[d]
    PROVE  /\ OneFill' /\ Conserved' /\ OneAtATime' /\ FlagShows'
           /\ \A d \in Threads \ {c} : pc'[d] = pc[d] /\ (Closing(d)' <=> Closing(d))
<1>1. \A d \in Threads \ {c} : pc'[d] = pc[d]
  BY DEF IInv, TypeOK
<1>2. \A d \in Threads : InBooking(d)' <=> InBooking(d)
  BY <1>1 DEF InBooking
<1>3. OneFill' /\ OneAtATime' /\ FlagShows'
  BY <1>2 DEF IInv, OneFill, OneAtATime, FlagShows
<1>4. Conserved'
  BY <1>1, <1>2 DEF IInv, Conserved, InBooking
<1> QED BY <1>1, <1>3, <1>4 DEF Closing

\* While c is in the booking section nobody else is, and nothing claims a fill.
LEMMA AloneInBooking ==
    ASSUME IInv, NEW c \in Threads, InBooking(c)
    PROVE  /\ executed /\ fill_count = 0
           /\ state \notin {"PartiallyFilled", "Filled"}
           /\ \A d \in Threads : ~Closing(d)
           /\ \A d \in Threads \ {c} : ~InBooking(d)
BY DEF IInv, FlagShows, Claims, OneAtATime

\* A step of c within the booking section preserves what does not speak of the
\* quantities.
LEMMA WithinBooking ==
    ASSUME IInv, TypeOK', NEW c \in Threads, NEW l \in PC,
           InBooking(c), InBooking(c)',
           pc' = [pc EXCEPT ![c] = l],
           UNCHANGED <<state, fill_count, executed>>,
           \A d \in Threads \ {c} : reg'[d] = reg[d]
    PROVE  /\ OneFill' /\ OneAtATime' /\ FlagShows' /\ Claims' /\ StateShowsFills'
           /\ \A d \in Threads \ {c} : pc'[d] = pc[d] /\ ~InBooking(d)
<1>1. \A d \in Threads \ {c} : pc'[d] = pc[d]
  BY DEF IInv, TypeOK
<1>2. \A d \in Threads : ~Closing(d)'
  BY <1>1, AloneInBooking DEF Closing, InBooking
<1>3. \A d \in Threads \ {c} : ~InBooking(d)' /\ ~InBooking(d)
  BY <1>1, AloneInBooking DEF InBooking
<1> QED
  BY <1>1, <1>2, <1>3, AloneInBooking
  DEF IInv, OneFill, OneAtATime, FlagShows, Claims, StateShowsFills

\* Every step preserves the inductive invariant.
LEMMA StepIInv == IInv /\ [Next]_vars => IInv'
<1> SUFFICES ASSUME IInv, [Next]_vars PROVE IInv'
  OBVIOUS
<1>t. TypeOK'
  BY TypeInductive DEF IInv
<1>1. ASSUME NEW c \in Threads, Call(c) PROVE IInv'
  <2>1. PICK l \in {"t_load", "c_load", "j_load", "x_swap"} :
           pc' = [pc EXCEPT ![c] = l]
    BY <1>1 DEF Call
  <2>2. /\ l = "t_load" => reg'[c].target = "New"
        /\ l = "c_load" => reg'[c].target = "Cancelled"
        /\ l = "j_load" => reg'[c].target = "Rejected"
        /\ l = "x_swap" => reg'[c].quantity > 0
    BY <1>1, <2>1, OrderAssumption DEF Call, IInv, TypeOK, Locals
  <2>3. \A d \in Threads \ {c} : reg'[d] = reg[d]
    BY <1>1 DEF Call, IInv, TypeOK
  <2>4. pc'[c] = l /\ ~InBooking(c) /\ ~InBooking(c)'
    BY <1>1, <2>1 DEF Call, InBooking, IInv, TypeOK
  <2>5. /\ OneFill' /\ Conserved' /\ OneAtATime' /\ FlagShows'
        /\ \A d \in Threads \ {c} : pc'[d] = pc[d] /\ (Closing(d)' <=> Closing(d))
    BY <1>1, <1>t, <2>1, <2>3, <2>4, OutsideBooking DEF Call, order, PC
  <2>6. ~Closing(c)'
    BY <2>2, <2>4 DEF Closing
  <2>7. Booking'
    BY <1>1, <2>2, <2>3, <2>4, <2>5
    DEF Call, order, IInv, Booking, Untouched,
        new_filled, new_remaining
  <2>8. Claims' /\ StateShowsFills'
    BY <1>1, <2>3, <2>5, <2>6
    DEF Call, order, IInv, Claims, Closing, StateShowsFills
  <2> QED BY <1>t, <2>5, <2>7, <2>8 DEF IInv
<1>2. ASSUME NEW c \in Threads, TransitionLoad(c) PROVE IInv'
  <2>1. PICK l \in {"t_store", "idle"} : pc' = [pc EXCEPT ![c] = l]
    BY <1>2 DEF TransitionLoad, Go
  <2>2. pc'[c] = l /\ ~InBooking(c) /\ ~InBooking(c)'
    BY <1>2, <2>1 DEF TransitionLoad, Go, InBooking, IInv, TypeOK
  <2>3. /\ OneFill' /\ Conserved' /\ OneAtATime' /\ FlagShows'
        /\ \A d \in Threads \ {c} : pc'[d] = pc[d] /\ (Closing(d)' <=> Closing(d))
    BY <1>2, <1>t, <2>1, <2>2, OutsideBooking DEF TransitionLoad, order, PC
  <2>4. Closing(c)' => Closing(c)
    BY <1>2, <2>2 DEF TransitionLoad, Go, Closing, IInv, Booking
  <2>5. Booking'
    BY <1>2, <2>2, <2>3
    DEF TransitionLoad, order, IInv, Booking, Untouched,
        new_filled, new_remaining
  <2>6. Claims' /\ StateShowsFills'
    BY <1>2, <2>3, <2>4 DEF TransitionLoad, order, IInv, Claims, StateShowsFills
  <2> QED BY <1>t, <2>3, <2>5, <2>6 DEF IInv
<1>3. ASSUME NEW c \in Threads, CancelLoad(c) PROVE IInv'
  <2>1. PICK l \in {"t_load", "idle"} : pc' = [pc EXCEPT ![c] = l]
    BY <1>3 DEF CancelLoad, Go
  <2>2. pc'[c] = l /\ ~InBooking(c) /\ ~InBooking(c)'
    BY <1>3, <2>1 DEF CancelLoad, Go, InBooking, IInv, TypeOK
  <2>3. /\ OneFill' /\ Conserved' /\ OneAtATime' /\ FlagShows'
        /\ \A d \in Threads \ {c} : pc'[d] = pc[d] /\ (Closing(d)' <=> Closing(d))
    BY <1>3, <1>t, <2>1, <2>2, OutsideBooking DEF CancelLoad, order, PC
  <2>4. Closing(c)' => Closing(c)
    BY <1>3, <2>2 DEF CancelLoad, Go, Closing, IInv, Booking
  <2>5. Booking'
    BY <1>3, <2>2, <2>3
    DEF CancelLoad, order, IInv, Booking, Untouched,
        new_filled, new_remaining
  <2>6. Claims' /\ StateShowsFills'
    BY <1>3, <2>3, <2>4 DEF CancelLoad, order, IInv, Claims, StateShowsFills
  <2> QED BY <1>t, <2>3, <2>5, <2>6 DEF IInv
<1>4. ASSUME NEW c \in Threads, RejectLoad(c) PROVE IInv'
  <2>1. PICK l \in {"t_load", "idle"} : pc' = [pc EXCEPT ![c] = l]
    BY <1>4 DEF RejectLoad, Go
  <2>2. pc'[c] = l /\ ~InBooking(c) /\ ~InBooking(c)'
    BY <1>4, <2>1 DEF RejectLoad, Go, InBooking, IInv, TypeOK
  <2>3. /\ OneFill' /\ Conserved' /\ OneAtATime' /\ FlagShows'
        /\ \A d \in Threads \ {c} : pc'[d] = pc[d] /\ (Closing(d)' <=> Closing(d))
    BY <1>4, <1>t, <2>1, <2>2, OutsideBooking DEF RejectLoad, order, PC
  <2>4. Closing(c)' => Closing(c)
    BY <1>4, <2>2 DEF RejectLoad, Go, Closing, IInv, Booking
  <2>5. Booking'
    BY <1>4, <2>2, <2>3
    DEF RejectLoad, order, IInv, Booking, Untouched,
        new_filled, new_remaining
  <2>6. Claims' /\ StateShowsFills'
    BY <1>4, <2>3, <2>4 DEF RejectLoad, order, IInv, Claims, StateShowsFills
  <2> QED BY <1>t, <2>3, <2>5, <2>6 DEF IInv
<1>5. ASSUME NEW c \in Threads, TransitionStore(c) PROVE IInv'
  <2>1. pc' = [pc EXCEPT ![c] = "idle"] /\ pc[c] = "t_store"
    BY <1>5 DEF TransitionStore, Go
  <2>2. pc'[c] = "idle" /\ ~InBooking(c) /\ ~InBooking(c)'
    BY <2>1 DEF InBooking, IInv, TypeOK
  <2>3. /\ OneFill' /\ Conserved' /\ OneAtATime' /\ FlagShows'
        /\ \A d \in Threads \ {c} : pc'[d] = pc[d] /\ (Closing(d)' <=> Closing(d))
    BY <1>5, <1>t, <2>1, <2>2, OutsideBooking DEF TransitionStore, PC
  <2>4. ~Closing(c)'
    BY <2>2 DEF Closing
  <2>5. Booking'
    BY <1>5, <2>2, <2>3
    DEF TransitionStore, IInv, Booking, Untouched,
        new_filled, new_remaining
  <2>6. state' \in {"PartiallyFilled", "Filled"} => Closing(c)
    BY <1>5, <2>1 DEF TransitionStore, Closing
  <2>7. Claims' /\ StateShowsFills'
    BY <1>5, <2>3, <2>4, <2>6
    DEF TransitionStore, IInv, TypeOK, Claims, StateShowsFills
  <2> QED BY <1>t, <2>3, <2>5, <2>7 DEF IInv
<1>6. ASSUME NEW c \in Threads, ExecutionSwap(c) PROVE IInv'
  <2>1. CASE executed
    <3>1. pc' = [pc EXCEPT ![c] = "idle"] /\ pc[c] = "x_swap"
      BY <1>6, <2>1 DEF ExecutionSwap, Go
    <3>2. pc'[c] = "idle" /\ ~InBooking(c) /\ ~InBooking(c)'
      BY <3>1 DEF InBooking, IInv, TypeOK
    <3>3. /\ OneFill' /\ Conserved' /\ OneAtATime' /\ FlagShows'
          /\ \A d \in Threads \ {c} : pc'[d] = pc[d] /\ (Closing(d)' <=> Closing(d))
      BY <1>6, <1>t, <2>1, <3>1, <3>2, OutsideBooking
      DEF ExecutionSwap, PC, IInv, TypeOK
    <3>4. ~Closing(c)'
      BY <3>2 DEF Closing
    <3>5. Booking' /\ Claims' /\ StateShowsFills'
      BY <1>6, <3>2, <3>3, <3>4
      DEF ExecutionSwap, IInv, Booking, Claims, StateShowsFills, Untouched,
          new_filled, new_remaining
    <3> QED BY <1>t, <3>3, <3>5 DEF IInv
  <2>2. CASE ~executed
    <3>1. /\ pc[c] = "x_swap" /\ pc'[c] = "x_state"
          /\ \A d \in Threads \ {c} : pc'[d] = pc[d]
      BY <1>6, <2>2 DEF ExecutionSwap, Go, IInv, TypeOK
    <3>2. Untouched /\ fill_count = 0
      BY <2>2 DEF IInv, FlagShows, Untouched
    <3>3. \A d \in Threads : ~InBooking(d)
      BY <2>2 DEF IInv, FlagShows
    <3>4. \A d \in Threads : ~Closing(d)'
      BY <1>6, <3>1, <3>2 DEF ExecutionSwap, Closing, IInv, Claims
    <3>5. \A d \in Threads \ {c} : ~InBooking(d)'
      BY <3>1, <3>3 DEF InBooking
    <3>6. OneFill' /\ OneAtATime' /\ FlagShows' /\ Claims' /\ StateShowsFills'
      BY <1>6, <3>2, <3>4, <3>5
      DEF ExecutionSwap, IInv, OneFill, OneAtATime, FlagShows, Claims, StateShowsFills
    <3>7. Conserved'
      BY <1>6, <3>2, OrderAssumption DEF ExecutionSwap, Conserved, Untouched
    <3>8. Booking'
      BY <1>6, <3>1, <3>2
      DEF ExecutionSwap, IInv, Booking, Untouched,
        new_filled, new_remaining
    <3> QED BY <1>t, <3>6, <3>7, <3>8 DEF IInv
  <2> QED BY <2>1, <2>2
<1>7. ASSUME NEW c \in Threads, ExecutionState(c) PROVE IInv'
  <2>1. pc[c] = "x_state" /\ InBooking(c)
    BY <1>7 DEF ExecutionState, Go, InBooking
  <2>2. \A d \in Threads \ {c} : reg'[d] = reg[d]
    BY <1>7 DEF ExecutionState, IInv, TypeOK
  <2>3. reg'[c].quantity = reg[c].quantity
    BY <1>7 DEF ExecutionState, IInv, TypeOK, Locals
  <2>4. CASE is_terminal(state)
    <3>1. /\ pc'[c] = "idle"
          /\ \A d \in Threads \ {c} : pc'[d] = pc[d]
      BY <1>7, <2>4 DEF ExecutionState, Go, IInv, TypeOK
    <3>2. \A d \in Threads : ~InBooking(d)' /\ ~Closing(d)'
      BY <2>1, <2>2, <3>1, AloneInBooking DEF InBooking, Closing
    <3>3. OneFill' /\ OneAtATime' /\ FlagShows' /\ Claims' /\ StateShowsFills'
      BY <1>7, <2>1, <3>2, AloneInBooking
      DEF ExecutionState, order, IInv, OneFill, OneAtATime, FlagShows, Claims,
          StateShowsFills
    <3>4. Conserved'
      BY <1>7, <2>1, OrderAssumption
      DEF ExecutionState, order, IInv, Booking, Untouched, Conserved
    <3>5. Booking'
      BY <1>7, <2>2, <3>1
      DEF ExecutionState, order, IInv, Booking, Untouched,
        new_filled, new_remaining
    <3> QED BY <1>t, <3>3, <3>4, <3>5 DEF IInv
  <2>5. CASE ~is_terminal(state)
    <3>1. pc' = [pc EXCEPT ![c] = "x_filled"] /\ pc'[c] = "x_filled"
      BY <1>7, <2>5 DEF ExecutionState, Go, IInv, TypeOK
    <3>2. InBooking(c)'
      BY <3>1 DEF InBooking
    <3>3. /\ OneFill' /\ OneAtATime' /\ FlagShows' /\ Claims' /\ StateShowsFills'
          /\ \A d \in Threads \ {c} : pc'[d] = pc[d] /\ ~InBooking(d)
      BY <1>7, <1>t, <2>1, <2>2, <3>1, <3>2, WithinBooking
      DEF ExecutionState, order, PC
    <3>4. Conserved'
      BY <1>7, <2>1, OrderAssumption
      DEF ExecutionState, order, IInv, Booking, Untouched, Conserved
    <3>5. Booking'
      BY <1>7, <2>1, <2>2, <2>3, <3>1, <3>3
      DEF ExecutionState, order, IInv, Booking, Untouched,
        new_filled, new_remaining
    <3> QED BY <1>t, <3>3, <3>4, <3>5 DEF IInv
  <2> QED BY <2>4, <2>5
<1>8. ASSUME NEW c \in Threads, ExecutionFilled(c) PROVE IInv'
  <2>1. pc[c] = "x_filled" /\ InBooking(c)
    BY <1>8 DEF ExecutionFilled, Go, InBooking
  <2>2. \A d \in Threads \ {c} : reg'[d] = reg[d]
    BY <1>8 DEF ExecutionFilled, IInv, TypeOK
  <2>3. reg'[c].filled = filled_quantity /\ reg'[c].quantity = reg[c].quantity
    BY <1>8 DEF ExecutionFilled, IInv, TypeOK, Locals
  <2>4. pc' = [pc EXCEPT ![c] = "x_remaining"] /\ pc'[c] = "x_remaining"
    BY <1>8 DEF ExecutionFilled, Go, IInv, TypeOK
  <2>5. InBooking(c)'
    BY <2>4 DEF InBooking
  <2>6. /\ OneFill' /\ OneAtATime' /\ FlagShows' /\ Claims' /\ StateShowsFills'
        /\ \A d \in Threads \ {c} : pc'[d] = pc[d] /\ ~InBooking(d)
    BY <1>8, <1>t, <2>1, <2>2, <2>4, <2>5, WithinBooking
    DEF ExecutionFilled, order, PC
  <2>7. Conserved'
    BY <1>8, <2>1, OrderAssumption
    DEF ExecutionFilled, order, IInv, Booking, Untouched, Conserved
  <2>8. Booking'
    BY <1>8, <2>1, <2>2, <2>3, <2>4, <2>6
    DEF ExecutionFilled, order, IInv, InBooking, Booking, Untouched,
        new_filled, new_remaining
  <2> QED BY <1>t, <2>6, <2>7, <2>8 DEF IInv
<1>9. ASSUME NEW c \in Threads, ExecutionRemaining(c) PROVE IInv'
  <2>1. pc[c] = "x_remaining" /\ InBooking(c)
    BY <1>9 DEF ExecutionRemaining, Go, InBooking
  <2>2. \A d \in Threads \ {c} : reg'[d] = reg[d]
    BY <1>9 DEF ExecutionRemaining, IInv, TypeOK
  <2>3. /\ reg'[c].remaining = remaining_quantity
        /\ reg'[c].filled = reg[c].filled /\ reg'[c].quantity = reg[c].quantity
    BY <1>9 DEF ExecutionRemaining, IInv, TypeOK, Locals
  <2>4. pc' = [pc EXCEPT ![c] = "x_set_filled"] /\ pc'[c] = "x_set_filled"
    BY <1>9 DEF ExecutionRemaining, Go, IInv, TypeOK
  <2>5. InBooking(c)'
    BY <2>4 DEF InBooking
  <2>6. /\ OneFill' /\ OneAtATime' /\ FlagShows' /\ Claims' /\ StateShowsFills'
        /\ \A d \in Threads \ {c} : pc'[d] = pc[d] /\ ~InBooking(d)
    BY <1>9, <1>t, <2>1, <2>2, <2>4, <2>5, WithinBooking
    DEF ExecutionRemaining, order, PC
  <2>7. Conserved'
    BY <1>9, <2>1, OrderAssumption
    DEF ExecutionRemaining, order, IInv, Booking, Untouched, Conserved
  <2>8. Booking'
    BY <1>9, <2>1, <2>2, <2>3, <2>4, <2>6
    DEF ExecutionRemaining, order, IInv, InBooking, Booking, Untouched,
        new_filled, new_remaining
  <2> QED BY <1>t, <2>6, <2>7, <2>8 DEF IInv
<1>10. ASSUME NEW c \in Threads, ExecutionSetFilled(c) PROVE IInv'
  <2>1. pc[c] = "x_set_filled" /\ InBooking(c)
    BY <1>10 DEF ExecutionSetFilled, Go, InBooking
  <2>2. \A d \in Threads \ {c} : reg'[d] = reg[d]
    BY <1>10 DEF ExecutionSetFilled, IInv, TypeOK
  <2>3. reg'[c] = reg[c] /\ filled_quantity' = new_filled(c)
    BY <1>10 DEF ExecutionSetFilled, IInv, TypeOK, Locals
  <2>4. pc' = [pc EXCEPT ![c] = "x_set_remaining"] /\ pc'[c] = "x_set_remaining"
    BY <1>10 DEF ExecutionSetFilled, Go, IInv, TypeOK
  <2>5. InBooking(c)'
    BY <2>4 DEF InBooking
  <2>6. /\ OneFill' /\ OneAtATime' /\ FlagShows' /\ Claims' /\ StateShowsFills'
        /\ \A d \in Threads \ {c} : pc'[d] = pc[d] /\ ~InBooking(d)
    BY <1>10, <1>t, <2>1, <2>2, <2>4, <2>5, WithinBooking
    DEF ExecutionSetFilled, order, PC
  <2>7. Conserved'
    BY <2>4 DEF Conserved
  <2>8. Booking'
    BY <1>10, <2>1, <2>2, <2>3, <2>4, <2>6
    DEF ExecutionSetFilled, order, IInv, InBooking, Booking, Untouched,
        new_filled, new_remaining
  <2> QED BY <1>t, <2>6, <2>7, <2>8 DEF IInv
<1>11. ASSUME NEW c \in Threads, ExecutionSetRemaining(c) PROVE IInv'
  <2>1. pc[c] = "x_set_remaining" /\ InBooking(c)
    BY <1>11 DEF ExecutionSetRemaining, Go, InBooking
  <2>2. \A d \in Threads \ {c} : reg'[d] = reg[d]
    BY <1>11 DEF ExecutionSetRemaining, IInv, TypeOK
  <2>3. reg'[c] = reg[c] /\ remaining_quantity' = new_remaining(c)
    BY <1>11 DEF ExecutionSetRemaining, IInv, TypeOK, Locals
  <2>4. pc' = [pc EXCEPT ![c] = "x_count"] /\ pc'[c] = "x_count"
    BY <1>11 DEF ExecutionSetRemaining, Go, IInv, TypeOK
  <2>5. InBooking(c)'
    BY <2>4 DEF InBooking
  <2>6. /\ OneFill' /\ OneAtATime' /\ FlagShows' /\ Claims' /\ StateShowsFills'
        /\ \A d \in Threads \ {c} : pc'[d] = pc[d] /\ ~InBooking(d)
    BY <1>11, <1>t, <2>1, <2>2, <2>4, <2>5, WithinBooking
    DEF ExecutionSetRemaining, order, PC
  <2>7. Conserved'
    BY <1>11, <2>1, <2>3, OrderAssumption
    DEF ExecutionSetRemaining, IInv, TypeOK, Locals, Booking, Conserved, new_filled,
        new_remaining, actual_qty
  <2>8. Booking'
    BY <1>11, <2>1, <2>2, <2>3, <2>4, <2>6
    DEF ExecutionSetRemaining, order, IInv, InBooking, Booking, Untouched,
        new_filled, new_remaining
  <2> QED BY <1>t, <2>6, <2>7, <2>8 DEF IInv
<1>12. ASSUME NEW c \in Threads, ExecutionCount(c) PROVE IInv'
  <2>1. pc[c] = "x_count" /\ InBooking(c)
    BY <1>12 DEF ExecutionCount, Go, InBooking
  <2>2. \A d \in Threads \ {c} : reg'[d] = reg[d] /\ pc'[d] = pc[d]
    BY <1>12 DEF ExecutionCount, Go, IInv, TypeOK
  <2>3. pc'[c] \in {"t_load", "idle"} /\ fill_count' = 1
    BY <1>12, <2>1, AloneInBooking DEF ExecutionCount, Go, IInv, TypeOK
  <2>4. reg'[c].target = target_after(remaining_quantity)
    BY <1>12, <2>1 DEF ExecutionCount, IInv, TypeOK, Locals, Booking
  <2>5. \A d \in Threads : ~InBooking(d)'
    BY <2>1, <2>2, <2>3, AloneInBooking DEF InBooking
  <2>6. \A d \in Threads \ {c} : ~Closing(d)'
    BY <2>1, <2>2, AloneInBooking DEF Closing
  <2>7. filled_quantity > 0 /\ filled_quantity + remaining_quantity = Quantity
    BY <2>1, OrderAssumption
    DEF IInv, TypeOK, Locals, Booking, new_filled, new_remaining, actual_qty
  <2>8. OneFill' /\ OneAtATime' /\ FlagShows' /\ Conserved'
    BY <1>12, <2>1, <2>3, <2>5, <2>7, AloneInBooking
    DEF ExecutionCount, OneFill, OneAtATime, FlagShows, Conserved
  <2>9. Claims' /\ StateShowsFills'
    BY <1>12, <2>1, <2>3, <2>4, <2>6, <2>7, AloneInBooking
    DEF ExecutionCount, IInv, TypeOK, Claims, Closing, StateShowsFills, target_after
  <2>10. Booking'
    BY <1>12, <2>2, <2>3
    DEF ExecutionCount, IInv, Booking, Untouched,
        new_filled, new_remaining
  <2> QED BY <1>t, <2>8, <2>9, <2>10 DEF IInv
<1>13. CASE UNCHANGED vars
  BY <1>t, <1>13 DEF vars, order, IInv, OneFill, Conserved, StateShowsFills,
     OneAtATime, FlagShows, Booking, Claims, InBooking, Closing, Untouched,
     new_filled, new_remaining
<1> QED
  BY <1>1, <1>2, <1>3, <1>4, <1>5, <1>6, <1>7, <1>8, <1>9, <1>10, <1>11,
     <1>12, <1>13 DEF Next, Step

-----------------------------------------------------------------------------
\* The initial order satisfies the inductive invariant.
LEMMA InitIInv == Init => IInv
<1> SUFFICES ASSUME Init PROVE IInv
  OBVIOUS
<1>1. TypeOK
  BY OrderAssumption DEF Init, TypeOK, PC, OrderState, Locals
<1>2. \A c \in Threads : pc[c] = "idle" /\ ~InBooking(c) /\ ~Closing(c)
  BY DEF Init, InBooking, Closing
<1>3. OneFill /\ Conserved /\ StateShowsFills
  BY OrderAssumption DEF Init, OneFill, Conserved, StateShowsFills
<1>4. OneAtATime /\ FlagShows /\ Claims
  BY <1>2 DEF Init, OneAtATime, FlagShows, Claims
<1>5. Booking
  BY <1>2 DEF Booking
<1> QED BY <1>1, <1>3, <1>4, <1>5 DEF IInv

\* An execution is booked at most once, whoever reports it how often.
THEOREM OrderOneFill == Spec => []OneFill
<1>1. IInv => OneFill
  BY DEF IInv
<1> QED BY <1>1, InitIInv, StepIInv, PTL DEF Spec

\* Filled and remaining quantity add up to the order's quantity.
THEOREM OrderConserved == Spec => []Conserved
<1>1. IInv => Conserved
  BY DEF IInv
<1> QED BY <1>1, InitIInv, StepIInv, PTL DEF Spec

\* The state of the order claims no fill that was not booked.
THEOREM OrderStateShowsFills == Spec => []StateShowsFills
<1>1. IInv => StateShowsFills
  BY DEF IInv
<1> QED BY <1>1, InitIInv, StepIInv, PTL DEF Spec

-----------------------------------------------------------------------------
(* Calls that do not overlap.                                               *)

\* One caller is inside, and before its store the transition is still valid.
SerialInv ==
    /\ TypeOK
    /\ usage = "serial" =>
          /\ \A c, d \in Threads : pc[c] # "idle" /\ pc[d] # "idle" => c = d
          /\ \A c \in Threads : pc[c] = "t_store" => is_valid_transition(state, reg[c].target)

\* A step of a caller that is alone.
LEMMA SerialStep ==
    ASSUME SerialInv, [MCNext]_<<vars, usage>>
    PROVE  /\ SerialInv'
           /\ usage = "serial" /\ state' # state => is_valid_transition(state, state')
<1>1. TypeOK'
  BY TypeInductive DEF SerialInv, MCNext, MCStep, Next, vars
<1>2. CASE UNCHANGED <<vars, usage>>
  BY <1>1, <1>2 DEF SerialInv, vars, order, is_valid_transition
<1>3. ASSUME NEW c \in Threads, MCStep(c), usage = "serial"
      PROVE  /\ SerialInv'
             /\ state' # state => is_valid_transition(state, state')
  <2> USE DEF order, Go
  <2>1. /\ usage' = "serial" /\ pc \in [Threads -> PC] /\ Step(c)
        /\ \A d \in Threads : d # c => pc[d] = "idle"
    BY <1>3 DEF MCStep, SerialInv, TypeOK
  <2>2. \A d \in Threads : d # c => pc'[d] = "idle"
    BY <2>1 DEF Step, Call, TransitionLoad, TransitionStore, CancelLoad, RejectLoad,
       ExecutionSwap, ExecutionState, ExecutionFilled, ExecutionRemaining,
       ExecutionSetFilled, ExecutionSetRemaining, ExecutionCount
  <2>3. /\ pc'[c] = "t_store" => is_valid_transition(state', reg'[c].target)
        /\ state' # state => is_valid_transition(state, state')
    <3>1. CASE TransitionLoad(c)
      BY <2>1, <3>1 DEF TransitionLoad
    <3>2. CASE TransitionStore(c)
      BY <1>3, <2>1, <3>2 DEF TransitionStore, SerialInv
    <3>3. CASE Call(c)
      BY <2>1, <3>3 DEF Call
    <3>4. ASSUME Step(c), ~TransitionLoad(c), ~TransitionStore(c), ~Call(c)
          PROVE  state' = state /\ pc'[c] # "t_store"
      BY <2>1, <3>4 DEF Step, CancelLoad, RejectLoad, ExecutionSwap, ExecutionState,
         ExecutionFilled, ExecutionRemaining, ExecutionSetFilled, ExecutionSetRemaining,
         ExecutionCount
    <3> QED BY <2>1, <3>1, <3>2, <3>3, <3>4
  <2> QED BY <1>1, <2>1, <2>2, <2>3 DEF SerialInv
<1>4. ASSUME NEW c \in Threads, MCStep(c), usage # "serial" PROVE SerialInv'
  BY <1>1, <1>4 DEF MCStep, SerialInv
<1> QED BY <1>2, <1>3, <1>4 DEF MCNext

\* If calls do not overlap, no sequence of activate(), cancel(), reject() and
\* report_execution(), refused ones included, leads the state off the valid
\* transitions, for any number of callers.
THEOREM OrderSerialLegalPath == MCSpec => SerialLegalPath
<1>1. MCInit => SerialInv
  <2> SUFFICES ASSUME MCInit PROVE SerialInv
    OBVIOUS
  <2>1. TypeOK
    BY InitIInv DEF MCInit, IInv
  <2> QED BY <2>1 DEF MCInit, Init, SerialInv
<1>2. SerialInv /\ [MCNext]_<<vars, usage>> => SerialInv'
  BY SerialStep
<1>3. SerialInv /\ [MCNext]_<<vars, usage>>
        => [usage = "serial" /\ state' # state
              => is_valid_transition(state, state')]_<<vars, usage>>
  BY SerialStep
<1> QED BY <1>1, <1>2, <1>3, PTL DEF MCSpec, SerialLegalPath
=============================================================================
