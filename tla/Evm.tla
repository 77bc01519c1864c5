-------------------------------- MODULE Evm ---------------------------------
(***************************************************************************)
(* The timer half of the event manager (evm.c).                            *)
(*                                                                         *)
(* A subsystem keeps one preallocated, deadline-ordered list of one-shot   *)
(* timers.  A timer is identified only by its (callback, closure) pair.    *)
(* Time is measured in ticks and a deadline is kept relative to "now", so  *)
(* the passing of one tick lowers every deadline by one; a timer whose     *)
(* deadline has reached 0 is expired and is dispatched from the head.      *)
(***************************************************************************)
EXTENDS Naturals, Sequences, SequencesExt

CONSTANT TimerCapacity   \* max_timer_count given to evm_create

Timer(cb, ctx, due) == [cb |-> cb, ctx |-> ctx, due |-> due]

\* The slot evm_add_timer inserts at: before the first timer whose deadline
\* is strictly later, so timers with equal deadlines keep insertion order.
InsertIndex(list, due) ==
    LET later == {i \in 1..Len(list) : due < list[i].due}
    IN  IF later = {} THEN Len(list) + 1 ELSE Min(later)

\* evm_add_timer: a full list logs and drops the new timer.
AddTimer(list, cb, ctx, due) ==
    IF Len(list) >= TimerCapacity
    THEN list
    ELSE InsertAt(list, InsertIndex(list, due), Timer(cb, ctx, due))

\* evm_del_timer: removes the first timer with the same (callback, closure).
DelTimer(list, cb, ctx) ==
    RemoveFirstMatch(list, LAMBDA t : t.cb = cb /\ t.ctx = ctx)

\* How many timers with this identity are outstanding.
Outstanding(list, cb, ctx) ==
    Cardinality({i \in 1..Len(list) : list[i].cb = cb /\ list[i].ctx = ctx})

\* evm_loop: the head timer has expired and is dispatched next.
Expired(list) == list # <<>> /\ list[1].due = 0

\* One tick of the monotonic clock.
Elapse(list) == [i \in 1..Len(list) |-> [list[i] EXCEPT !.due = @ - 1]]
=============================================================================
