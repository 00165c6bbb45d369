------------------------------ MODULE MatchLoop ------------------------------
(***************************************************************************)
(* The two loops of IntegerOrderBook.match, one iteration at a time: over  *)
(* a copy of the opposite side's prices, best first, and over the queue of *)
(* each price. While a level is being walked the index is already updated  *)
(* and the queue is not, so the book is inconsistent between two steps.    *)
(* BookOps!Match says in one expression what the loops return.             *)
(***************************************************************************)
EXTENDS BookOps

CONSTANTS
    StartBooks,  \* the books a call can meet
    Aggressors,  \* the orders that match
    Limits       \* their limits, NoLimit for a market order

(* what every operation of the book leaves behind (OrderBook)              *)
ASSUME StartAssumption ==
    \A b \in StartBooks :
        /\ IsBook(b)
        /\ QueuedAreIndexed(b) /\ QueuedOnce(b) /\ IndexedAreQueued(b) /\ NoEmptyLevel(b)
        /\ LevelOrdersAtHome(b)
ASSUME CallAssumption == Aggressors \subseteq Order /\ Limits \subseteq Nat

VARIABLES
    pc,            \* "levels", "queue" or "done"
    startBook,     \* the book the call began with
    aggressor,
    limitTicks,
    unlooked,      \* prices not looked at yet
    levelPrice,    \* the level being walked
    walked,        \* how many of its orders have been looked at
    updatedQueue,
    remaining,     \* lots of the aggressor
    executions

loopVars == <<pc, book, startBook, aggressor, limitTicks, unlooked, levelPrice, walked,
              updatedQueue, remaining, executions>>
call == <<startBook, aggressor, limitTicks>>

Resting == Opposite(aggressor.side)

LoopInit ==
    /\ startBook \in StartBooks /\ aggressor \in Aggressors /\ limitTicks \in Limits
    /\ book = startBook
    /\ pc = "levels"
    /\ unlooked = DOMAIN startBook.levels[Resting]
    /\ levelPrice = NoLimit /\ walked = 0 /\ updatedQueue = <<>>
    /\ remaining = aggressor.qty
    /\ executions = <<>>

(* the next price of the copy, which is in the order of the map            *)
NextPrice(p) == p \in unlooked /\ \A q \in unlooked \ {p} : Ahead(Resting, p, q)

EnterLevel ==
    /\ pc = "levels" /\ remaining # 0
    /\ \E p \in unlooked :
         /\ NextPrice(p) /\ Crosses(aggressor.side, p, limitTicks)
         /\ levelPrice' = p /\ unlooked' = unlooked \ {p}
    /\ walked' = 0 /\ updatedQueue' = <<>>
    /\ pc' = "queue"
    /\ UNCHANGED <<book, call, remaining, executions>>

Stop ==
    /\ pc = "levels"
    /\ \/ unlooked = {}
       \/ \E p \in unlooked : NextPrice(p) /\ ~Crosses(aggressor.side, p, limitTicks)
       \/ remaining = 0
    /\ pc' = "done"
    /\ UNCHANGED <<book, call, unlooked, levelPrice, walked, updatedQueue, remaining, executions>>

(* the queue of the level is replaced when it has been walked to its end   *)
LevelQueue == book.levels[Resting][levelPrice]

\* mutant: orders behind the last fill are not carried over
KeepOrderDropped ==
    /\ pc = "queue" /\ walked < Len(LevelQueue) /\ remaining = 0
    /\ walked' = walked + 1
    /\ UNCHANGED <<pc, book, call, unlooked, levelPrice, updatedQueue, remaining, executions>>
KeepOrder ==
    /\ pc = "queue" /\ walked < Len(LevelQueue) /\ remaining = 0
    /\ updatedQueue' = Append(updatedQueue, LevelQueue[walked + 1])
    /\ walked' = walked + 1
    /\ UNCHANGED <<pc, book, call, unlooked, levelPrice, remaining, executions>>

FillOrder ==
    /\ pc = "queue" /\ walked < Len(LevelQueue) /\ remaining # 0
    /\ LET o == LevelQueue[walked + 1]
           traded == IF remaining < o.qty THEN remaining ELSE o.qty
           left == [o EXCEPT !.qty = @ - traded]
       IN  /\ remaining' = remaining - traded
           /\ executions' = Append(executions, ExecuteEvent(o, traded))
           /\ \/ /\ left.qty = 0
                 /\ book' = [book EXCEPT !.orders = DropOrder(@, o.id)]
                 /\ updatedQueue' = updatedQueue
              \/ /\ left.qty # 0
                 /\ book' = [book EXCEPT !.orders = PutOrder(@, left)]
                 /\ updatedQueue' = Append(updatedQueue, left)
    /\ walked' = walked + 1
    /\ UNCHANGED <<pc, call, unlooked, levelPrice>>

LeaveLevel ==
    /\ pc = "queue" /\ walked = Len(LevelQueue)
    /\ book' = SetQueue(book, Resting, levelPrice, updatedQueue, book.orders)
    /\ pc' = "levels"
    /\ UNCHANGED <<call, unlooked, levelPrice, walked, updatedQueue, remaining, executions>>

LoopNext == EnterLevel \/ Stop \/ KeepOrder \/ FillOrder \/ LeaveLevel

LoopSpec == LoopInit /\ [][LoopNext]_loopVars

-----------------------------------------------------------------------------
(* Properties *)

(* When the loops end, the book, the executions and the rest of the        *)
(* aggressor are what Match, MatchEvents and Filled define.                *)
LoopsComputeMatch ==
    pc = "done" =>
        /\ book = Match(startBook, aggressor, limitTicks)
        /\ executions = MatchEvents(startBook, aggressor, limitTicks)
        /\ aggressor.qty - remaining = Filled(startBook, aggressor, limitTicks)

=============================================================================
