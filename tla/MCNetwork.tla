------------------------------ MODULE MCNetwork ------------------------------
(***************************************************************************)
(* What must happen in the end in the connection pool, and to requests on  *)
(* their way through the transponder.  A behaviour takes one of the two    *)
(* parts and leaves the other as it began; the fairness is that of the     *)
(* part it takes.                                                          *)
(***************************************************************************)
EXTENDS Transponder
CONSTANTS b1, m1, p1, s1, s2

VARIABLES
    part,
    running, timer, current, named, poolIdle, lent, poolOpen, held, at, made, need,
    unused, reading, thread                                    \* Pool

pool == <<running, timer, current, named, poolIdle, lent, poolOpen, held, at, made,
          need, unused, reading, thread>>

Pool == INSTANCE ConnectionPool WITH
    Borrowers <- {b1}, Managers <- {m1}, Sessions <- {s1, s2}, Pools <- {p1},
    Min <- 1, Max <- 1, idle <- poolIdle, open <- poolOpen, pc <- thread

(* The endpoint is known by its address: give_back finds its pool.         *)
MCInit ==
    /\ part \in {"pool", "forwarding"}
    /\ Pool!Init /\ ~named
    /\ Init

InPool(A) == part = "pool" /\ A /\ UNCHANGED <<part, vars>>
InForwarding(A) == part = "forwarding" /\ A /\ UNCHANGED <<part, pool>>

PoolStep == InPool(Pool!Next)
ForwardingStep == InForwarding(Next)

all == <<part, pool, vars>>
MCSpec == MCInit /\ [][PoolStep \/ ForwardingStep]_all

(* In the pool, a call that is not waiting goes on, a connection attempt   *)
(* ends, a wait ends at the deadline, after which no turn of the loop      *)
(* waits again, and the timer's callbacks run.  In the transponder, the    *)
(* threads that carry a request go on but for the write of it, as does     *)
(* the one that closes, and a pool that runs has a free thread take what   *)
(* waits; neither the upstream nor the network owes anything: it may not   *)
(* read, not answer and not leave.                                         *)
Fairness ==
    /\ WF_all(InPool(Pool!Look(b1))) /\ WF_all(InPool(Pool!BorrowWake(b1)))
    /\ WF_all(InPool(Pool!BorrowConnect(b1))) /\ WF_all(InPool(Pool!BorrowCheck(b1)))
    /\ WF_all(InPool(Pool!GiveBackLocked(b1))) /\ WF_all(InPool(Pool!InvalidateLocked(b1)))
    /\ SF_all(InPool((Pool!Look(b1) \/ Pool!BorrowCheck(b1)) /\ thread'[b1] = "idle"))
    /\ \A t \in {b1, m1, "io"} : WF_all(InPool(Pool!Refill(t)))
    /\ WF_all(InPool(Pool!TimerFires)) /\ WF_all(InPool(Pool!Tick))
    /\ \A t \in {m1, "io"} : WF_all(InPool(Pool!ScheduleNextCheck(t)))
    /\ WF_all(InPool(Pool!StartPreheat(m1))) /\ WF_all(InPool(Pool!StopCancel(m1)))
    /\ WF_all(InPool(Pool!StopClose(m1)))
    /\ \A r \in Requests : WF_all(InForwarding(ByItself(r)))
    /\ WF_all(InForwarding(Close))

FairSpec == MCSpec /\ Fairness

-----------------------------------------------------------------------------
(* A borrow ends, with a session or without, at its deadline (borrow).     *)
BorrowReturns == Pool!BorrowReturns

(* A session that dies while it is lent is forgotten, by a pool that goes  *)
(* on running (_health_check_tick).                                        *)
ZombiesForgotten == Pool!ZombiesForgotten
=============================================================================
