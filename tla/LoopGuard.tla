------------------------------ MODULE LoopGuard ------------------------------
(***************************************************************************)
(* The loop guard's verdicts and bookkeeping for one undirected pair of    *)
(* agents: _PairState and the LoopGuard methods that read and write it,    *)
(* as operators on a pair's record.  A timestamp of the rate window is     *)
(* kept as its age in ticks, capped at Window: purge asks nothing else.    *)
(***************************************************************************)
EXTENDS Naturals, Sequences

CONSTANTS
    RateLimit,       \* exchanges admitted per window (mailbox_rate_limit)
    Window,          \* length of the window, in ticks
    PingPongLimit    \* exchanges without a human that latch a pair

ASSUME GuardAssumption ==
    /\ RateLimit \in Nat \ {0}
    /\ Window \in Nat \ {0}
    /\ PingPongLimit \in Nat \ {0}

PairState == [window: Seq(0 .. Window), consecutive: Nat, looping: BOOLEAN, muted: BOOLEAN]

FreshPair == [window |-> <<>>, consecutive |-> 0, looping |-> FALSE, muted |-> FALSE]

\* A variant that keeps every timestamp.
Unpurged(p) == p

\* _PairState.purge pops from the left while what it finds there is too old.
Stale(ages) ==
    CHOOSE n \in 0 .. Len(ages) :
        /\ \A i \in 1 .. n : ages[i] >= Window
        /\ n < Len(ages) => ages[n + 1] < Window
Fresh(ages) == SubSeq(ages, Stale(ages) + 1, Len(ages))
Purged(p) == [p EXCEPT !.window = Fresh(@)]

\* LoopGuard.admit, which spends nothing
Admits(p) ==
    /\ ~p.muted
    /\ ~p.looping
    /\ Len(Purged(p).window) < RateLimit

\* A variant that latches one exchange late.
TripsLate(p) == p.consecutive + 1 > PingPongLimit /\ ~p.looping

\* LoopGuard.commit, for a message that landed
Trips(p) == p.consecutive + 1 >= PingPongLimit /\ ~p.looping
Committed(p) ==
    [Purged(p) EXCEPT !.window = Append(@, 0),
                      !.consecutive = @ + 1,
                      !.looping = @ \/ Trips(p)]

\* A variant that starts the pair over, its rate window too.
HumanResetsAll(p) == [p EXCEPT !.consecutive = 0, !.looping = FALSE, !.window = <<>>]

\* LoopGuard.note_human_prompt: the loop record is cleared, the window is not
HumanSpoke(p) == [p EXCEPT !.consecutive = 0, !.looping = FALSE]

\* The clock moves by one tick.
Older(ages) == [i \in DOMAIN ages |-> IF ages[i] < Window THEN ages[i] + 1 ELSE Window]
Aged(p) == [p EXCEPT !.window = Older(@)]
=============================================================================
