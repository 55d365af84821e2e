---------------------------- MODULE ReplayGuard ----------------------------
(***************************************************************************)
(* The replay guard of the sealed frames: which envelopes a side lets      *)
(* through to the cipher, and what it remembers of them.                   *)
(*                                                                         *)
(* Server (crypto.py) and page (app.js) run the same rules on what they    *)
(* receive; this is either of them, for one life of its memory.  The guard *)
(* sees two fields of an envelope, the nonce as it is spelled and the ts,  *)
(* before anything is decoded or verified: any pair may arrive, at any     *)
(* time and any number of times, whoever wrote it, and two spellings are   *)
(* two nonces to it.  The cipher is outside: it sees what got through and  *)
(* refuses what was not sealed with the key.  The guard's clock is taken   *)
(* not to run backwards; ts comes from another clock.                      *)
(***************************************************************************)
EXTENDS Integers, FiniteSets

CONSTANTS
    Nonces,      \* nonce fields, as spelled
    Stamps,      \* ts fields
    MaxAge,      \* max_age_seconds
    CacheLimit   \* 512: from here on the guard evicts

\* What the theorems about the guard take of its parameters.
GuardParameters == Stamps \subseteq Int /\ {MaxAge, CacheLimit} \subseteq Nat

VARIABLES
    now,         \* the guard's clock
    seen,        \* _seen, seenNonces: each nonce with its ts
    passed,      \* history: how often each envelope got through
    lastPassed   \* history: when one got through last, 0 before that

guardVars == <<now, seen, passed, lastPassed>>

Envelopes == [nonce : Nonces, ts : Stamps]

GuardTypeOK ==
    /\ now \in Nat
    /\ seen \subseteq Envelopes /\ IsFiniteSet(seen)
    /\ \A d, e \in seen : d.nonce = e.nonce => d = e
    /\ passed \in [Envelopes -> Nat]
    /\ lastPassed \in 0 .. now

GuardInit ==
    /\ now = 0
    /\ seen = {}
    /\ passed = [e \in Envelopes |-> 0]
    /\ lastPassed = 0

-----------------------------------------------------------------------------
Fresh(e) == e.ts \in now - MaxAge .. now + MaxAge

\* What is still remembered when another nonce is recorded.
Remembered ==
    IF Cardinality(seen) > CacheLimit THEN {e \in seen : e.ts >= now - MaxAge} ELSE seen

\* An envelope arrives and passes ReplayGuard.check (checkReplay).  One that is
\* not fresh, or whose nonce is remembered, raises and changes nothing.
Check(e) ==
    /\ Fresh(e)
    /\ \A d \in seen : d.nonce # e.nonce
    /\ seen' = Remembered \cup {e}
    /\ passed' = [passed EXCEPT ![e] = @ + 1]
    /\ lastPassed' = now
    /\ UNCHANGED now

Clock ==
    /\ now' = now + 1
    /\ UNCHANGED <<seen, passed, lastPassed>>

GuardNext == Clock \/ \E e \in Envelopes : Check(e)

GuardSpec == GuardInit /\ [][GuardNext]_guardVars

-----------------------------------------------------------------------------
(* Properties *)

\* No envelope gets through twice as it was written, however often and late it
\* comes again and whatever was evicted in between: what is evicted is by then
\* too old to pass.
PassedOnce == \A e \in Envelopes : passed[e] <= 1

\* The memory stays small: more than a limit's worth of nonces is only held as
\* far as they were all still fresh when the last one was recorded.
MemoryIsLean ==
    Cardinality(seen) > CacheLimit + 1 => \A e \in seen : e.ts >= lastPassed - MaxAge
=============================================================================
