----------------------------- MODULE MailboxProofs -----------------------------
(***************************************************************************)
(* The mailbox and its loop guard, for every set of sessions and senders,  *)
(* every number and length of inboxes and every limit: what they hold, the *)
(* latch, the rate window, the alert, that no owed mail is lost and that   *)
(* mail is typed once and in order.                                        *)
(***************************************************************************)
EXTENDS Mailbox, FiniteSetTheorems, WellFoundedInduction, TLAPS

-----------------------------------------------------------------------------
(* What a purge of the rate window does.  That it stops somewhere is the one   *)
(* induction of this module: a set of numbers has a least element.             *)

Ages == Seq(0 .. Window)

\* By the well-foundedness of strict inclusion among the finite sets 1 .. m.
LEMMA Least ==
    ASSUME NEW n \in Nat, NEW B \in SUBSET (0 .. n), B # {}
    PROVE  \E m \in B : \A k \in B : m <= k
<1> DEFINE S == 1 .. n
           T == {1 .. m : m \in B}
<1>1. IsFiniteSet(S)
  BY FS_Interval
<1>2. IsWellFoundedOn(StrictSubsetOrdering(S), SUBSET S)
  BY <1>1, FS_StrictSubsetOrderingWellFounded, FS_FiniteSubsetsOfFinite
<1>3. \A m \in B : (1 .. m) \in SUBSET S
  OBVIOUS
<1>4. T \subseteq SUBSET S /\ T # {}
  BY <1>3
<1>5. PICK x \in T : \A y \in T : ~ (<<y, x>> \in StrictSubsetOrdering(S))
  <2> HIDE DEF S, T
  <2>1. QED BY <1>2, <1>4, WFMin
<1>6. PICK m \in B : x = 1 .. m
  OBVIOUS
<1>7. ASSUME NEW k \in B, k < m PROVE FALSE
  <2>1. (1 .. k) \in T
    OBVIOUS
  <2>2. (1 .. k) \subseteq (1 .. m) /\ (1 .. k) # (1 .. m)
    <3>1. m \in 1 .. m /\ m \notin 1 .. k
      BY <1>7
    <3>2. QED BY <3>1, <1>7
  <2>3. <<1 .. k, 1 .. m>> \in StrictSubsetOrdering(S)
    BY <1>4, <1>6, <2>1, <2>2 DEF StrictSubsetOrdering
  <2>4. QED BY <1>5, <1>6, <2>1, <2>3
<1>8. QED BY <1>7

\* n is how many of the ages a purge pops.
Pops(ages, n) ==
    /\ n \in 0 .. Len(ages)
    /\ \A i \in 1 .. n : ages[i] >= Window
    /\ n < Len(ages) => ages[n + 1] < Window

\* Some number of pops ends with a fresh age in front, or with nothing.
LEMMA SomePops ==
    ASSUME NEW ages \in Ages
    PROVE  \E n : Pops(ages, n)
<1> USE GuardAssumption DEF Ages
<1> DEFINE B == {n \in 0 .. Len(ages) : n < Len(ages) => ages[n + 1] < Window}
<1>1. Len(ages) \in Nat /\ Len(ages) \in B /\ B \in SUBSET (0 .. Len(ages))
  OBVIOUS
<1>2. PICK m \in B : \A k \in B : m <= k
  <2> HIDE DEF B
  <2>1. QED BY <1>1, Least
<1>3. ASSUME NEW i \in 1 .. m PROVE ages[i] >= Window
  <2>1. m \in 0 .. Len(ages) /\ Len(ages) \in Nat
    BY <1>1
  <2>2. i \in 1 .. Len(ages) /\ i - 1 \in 0 .. Len(ages) /\ (i - 1) + 1 = i /\ ~ (m <= i - 1)
    BY <2>1
  <2>3. i - 1 \notin B
    BY <1>2, <2>2
  <2>4. ages[i] \in 0 .. Window
    BY <2>2
  <2>5. ~ (ages[i] < Window)
    BY <2>2, <2>3
  <2>6. QED BY <2>4, <2>5
<1>4. Pops(ages, m)
  BY <1>1, <1>3 DEF Pops
<1>5. QED BY <1>4

LEMMA StalePops ==
    ASSUME NEW ages \in Ages
    PROVE  Pops(ages, Stale(ages))
BY SomePops DEF Pops, Stale

LEMMA PopsOnce ==
    ASSUME NEW ages \in Ages, NEW n, Pops(ages, n)
    PROVE  Stale(ages) = n
<1>1. Pops(ages, Stale(ages))
  BY StalePops
<1>2. Len(ages) \in Nat /\ \A i \in 1 .. Len(ages) : ages[i] \in 0 .. Window
  BY GuardAssumption DEF Ages
<1> DEFINE m == Stale(ages)
<1> HIDE DEF m
<1>3. Pops(ages, m)
  BY <1>1 DEF m
<1>4. m \in 0 .. Len(ages) /\ n \in 0 .. Len(ages)
  BY <1>3 DEF Pops
<1>5. ASSUME m < n PROVE FALSE
  <2>1. m + 1 \in 1 .. n /\ m < Len(ages) /\ m + 1 \in 1 .. Len(ages)
    BY <1>2, <1>3, <1>4, <1>5
  <2>2. QED BY <2>1, <1>2, <1>3, GuardAssumption DEF Pops
<1>6. ASSUME n < m PROVE FALSE
  <2>1. n + 1 \in 1 .. m /\ n < Len(ages) /\ n + 1 \in 1 .. Len(ages)
    BY <1>2, <1>3, <1>4, <1>6
  <2>2. QED BY <2>1, <1>2, <1>3, GuardAssumption DEF Pops
<1>7. QED BY <1>2, <1>4, <1>5, <1>6 DEF m

LEMMA FreshIs ==
    ASSUME NEW ages \in Ages, NEW n, Pops(ages, n)
    PROVE  /\ Fresh(ages) \in Ages
           /\ Len(Fresh(ages)) = Len(ages) - n
           /\ \A i \in 1 .. Len(ages) - n : Fresh(ages)[i] = ages[n + i]
<1>1. /\ Len(ages) \in Nat /\ \A i \in 1 .. Len(ages) : ages[i] \in 0 .. Window
      /\ ages \in Seq(0 .. Window) /\ n \in 0 .. Len(ages)
  BY GuardAssumption DEF Ages, Pops
<1>2. Fresh(ages) = SubSeq(ages, n + 1, Len(ages))
  BY PopsOnce DEF Fresh
<1>3. /\ Len(Fresh(ages)) = Len(ages) - n
      /\ \A i \in 1 .. Len(ages) - n : Fresh(ages)[i] = ages[n + i]
  BY <1>1, <1>2
<1>4. Fresh(ages) \in Seq(0 .. Window)
  BY <1>1, <1>2
<1>5. QED BY <1>1, <1>3, <1>4 DEF Ages

LEMMA FreshType ==
    ASSUME NEW ages \in Ages
    PROVE  Fresh(ages) \in Ages /\ Len(Fresh(ages)) <= Len(ages)
BY StalePops, FreshIs DEF Pops, Ages

\* Nothing is popped from what begins with a fresh age.
LEMMA FreshKeeps ==
    ASSUME NEW ages \in Ages, ages # <<>> => ages[1] < Window
    PROVE  Fresh(ages) = ages
<1>1. Pops(ages, 0)
  BY DEF Pops, Ages
<1>2. QED BY <1>1, FreshIs DEF Ages

LEMMA FreshFirst ==
    ASSUME NEW ages \in Ages, Fresh(ages) # <<>>
    PROVE  Fresh(ages)[1] < Window
BY StalePops, FreshIs DEF Pops, Ages

LEMMA FreshTwice ==
    ASSUME NEW ages \in Ages
    PROVE  Fresh(Fresh(ages)) = Fresh(ages)
BY FreshType, FreshFirst, FreshKeeps

LEMMA FreshCommitted ==
    ASSUME NEW ages \in Ages
    PROVE  /\ Append(Fresh(ages), 0) \in Ages
           /\ Fresh(Append(Fresh(ages), 0)) = Append(Fresh(ages), 0)
<1> DEFINE w == Append(Fresh(ages), 0)
<1>1. w \in Ages
  BY FreshType, GuardAssumption DEF Ages
<1>2. w[1] < Window
  <2>1. CASE Fresh(ages) = <<>>
    BY <2>1, GuardAssumption
  <2>2. CASE Fresh(ages) # <<>>
    BY <2>2, FreshType, FreshFirst DEF Ages
  <2>3. QED BY <2>1, <2>2
<1>3. QED BY <1>1, <1>2, FreshKeeps

LEMMA OlderType ==
    ASSUME NEW ages \in Ages
    PROVE  /\ Older(ages) \in Ages /\ Len(Older(ages)) = Len(ages)
           /\ \A i \in 1 .. Len(ages) :
                 Older(ages)[i] = IF ages[i] < Window THEN ages[i] + 1 ELSE Window
BY GuardAssumption DEF Ages, Older

\* To purge before the clock moves or only after it makes no difference.
LEMMA FreshOlder ==
    ASSUME NEW ages \in Ages
    PROVE  Fresh(Older(Fresh(ages))) = Fresh(Older(ages))
<1> DEFINE n == Stale(ages)
           f == Fresh(ages)
           m == Stale(Older(f))
<1>1. /\ Pops(ages, n) /\ f \in Ages /\ Len(f) = Len(ages) - n
      /\ \A i \in 1 .. Len(f) : f[i] = ages[n + i]
  BY StalePops, FreshIs
<1>2. /\ Older(f) \in Ages /\ Len(Older(f)) = Len(f) /\ Pops(Older(f), m)
      /\ \A i \in 1 .. Len(f) : Older(f)[i] = IF f[i] < Window THEN f[i] + 1 ELSE Window
  BY <1>1, OlderType, StalePops
<1>3. /\ Older(ages) \in Ages /\ Len(Older(ages)) = Len(ages)
      /\ \A i \in 1 .. Len(ages) :
            Older(ages)[i] = IF ages[i] < Window THEN ages[i] + 1 ELSE Window
  BY OlderType
<1>4. Len(ages) \in Nat /\ \A i \in 1 .. Len(ages) : ages[i] \in 0 .. Window
  BY GuardAssumption DEF Ages
<1> HIDE DEF n, f, m
<1>5. n \in 0 .. Len(ages) /\ m \in 0 .. Len(f) /\ Len(f) \in Nat
  BY <1>1, <1>2, <1>4 DEF Pops
<1>6. \A i \in 1 .. Len(f) : Older(f)[i] = Older(ages)[n + i]
  BY <1>1, <1>2, <1>3, <1>4, <1>5
<1>7. Pops(Older(ages), n + m)
  <2>1. ASSUME NEW i \in 1 .. n + m PROVE Older(ages)[i] >= Window
    <3>1. CASE i <= n
      BY <3>1, <1>1, <1>3, <1>4, <1>5, GuardAssumption DEF Pops
    <3>2. CASE i > n
      <4>1. i - n \in 1 .. m /\ n + (i - n) = i
        BY <3>2, <1>5
      <4>2. i - n \in 1 .. Len(f) /\ Older(f)[i - n] >= Window
        BY <4>1, <1>2, <1>5 DEF Pops
      <4>3. QED BY <4>1, <4>2, <1>6
    <3>3. QED BY <3>1, <3>2, <1>5
  <2>2. ASSUME n + m < Len(ages) PROVE Older(ages)[n + m + 1] < Window
    <3>1. m + 1 \in 1 .. Len(f) /\ m < Len(f) /\ n + (m + 1) = n + m + 1
      BY <2>2, <1>1, <1>4, <1>5
    <3>2. QED BY <3>1, <1>2, <1>6 DEF Pops
  <2>3. n + m \in 0 .. Len(Older(ages))
    BY <1>1, <1>3, <1>4, <1>5
  <2>4. QED BY <2>1, <2>2, <2>3, <1>3 DEF Pops
<1>8. /\ Len(Fresh(Older(f))) = Len(f) - m
      /\ \A i \in 1 .. Len(f) - m : Fresh(Older(f))[i] = Older(f)[m + i]
      /\ Fresh(Older(f)) \in Ages
  BY <1>2, FreshIs
<1>9. /\ Len(Fresh(Older(ages))) = Len(ages) - (n + m)
      /\ \A i \in 1 .. Len(ages) - (n + m) : Fresh(Older(ages))[i] = Older(ages)[(n + m) + i]
      /\ Fresh(Older(ages)) \in Ages
  BY <1>3, <1>7, FreshIs
<1>10. Len(f) - m = Len(ages) - (n + m)
  BY <1>1, <1>4, <1>5
<1>11. ASSUME NEW i \in 1 .. Len(f) - m PROVE Fresh(Older(f))[i] = Fresh(Older(ages))[i]
  <2>1. m + i \in 1 .. Len(f) /\ n + (m + i) = (n + m) + i
    BY <1>5
  <2>2. QED BY <2>1, <1>6, <1>8, <1>9, <1>10
<1>12. QED BY <1>8, <1>9, <1>10, <1>11 DEF f, Ages

-----------------------------------------------------------------------------
TypeInv == TypeOK /\ (AtLine => Polling)

LEMMA PairTypes ==
    ASSUME NEW p \in PairState
    PROVE  /\ Purged(p) \in PairState
           /\ Committed(p) \in PairState
           /\ Aged(p) \in PairState
           /\ HumanSpoke(p) \in PairState
           /\ \A on \in BOOLEAN : [p EXCEPT !.muted = on] \in PairState
<1> USE GuardAssumption
<1>1. /\ p.window \in Ages /\ p.consecutive \in Nat /\ p.looping \in BOOLEAN /\ p.muted \in BOOLEAN
      /\ p = [window |-> p.window, consecutive |-> p.consecutive, looping |-> p.looping, muted |-> p.muted]
  BY DEF PairState, Ages
<1>2. /\ Fresh(p.window) \in Ages /\ Append(Fresh(p.window), 0) \in Ages /\ Older(p.window) \in Ages
  BY <1>1, FreshType, FreshCommitted, OlderType
<1>3. Purged(p) = [window |-> Fresh(p.window), consecutive |-> p.consecutive,
                   looping |-> p.looping, muted |-> p.muted]
  BY <1>1 DEF Purged
<1>4. Committed(p) = [[[Purged(p) EXCEPT !.window = Append(@, 0)]
                          EXCEPT !.consecutive = @ + 1]
                          EXCEPT !.looping = @ \/ Trips(p)]
  BY DEF Committed
<1>5. Aged(p) = [window |-> Older(p.window), consecutive |-> p.consecutive,
                 looping |-> p.looping, muted |-> p.muted]
  BY <1>1 DEF Aged
<1>6. Purged(p) \in PairState /\ Aged(p) \in PairState
  BY <1>1, <1>2, <1>3, <1>5 DEF PairState, Ages
<1>7. Committed(p) \in PairState
  <2> DEFINE q == [Purged(p) EXCEPT !.window = Append(@, 0)]
             r == [q EXCEPT !.consecutive = @ + 1]
  <2>1. Append(Purged(p).window, 0) \in Seq(0 .. Window)
    BY <1>2, <1>3 DEF Ages
  <2>2. q \in PairState
    BY <2>1, <1>6 DEF PairState
  <2> HIDE DEF q
  <2>3. q.consecutive + 1 \in Nat
    BY <2>2 DEF PairState
  <2>4. r \in PairState
    BY <2>2, <2>3 DEF PairState
  <2> HIDE DEF r
  <2>5. [r EXCEPT !.looping = @ \/ Trips(p)] \in PairState
    BY <2>4, Zenon DEF PairState
  <2>6. QED BY <1>4, <2>5 DEF q, r
<1>8. HumanSpoke(p) \in PairState
  BY DEF HumanSpoke, PairState
<1>9. \A on \in BOOLEAN : [p EXCEPT !.muted = on] \in PairState
  BY DEF PairState
<1>10. QED BY <1>6, <1>7, <1>8, <1>9

LEMMA PairIsOne ==
    ASSUME NEW a \in Senders, NEW s \in Sessions
    PROVE  Pair(a, s) \in Pairs
BY DEF Pairs

LEMMA InitTypes == Init => TypeInv
<1> SUFFICES ASSUME Init PROVE TypeInv
  OBVIOUS
<1> USE BoundsAssumption, GuardAssumption
<1>1. <<>> \in Seq(0 .. Window)
  OBVIOUS
<1>2. FreshPair \in PairState
  BY <1>1 DEF FreshPair, PairState
<1>3. poll \in [at: Nat, session: 0 .. Len(sessions), batch: Seq(Lines), looped: SUBSET Pairs]
  BY DEF Init, Idle
<1>4. /\ sessions \in Seq(Sessions) /\ up \in SUBSET Sessions
       /\ inbox \in [Sessions -> Seq(Lines)] /\ half \in [Sessions -> Messages \cup {NoLine}]
       /\ sight \in [Sessions -> Sights] /\ pos \in [Sessions -> Nat]
  BY DEF Init, Sights
<1>5. /\ pairs \in [Pairs -> PairState] /\ recent \in [Pairs -> Seq(0 .. Window)]
       /\ streak \in [Pairs -> Nat] /\ alerted \in SUBSET Pairs
  BY <1>1, <1>2 DEF Init
<1>6. /\ sent \in 0 .. MaxMessages /\ owed \in [Sessions -> SUBSET Messages]
       /\ typed \in [Sessions -> SUBSET Ids] /\ again \in SUBSET Ids
  BY DEF Init
<1>7. TypeOK
  BY <1>3, <1>4, <1>5, <1>6 DEF TypeOK
<1>8. ~AtLine
  BY DEF Init, AtLine, Idle
<1>9. QED BY <1>7, <1>8 DEF TypeInv

\* Where the poll stands, and what it does there.
LEMMA Here ==
    ASSUME TypeInv, Polling
    PROVE  Current \in Sessions /\ poll.session \in 1 .. Len(sessions)
BY DEF TypeInv, TypeOK, Polling, Current

PollType(p) ==
    /\ p \in [at: Nat, session: 0 .. Len(sessions), batch: Seq(Lines), looped: SUBSET Pairs]
    /\ p.batch # <<>> => p.session # 0

LEMMA LeaveTypes ==
    ASSUME TypeInv, Polling, NEW looped \in SUBSET Pairs, Leave(looped)
    PROVE  PollType(poll') /\ alerted' \in SUBSET Pairs
<1>1. poll.session \in 1 .. Len(sessions) /\ alerted \in SUBSET Pairs /\ Len(sessions) \in Nat
  BY Here DEF TypeInv, TypeOK
<1>2. CASE poll.session < Len(sessions)
  <2>1. /\ poll' = [at |-> 0, session |-> poll.session + 1, batch |-> <<>>, looped |-> looped]
        /\ alerted' = alerted
    BY <1>2 DEF Leave, Idle
  <2>2. QED BY <1>1, <1>2, <2>1 DEF PollType
<1>3. CASE ~(poll.session < Len(sessions))
  <2>1. /\ poll' = [at |-> 0, session |-> 0, batch |-> <<>>, looped |-> {}]
        /\ alerted' = alerted \cup looped
    BY <1>3 DEF Leave, Idle
  <2>2. QED BY <1>1, <2>1 DEF PollType
<1>4. QED BY <1>2, <1>3

LEMMA AdvanceTypes ==
    ASSUME TypeInv, AtLine, NEW looped \in SUBSET Pairs, Advance(looped)
    PROVE  PollType(poll') /\ alerted' \in SUBSET Pairs /\ pos' \in [Sessions -> Nat]
<1>1. /\ Polling /\ Current \in Sessions /\ alerted \in SUBSET Pairs /\ pos \in [Sessions -> Nat]
      /\ poll.session \in 1 .. Len(sessions) /\ poll.at \in Nat /\ poll.batch \in Seq(Lines)
      /\ poll = [at |-> poll.at, session |-> poll.session, batch |-> poll.batch, looped |-> poll.looped]
  BY Here DEF TypeInv, TypeOK
<1>2. NextLine \in Nat
  BY <1>1 DEF NextLine
<1>3. CASE Len(poll.batch) > 1
  <2>1. poll' = [at |-> NextLine, session |-> poll.session, batch |-> Tail(poll.batch), looped |-> looped]
    BY <1>1, <1>3 DEF Advance
  <2>2. Tail(poll.batch) \in Seq(Lines)
    BY <1>1, <1>3
  <2>3. QED BY <1>1, <1>2, <1>3, <2>1, <2>2 DEF Advance, PollType
<1>4. CASE ~(Len(poll.batch) > 1)
  <2>1. pos' = [pos EXCEPT ![Current] = NextLine] /\ Leave(looped)
    BY <1>4 DEF Advance
  <2>2. QED BY <1>1, <1>2, <2>1, LeaveTypes
<1>5. QED BY <1>3, <1>4

-----------------------------------------------------------------------------
(* The type invariant in parts that the actions leave alone *)

FileType ==
    /\ inbox \in [Sessions -> Seq(Lines)]
    /\ half \in [Sessions -> Messages \cup {NoLine}]
    /\ sent \in 0 .. MaxMessages
    /\ owed \in [Sessions -> SUBSET Messages]

ReadType ==
    /\ sessions \in Seq(Sessions)
    /\ sight \in [Sessions -> Sights]
    /\ pos \in [Sessions -> Nat]
    /\ PollType(poll)

GuardType ==
    /\ pairs \in [Pairs -> PairState]
    /\ recent \in [Pairs -> Ages]
    /\ streak \in [Pairs -> Nat]

OtherType ==
    /\ up \in SUBSET Sessions
    /\ typed \in [Sessions -> SUBSET Ids]
    /\ again \in SUBSET Ids
    /\ alerted \in SUBSET Pairs

LEMMA TypeParts ==
    /\ TypeInv <=> FileType /\ ReadType /\ GuardType /\ OtherType
    /\ TypeInv' <=> FileType' /\ ReadType' /\ GuardType' /\ OtherType'
<1>1. TypeInv <=> FileType /\ ReadType /\ GuardType /\ OtherType
  <2>1. (AtLine => Polling) <=> (poll.batch # <<>> => poll.session # 0)
    BY DEF AtLine, Polling
  <2>2. QED
    BY <2>1, Zenon DEF TypeInv, TypeOK, FileType, ReadType, GuardType, OtherType, PollType, Ages
<1>2. TypeInv' <=> FileType' /\ ReadType' /\ GuardType' /\ OtherType'
  <2>1. (AtLine' => Polling') <=> (poll'.batch # <<>> => poll'.session # 0)
    BY DEF AtLine, Polling
  <2>2. QED
    BY <2>1, Zenon DEF TypeInv, TypeOK, FileType, ReadType, GuardType, OtherType, PollType, Ages
<1>3. QED BY <1>1, <1>2

LEMMA FileTypeKept ==
    FileType /\ UNCHANGED fileVars => FileType'
BY DEF FileType, fileVars

LEMMA ReadTypeKept ==
    ReadType /\ UNCHANGED <<sessions, sight, pos, poll>> => ReadType'
BY DEF ReadType, PollType

LEMMA GuardTypeKept ==
    GuardType /\ UNCHANGED <<pairs, recent, streak>> => GuardType'
BY DEF GuardType

LEMMA OtherTypeKept ==
    OtherType /\ UNCHANGED <<up, typed, again, alerted>> => OtherType'
BY DEF OtherType

LEMMA NewMailTypes ==
    ASSUME TypeInv, NEW a \in Senders, NEW s \in Sessions, sent < MaxMessages
    PROVE  NewMail(a, s) \in Messages /\ sent + 1 \in 0 .. MaxMessages
BY BoundsAssumption DEF TypeInv, TypeOK, NewMail, Messages, Ids

LEMMA WritersTypes ==
    ASSUME TypeInv, NEW s \in Sessions,
           \/ \E a \in Senders : Send(a, s) \/ SendHalf(a, s)
           \/ SendRest(s) \/ Stray(s) \/ Cut(s)
    PROVE  TypeInv'
<1>1. FileType /\ ReadType /\ GuardType /\ OtherType
  BY TypeParts
<1>2. FileType'
  <2>1. ASSUME NEW l \in Lines PROVE Append(inbox[s], l) \in Seq(Lines)
    BY <1>1 DEF FileType
  <2>2. Garbage \in Lines /\ (half[s] # NoLine => half[s] \in Messages /\ half[s] \in Lines)
    BY <1>1 DEF FileType, Lines
  <2>3. CASE \E a \in Senders : Send(a, s)
    <3>1. PICK a \in Senders : Send(a, s)
      BY <2>3
    <3>2. NewMail(a, s) \in Messages /\ NewMail(a, s) \in Lines /\ sent + 1 \in 0 .. MaxMessages
      BY <3>1, NewMailTypes DEF Send, Lines
    <3>3. CASE half[s] = NoLine
      <4>1. /\ inbox' = [inbox EXCEPT ![s] = Append(@, NewMail(a, s))]
            /\ owed' = [owed EXCEPT ![s] = @ \cup {NewMail(a, s)}]
            /\ UNCHANGED half /\ sent' = sent + 1
        BY <3>1, <3>3 DEF Send
      <4>2. Append(inbox[s], NewMail(a, s)) \in Seq(Lines)
        BY <2>1, <3>2
      <4>3. QED BY <1>1, <3>2, <4>1, <4>2 DEF FileType
    <3>4. CASE half[s] # NoLine
      BY <1>1, <2>1, <2>2, <3>1, <3>2, <3>4 DEF Send, FileType
    <3>5. QED BY <3>3, <3>4
  <2>4. CASE \E a \in Senders : SendHalf(a, s)
    BY <1>1, <2>4, NewMailTypes DEF SendHalf, FileType
  <2>5. CASE SendRest(s)
    BY <1>1, <2>1, <2>2, <2>5 DEF SendRest, FileType
  <2>6. CASE Stray(s)
    BY <1>1, <2>1, <2>2, <2>6 DEF Stray, FileType
  <2>7. CASE Cut(s)
    BY <1>1, <2>7 DEF Cut, FileType
  <2>8. QED BY <2>3, <2>4, <2>5, <2>6, <2>7
<1>3. UNCHANGED <<sessions, pos, poll, up, guardVars, typedVars>>
  BY DEF Send, SendHalf, SendRest, Stray, Cut
<1>4. sight' \in [Sessions -> Sights]
  BY <1>1 DEF ReadType, Sights, Send, SendHalf, SendRest, Stray, Cut
<1>5. ReadType'
  BY <1>1, <1>3, <1>4 DEF ReadType, PollType
<1>6. GuardType' /\ OtherType'
  BY <1>1, <1>3, GuardTypeKept, OtherTypeKept DEF guardVars, typedVars
<1>7. QED BY <1>2, <1>5, <1>6, TypeParts

\* Going on to the next session, from wherever the poll is.
LEMMA LeaveStep ==
    ASSUME TypeInv, Polling, NEW looped \in SUBSET Pairs, Leave(looped),
           UNCHANGED <<sessions, up, fileVars, recent, streak, typedVars>>,
           sight' \in [Sessions -> Sights], pos' \in [Sessions -> Nat],
           pairs' \in [Pairs -> PairState]
    PROVE  TypeInv'
<1>1. FileType /\ ReadType /\ GuardType /\ OtherType
  BY TypeParts
<1>2. PollType(poll') /\ alerted' \in SUBSET Pairs
  BY LeaveTypes
<1>3. ReadType'
  BY <1>1, <1>2 DEF ReadType, PollType
<1>4. GuardType' /\ OtherType'
  BY <1>1, <1>2 DEF GuardType, OtherType, typedVars
<1>5. QED BY <1>1, <1>3, <1>4, FileTypeKept, TypeParts

LEMMA LineTypes ==
    ASSUME TypeInv, AtLine
    PROVE  /\ Polling /\ Current \in Sessions /\ Line \in Lines
           /\ poll.at \in Nat /\ NextLine \in Nat
           /\ Readable => Line \in Messages /\ LinePair \in Pairs
<1>1. /\ Polling /\ Current \in Sessions /\ poll.at \in Nat /\ poll.batch \in Seq(Lines)
  BY Here DEF TypeInv, TypeOK
<1>2. Line \in Lines
  BY <1>1 DEF AtLine, Line
<1>3. NextLine \in Nat
  BY <1>1 DEF NextLine
<1>4. Readable => Line \in Messages
  BY <1>2 DEF Readable, Lines
<1>5. ASSUME Line \in Messages PROVE LinePair \in Pairs
  <2>1. Line.from \in Senders
    BY <1>5 DEF Messages
  <2>2. QED BY <1>1, <2>1, PairIsOne DEF LinePair
<1>6. QED BY <1>1, <1>2, <1>3, <1>4, <1>5

LEMMA PollTypes ==
    ASSUME TypeInv, Poll
    PROVE  TypeInv'
<1>1. FileType /\ ReadType /\ GuardType /\ OtherType
  BY TypeParts
<1>2. /\ sight \in [Sessions -> Sights] /\ pos \in [Sessions -> Nat]
      /\ pairs \in [Pairs -> PairState] /\ poll.looped \in SUBSET Pairs
  BY <1>1 DEF ReadType, PollType, GuardType
<1>3. ASSUME UNCHANGED <<sessions, sight, pos, up, fileVars, recent, streak, typedVars, alerted>>,
             pairs' \in [Pairs -> PairState], PollType(poll')
      PROVE  TypeInv'
  <2>1. ReadType'
    BY <1>1, <1>3 DEF ReadType, PollType
  <2>2. GuardType' /\ OtherType'
    BY <1>1, <1>3 DEF GuardType, OtherType, typedVars
  <2>3. QED BY <1>1, <1>3, <2>1, <2>2, FileTypeKept, TypeParts
<1>4. CASE PollBegins
  <2>1. /\ poll' = [at |-> 0, session |-> 1, batch |-> <<>>, looped |-> {}]
        /\ sessions # <<>> /\ sessions \in Seq(Sessions)
    BY <1>1, <1>4 DEF PollBegins, Idle, ReadType
  <2>2. PollType(poll')
    BY <2>1 DEF PollType
  <2>3. QED BY <1>2, <1>3, <1>4, <2>2 DEF PollBegins, guardVars
<1>5. CASE NoInbox \/ NothingComplete
  BY <1>2, <1>5, LeaveStep DEF NoInbox, NothingComplete, Opening
<1>6. CASE Resync
  <2>1. FileSize(Current) \in Nat
    BY <1>1, <1>6, Here DEF FileType, FileSize, Resync, Opening
  <2>2. sight' \in [Sessions -> Sights] /\ pos' \in [Sessions -> Nat]
    BY <1>2, <1>6, <2>1 DEF Resync, Sights
  <2>3. QED BY <1>2, <1>6, <2>2, LeaveStep DEF Resync, Opening
<1>7. CASE ReadBatch
  <2>1. /\ Polling /\ Current \in Sessions
        /\ poll' = [poll EXCEPT !.batch = Unread(Current), !.at = pos[Current]]
    BY <1>7, Here DEF ReadBatch, Opening
  <2>2. inbox[Current] \in Seq(Lines) /\ pos[Current] \in Nat /\ pos[Current] \div 2 \in Nat
    BY <1>1, <1>2, <2>1 DEF FileType
  <2>3. Unread(Current) \in Seq(Lines)
    BY <2>2 DEF Unread
  <2>4. poll' = [at |-> pos[Current], session |-> poll.session, batch |-> Unread(Current),
                 looped |-> poll.looped]
    BY <1>1, <2>1 DEF ReadType, PollType
  <2>5. PollType(poll')
    BY <1>1, <2>1, <2>2, <2>3, <2>4 DEF ReadType, PollType, Polling
  <2>6. QED BY <1>2, <1>3, <1>7, <2>5 DEF ReadBatch, guardVars
<1>8. CASE DropLine
  <2>1. PollType(poll') /\ alerted' \in SUBSET Pairs /\ pos' \in [Sessions -> Nat]
    BY <1>2, <1>8, AdvanceTypes DEF DropLine
  <2>2. ReadType' /\ GuardType' /\ OtherType'
    BY <1>1, <1>8, <2>1 DEF DropLine, ReadType, PollType, GuardType, OtherType, typedVars
  <2>3. QED BY <1>1, <1>8, <2>2, FileTypeKept, TypeParts DEF DropLine
<1>9. ASSUME NEW k, pairs' = [pairs EXCEPT ![k] = Purged(@)]
      PROVE  pairs' \in [Pairs -> PairState]
  BY <1>2, <1>9, PairTypes
<1>10. CASE HoldLine \/ Refused
  <2>1. /\ Polling /\ Leave(poll.looped) /\ pos' = [pos EXCEPT ![Current] = poll.at]
        /\ poll.at \in Nat
        /\ UNCHANGED <<sessions, up, sight, fileVars, recent, streak, typedVars>>
    BY <1>10, LineTypes DEF HoldLine, Refused, HoldRest
  <2>2. pos' \in [Sessions -> Nat]
    BY <1>2, <2>1
  <2>3. pairs' \in [Pairs -> PairState]
    BY <1>9, <1>10 DEF HoldLine, Refused
  <2>4. QED BY <1>2, <2>1, <2>2, <2>3, LeaveStep
<1>11. CASE InjectRaises
  <2>1. pairs' \in [Pairs -> PairState]
    BY <1>9, <1>11 DEF InjectRaises
  <2>2. PollType(poll')
    BY <1>1, <1>11 DEF InjectRaises, Idle, PollType, ReadType
  <2>3. QED BY <1>3, <1>11, <2>1, <2>2 DEF InjectRaises
<1>12. CASE TypeLine
  <2>1. AtLine /\ Readable /\ Line \in Messages /\ LinePair \in Pairs /\ Current \in Sessions
    BY <1>12, LineTypes DEF TypeLine
  <2>2. Line.id \in Ids
    BY <2>1 DEF Messages
  <2>3. typed' \in [Sessions -> SUBSET Ids] /\ again' \in SUBSET Ids
    BY <1>1, <1>12, <2>2 DEF TypeLine, OtherType
  <2>4. pairs' \in [Pairs -> PairState]
    BY <1>2, <1>12, <2>1, PairTypes DEF TypeLine
  <2>5. Append(recent[LinePair], 0) \in Ages
    BY <1>1, <2>1, GuardAssumption DEF GuardType, Ages
  <2>6. recent' \in [Pairs -> Ages] /\ streak' \in [Pairs -> Nat]
    BY <1>1, <1>12, <2>1, <2>5 DEF TypeLine, GuardType
  <2>7. PICK looped \in SUBSET Pairs : Advance(looped)
    BY <1>2, <1>12, <2>1 DEF TypeLine
  <2>8. PollType(poll') /\ alerted' \in SUBSET Pairs /\ pos' \in [Sessions -> Nat]
    BY <2>1, <2>7, AdvanceTypes
  <2>9. ReadType' /\ GuardType' /\ OtherType'
    BY <1>1, <1>12, <2>3, <2>4, <2>6, <2>8 DEF TypeLine, ReadType, PollType, GuardType, OtherType
  <2>10. QED BY <1>1, <1>12, <2>9, FileTypeKept, TypeParts DEF TypeLine
<1>13. QED BY <1>4, <1>5, <1>6, <1>7, <1>8, <1>10, <1>11, <1>12 DEF Poll

LEMMA StepTypes == TypeInv /\ [Next]_vars => TypeInv'
<1> SUFFICES ASSUME TypeInv, [Next]_vars PROVE TypeInv'
  OBVIOUS
<1>1. FileType /\ ReadType /\ GuardType /\ OtherType
  BY TypeParts
<1>2. CASE UNCHANGED vars
  BY <1>1, <1>2, FileTypeKept, ReadTypeKept, GuardTypeKept, OtherTypeKept, TypeParts
  DEF vars, guardVars, typedVars
<1>3. ASSUME NEW s \in Sessions,
             \/ \E a \in Senders : Send(a, s) \/ SendHalf(a, s)
             \/ SendRest(s) \/ Stray(s) \/ Cut(s)
      PROVE  TypeInv'
  BY <1>3, WritersTypes
<1>4. ASSUME NEW s \in Sessions, Register(s) PROVE TypeInv'
  <2>1. /\ sessions \in Seq(Sessions) /\ sessions' = Append(sessions, s) /\ up' = up \cup {s}
        /\ UNCHANGED <<sight, pos, poll, fileVars, guardVars, typedVars>>
    BY <1>1, <1>4 DEF Register, ReadType
  <2>2. sessions' \in Seq(Sessions) /\ Len(sessions') = Len(sessions) + 1
    BY <2>1
  <2>3. PollType(poll)'
    BY <1>1, <2>1, <2>2 DEF ReadType, PollType
  <2>4. ReadType' /\ OtherType'
    BY <1>1, <2>1, <2>2, <2>3 DEF ReadType, OtherType, guardVars, typedVars
  <2>5. QED BY <1>1, <2>1, <2>4, FileTypeKept, GuardTypeKept, TypeParts DEF guardVars
<1>5. ASSUME NEW s \in Sessions, HumanPrompt(s) PROVE TypeInv'
  <2>1. pairs' \in [Pairs -> PairState]
    BY <1>1, <1>5, PairTypes DEF HumanPrompt, GuardType
  <2>2. GuardType' /\ OtherType'
    BY <1>1, <1>5, <2>1 DEF HumanPrompt, GuardType, OtherType, typedVars
  <2>3. QED BY <1>1, <1>5, <2>2, FileTypeKept, ReadTypeKept, TypeParts DEF HumanPrompt
<1>6. ASSUME NEW s \in Sessions, Terminal(s) PROVE TypeInv'
  <2>1. OtherType'
    BY <1>1, <1>6 DEF Terminal, OtherType, guardVars, typedVars
  <2>2. QED BY <1>1, <1>6, <2>1, FileTypeKept, ReadTypeKept, GuardTypeKept, TypeParts
            DEF Terminal, guardVars
<1>7. ASSUME NEW k \in Pairs, NEW on \in BOOLEAN, Mute(k, on) PROVE TypeInv'
  <2>1. pairs' \in [Pairs -> PairState]
    BY <1>1, <1>7, PairTypes DEF Mute, GuardType
  <2>2. GuardType' /\ OtherType'
    BY <1>1, <1>7, <2>1 DEF Mute, GuardType, OtherType, typedVars
  <2>3. QED BY <1>1, <1>7, <2>2, FileTypeKept, ReadTypeKept, TypeParts DEF Mute
<1>8. CASE Tick
  <2>1. \A k \in Pairs : Aged(pairs[k]) \in PairState /\ Fresh(Older(recent[k])) \in Ages
    BY <1>1, PairTypes, OlderType, FreshType DEF GuardType
  <2>2. GuardType' /\ OtherType'
    BY <1>1, <1>8, <2>1 DEF Tick, GuardType, OtherType, typedVars
  <2>3. QED BY <1>1, <1>8, <2>2, FileTypeKept, ReadTypeKept, TypeParts DEF Tick
<1>9. CASE Poll
  BY <1>9, PollTypes
<1>10. QED BY <1>2, <1>3, <1>4, <1>5, <1>6, <1>7, <1>8, <1>9 DEF Next

\* Whatever writers, humans, terminals and the clock do between two lines of a
\* poll: offsets and batches of poll_inboxes, the guard's records and the files
\* stay what they should be, and the poll stands at a registered session.
THEOREM MailboxTypes == Spec => []TypeOK
<1>1. TypeInv => TypeOK
  BY DEF TypeInv
<1>2. QED BY InitTypes, StepTypes, <1>1, PTL DEF Spec

-----------------------------------------------------------------------------
(* The latch.  It depends on the counter alone, whatever the window holds.     *)

\* A pair's record has its four fields.
Fields == {"window", "consecutive", "looping", "muted"}
Shaped(p) == DOMAIN p = Fields

\* Of each pair: the guard's counter is the number of exchanges since a human
\* spoke, it never passes the limit, and reaching it is being latched.
PairLatch(p, n) ==
    /\ Shaped(p)
    /\ n \in Nat
    /\ p.consecutive = n
    /\ n <= PingPongLimit
    /\ p.looping \in BOOLEAN
    /\ p.looping <=> n = PingPongLimit

LatchInv ==
    /\ DOMAIN pairs = Pairs
    /\ DOMAIN streak = Pairs
    /\ \A k \in Pairs : PairLatch(pairs[k], streak[k])

-----------------------------------------------------------------------------
(* What each method of the guard does to one pair *)

LEMMA FreshLatch == PairLatch(FreshPair, 0)
BY GuardAssumption DEF PairLatch, Shaped, Fields, FreshPair

\* purge only touches the window.
LEMMA PurgeKeepsLatch ==
    ASSUME NEW p, NEW n, PairLatch(p, n)
    PROVE  PairLatch(Purged(p), n)
BY DEF PairLatch, Shaped, Fields, Purged

\* So does the clock.
LEMMA AgeKeepsLatch ==
    ASSUME NEW p, NEW n, PairLatch(p, n)
    PROVE  PairLatch(Aged(p), n)
BY DEF PairLatch, Shaped, Fields, Aged

LEMMA MuteKeepsLatch ==
    ASSUME NEW p, NEW n, NEW on, PairLatch(p, n)
    PROVE  PairLatch([p EXCEPT !.muted = on], n)
BY DEF PairLatch, Shaped, Fields

\* note_human_prompt unlatches and starts counting again.
LEMMA HumanUnlatches ==
    ASSUME NEW p, NEW n, PairLatch(p, n)
    PROVE  PairLatch(HumanSpoke(p), 0)
BY GuardAssumption DEF PairLatch, Shaped, Fields, HumanSpoke

\* commit after admit: an admitted exchange is not the first past the limit,
\* and the one that reaches the limit latches.
LEMMA CommitLatches ==
    ASSUME NEW p, NEW n, PairLatch(p, n), Admits(p)
    PROVE  PairLatch(Committed(p), n + 1)
<1>1. n < PingPongLimit /\ p.looping = FALSE
  BY GuardAssumption DEF PairLatch, Admits
<1>2. Trips(p) <=> n + 1 = PingPongLimit
  BY <1>1, GuardAssumption DEF PairLatch, Trips
<1>3. /\ Shaped(Committed(p))
      /\ Committed(p).consecutive = n + 1
      /\ Committed(p).looping = (FALSE \/ Trips(p))
  BY <1>1 DEF PairLatch, Shaped, Fields, Committed, Purged
<1>4. Committed(p).looping \in BOOLEAN /\ (Committed(p).looping <=> Trips(p))
  BY <1>3
<1>5. QED BY <1>1, <1>2, <1>3, <1>4, GuardAssumption DEF PairLatch

-----------------------------------------------------------------------------
LEMMA InitLatch == Init => LatchInv
BY FreshLatch DEF Init, LatchInv

\* Purging the record of the line's pair, on the paths that type nothing.
LEMMA PurgeStep ==
    ASSUME LatchInv, NEW k, pairs' = [pairs EXCEPT ![k] = Purged(@)], UNCHANGED streak
    PROVE  LatchInv'
BY PurgeKeepsLatch DEF LatchInv

LEMMA TypeStep ==
    ASSUME LatchInv, TypeLine
    PROVE  LatchInv'
<1> DEFINE k == LinePair
<1>1. /\ Admits(pairs[k])
      /\ pairs' = [pairs EXCEPT ![k] = Committed(@)]
      /\ streak' = [streak EXCEPT ![k] = @ + 1]
  BY DEF TypeLine
<1> HIDE DEF k
<1>2. CASE k \in Pairs
  <2>1. PairLatch(Committed(pairs[k]), streak[k] + 1)
    BY <1>1, <1>2, CommitLatches DEF LatchInv
  <2>2. QED BY <1>1, <1>2, <2>1 DEF LatchInv
<1>3. CASE k \notin Pairs
  BY <1>1, <1>3 DEF LatchInv
<1>4. QED BY <1>2, <1>3

LEMMA StepLatch == LatchInv /\ [Next]_vars => LatchInv'
<1> SUFFICES ASSUME LatchInv, [Next]_vars PROVE LatchInv'
  OBVIOUS
<1>1. ASSUME UNCHANGED <<pairs, streak>> PROVE LatchInv'
  BY <1>1 DEF LatchInv
<1>2. ASSUME NEW s \in Sessions, HumanPrompt(s) PROVE LatchInv'
  BY <1>2, HumanUnlatches DEF HumanPrompt, LatchInv
<1>3. ASSUME NEW k \in Pairs, NEW on \in BOOLEAN, Mute(k, on) PROVE LatchInv'
  BY <1>3, MuteKeepsLatch DEF Mute, LatchInv
<1>4. CASE Tick
  BY <1>4, AgeKeepsLatch DEF Tick, LatchInv
<1>5. CASE Poll
  <2>1. CASE HoldLine \/ Refused \/ InjectRaises
    BY <2>1, PurgeStep DEF HoldLine, Refused, InjectRaises
  <2>2. CASE TypeLine
    BY <2>2, TypeStep
  <2>3. CASE PollBegins \/ NoInbox \/ Resync \/ NothingComplete \/ ReadBatch \/ DropLine
    BY <2>3, <1>1
    DEF PollBegins, NoInbox, Resync, NothingComplete, ReadBatch, DropLine, guardVars
  <2>4. QED BY <1>5, <2>1, <2>2, <2>3 DEF Poll
<1>6. ASSUME NEW s \in Sessions,
             \/ \E a \in Senders : Send(a, s) \/ SendHalf(a, s)
             \/ SendRest(s) \/ Stray(s) \/ Cut(s) \/ Register(s) \/ Terminal(s)
      PROVE  LatchInv'
  BY <1>6, <1>1 DEF Send, SendHalf, SendRest, Stray, Cut, Register, Terminal, guardVars
<1>7. CASE UNCHANGED vars
  BY <1>7, <1>1 DEF vars, guardVars
<1>8. QED BY <1>2, <1>3, <1>4, <1>5, <1>6, <1>7 DEF Next

\* A pair is latched exactly when it has exchanged PingPongLimit messages with
\* no human in between, and it never exchanges one more: whatever is held,
\* refused, muted, re-polled or raised meanwhile.
THEOREM LatchIsExact == Spec => []LatchHolds
<1>1. LatchInv => LatchHolds
  BY DEF LatchInv, PairLatch, LatchHolds
<1>2. QED BY InitLatch, StepLatch, <1>1, PTL DEF Spec

-----------------------------------------------------------------------------
(* The rate window.  The guard purges a pair's window only when a message of   *)
(* the pair is looked at; the history drops what is too old at every tick.  At *)
(* any time a purge would make them the same.                                  *)

RateInv == \A k \in Pairs : recent[k] = Fresh(pairs[k].window) /\ Len(recent[k]) <= RateLimit

LEMMA WindowOf ==
    ASSUME NEW p \in PairState
    PROVE  /\ p.window \in Ages
           /\ Purged(p).window = Fresh(p.window)
           /\ Committed(p).window = Append(Fresh(p.window), 0)
           /\ Aged(p).window = Older(p.window)
           /\ HumanSpoke(p).window = p.window
           /\ \A on : [p EXCEPT !.muted = on].window = p.window
BY DEF PairState, Ages, Purged, Committed, Aged, HumanSpoke

LEMMA InitRate == Init => RateInv
<1> SUFFICES ASSUME Init PROVE RateInv
  OBVIOUS
<1>1. <<>> \in Ages
  BY DEF Ages
<1>2. Fresh(<<>>) = <<>>
  BY <1>1, FreshKeeps
<1>3. QED BY <1>2, GuardAssumption DEF Init, RateInv, FreshPair

LEMMA StepRate == TypeInv /\ RateInv /\ [Next]_vars => RateInv'
<1> SUFFICES ASSUME TypeInv, RateInv, [Next]_vars PROVE RateInv'
  OBVIOUS
<1>1. GuardType
  BY TypeParts
<1>2. ASSUME NEW k \in Pairs
      PROVE  /\ pairs[k] \in PairState /\ pairs[k].window \in Ages /\ recent[k] \in Ages
             /\ Len(recent[k]) \in Nat /\ RateLimit \in Nat
  BY <1>1, WindowOf, GuardAssumption DEF GuardType, Ages
<1>3. ASSUME UNCHANGED recent, \A k \in Pairs : pairs'[k].window \in {pairs[k].window, Fresh(pairs[k].window)}
      PROVE  RateInv'
  BY <1>2, <1>3, FreshTwice DEF RateInv
<1>4. ASSUME NEW k, pairs' = [pairs EXCEPT ![k] = Purged(@)], UNCHANGED recent
      PROVE  RateInv'
  <2>1. pairs' \in [Pairs -> PairState] /\ \A l \in Pairs : pairs'[l] \in {pairs[l], Purged(pairs[l])}
    BY <1>1, <1>4, PairTypes DEF GuardType
  <2>2. QED BY <1>2, <1>3, <1>4, <2>1, WindowOf
<1>5. CASE Poll
  <2>1. CASE HoldLine \/ Refused \/ InjectRaises
    BY <1>4, <2>1 DEF HoldLine, Refused, InjectRaises
  <2>2. CASE TypeLine
    <3> DEFINE k == LinePair
    <3>1. /\ k \in Pairs /\ Admits(pairs[k])
          /\ pairs' = [pairs EXCEPT ![k] = Committed(@)]
          /\ recent' = [recent EXCEPT ![k] = Append(@, 0)]
      BY <2>2, LineTypes DEF TypeLine
    <3> HIDE DEF k
    <3>2. /\ recent[k] = Fresh(pairs[k].window) /\ Len(recent[k]) < RateLimit
      BY <1>2, <3>1, WindowOf DEF Admits, RateInv
    <3>3. /\ pairs'[k].window = Append(Fresh(pairs[k].window), 0)
          /\ recent'[k] = Append(recent[k], 0)
      BY <1>1, <1>2, <3>1, WindowOf DEF GuardType
    <3>4. recent'[k] = Fresh(pairs'[k].window)
      BY <1>2, <3>1, <3>2, <3>3, FreshCommitted
    <3>5. Len(recent'[k]) <= RateLimit
      BY <1>2, <3>1, <3>2, <3>3 DEF Ages
    <3>6. \A l \in Pairs \ {k} : pairs'[l] = pairs[l] /\ recent'[l] = recent[l]
      BY <1>1, <3>1 DEF GuardType
    <3>7. QED BY <3>4, <3>5, <3>6 DEF RateInv
  <2>3. CASE PollBegins \/ NoInbox \/ Resync \/ NothingComplete \/ ReadBatch \/ DropLine
    BY <1>3, <2>3
    DEF PollBegins, NoInbox, Resync, NothingComplete, ReadBatch, DropLine, guardVars
  <2>4. QED BY <1>5, <2>1, <2>2, <2>3 DEF Poll
<1>6. CASE Tick
  <2>1. ASSUME NEW k \in Pairs
        PROVE  recent'[k] = Fresh(pairs'[k].window) /\ Len(recent'[k]) <= RateLimit
    <3>1. /\ recent'[k] = Fresh(Older(recent[k]))
          /\ pairs'[k].window = Older(pairs[k].window)
      BY <1>2, <1>6, WindowOf DEF Tick
    <3>2. recent'[k] = Fresh(Older(pairs[k].window))
      BY <1>2, <3>1, FreshOlder DEF RateInv
    <3>3. Older(recent[k]) \in Ages /\ Len(Older(recent[k])) = Len(recent[k])
      BY <1>2, OlderType
    <3>4. recent'[k] \in Ages /\ Len(recent'[k]) <= Len(recent[k])
      BY <3>1, <3>3, FreshType
    <3>5. Len(recent'[k]) \in Nat /\ Len(recent[k]) <= RateLimit
      BY <3>4 DEF Ages, RateInv
    <3>6. QED BY <1>2, <3>1, <3>2, <3>4, <3>5
  <2>2. QED BY <2>1 DEF RateInv
<1>7. ASSUME NEW s \in Sessions, HumanPrompt(s) PROVE RateInv'
  <2>1. \A k \in Pairs : pairs'[k].window = pairs[k].window
    BY <1>2, <1>7, WindowOf DEF HumanPrompt
  <2>2. QED BY <1>3, <1>7, <2>1 DEF HumanPrompt
<1>8. ASSUME NEW k \in Pairs, NEW on \in BOOLEAN, Mute(k, on) PROVE RateInv'
  <2>1. \A l \in Pairs : pairs'[l].window = pairs[l].window
    BY <1>1, <1>2, <1>8, WindowOf DEF Mute, GuardType
  <2>2. QED BY <1>3, <1>8, <2>1 DEF Mute
<1>9. ASSUME NEW s \in Sessions,
             \/ \E a \in Senders : Send(a, s) \/ SendHalf(a, s)
             \/ SendRest(s) \/ Stray(s) \/ Cut(s) \/ Register(s) \/ Terminal(s)
      PROVE  RateInv'
  BY <1>9, <1>3 DEF Send, SendHalf, SendRest, Stray, Cut, Register, Terminal, guardVars
<1>10. CASE UNCHANGED vars
  BY <1>10, <1>3 DEF vars, guardVars
<1>11. QED BY <1>5, <1>6, <1>7, <1>8, <1>9, <1>10 DEF Next

\* No stretch of Window ticks sees more than RateLimit exchanges of one pair:
\* LoopGuard.admit counts what is left after a purge and commit adds to it, so
\* holding, refusing, retrying or a human's prompt never frees a slot early.
THEOREM RateIsBounded == Spec => []RateHolds
<1>1. RateInv => RateHolds
  BY DEF RateInv, RateHolds
<1>2. QED BY InitTypes, StepTypes, InitRate, StepRate, <1>1, PTL DEF Spec

-----------------------------------------------------------------------------
(* The alert.  Between the exchange that latched a pair and the end of the     *)
(* poll, the pair is known to the poll alone.                                  *)

AlertInv ==
    /\ ~Polling => poll.looped = {}
    /\ \A k \in Pairs : pairs[k].looping <=> k \in alerted \cup poll.looped

LEMMA LoopingOf ==
    ASSUME NEW p \in PairState
    PROVE  /\ Purged(p).looping = p.looping
           /\ Aged(p).looping = p.looping
           /\ HumanSpoke(p).looping = FALSE
           /\ \A on : [p EXCEPT !.muted = on].looping = p.looping
           /\ Committed(p).looping <=> p.looping \/ Trips(p)
<1>1. Committed(p).looping = (p.looping \/ Trips(p))
  BY DEF PairState, Committed, Purged
<1>2. QED BY <1>1 DEF PairState, Purged, Aged, HumanSpoke

LEMMA InitAlert == Init => AlertInv
BY DEF Init, AlertInv, Idle, Polling, FreshPair

LEMMA LeaveAlerts ==
    ASSUME TypeInv, Polling, NEW looped \in SUBSET Pairs, Leave(looped)
    PROVE  /\ ~Polling' => poll'.looped = {}
           /\ alerted' \cup poll'.looped = alerted \cup looped
<1>1. poll.session \in Nat
  BY TypeParts DEF ReadType, PollType
<1>2. CASE poll.session < Len(sessions)
  <2>1. /\ poll' = [at |-> 0, session |-> poll.session + 1, batch |-> <<>>, looped |-> looped]
        /\ alerted' = alerted
    BY <1>2 DEF Leave, Idle
  <2>2. QED BY <1>1, <2>1 DEF Polling
<1>3. CASE ~(poll.session < Len(sessions))
  BY <1>3 DEF Leave, Idle
<1>4. QED BY <1>2, <1>3

LEMMA AdvanceAlerts ==
    ASSUME TypeInv, AtLine, NEW looped \in SUBSET Pairs, Advance(looped)
    PROVE  /\ ~Polling' => poll'.looped = {}
           /\ alerted' \cup poll'.looped = alerted \cup looped
<1>1. Polling /\ ReadType
  BY LineTypes, TypeParts
<1>2. CASE Len(poll.batch) > 1
  BY <1>1, <1>2 DEF Advance, Polling, ReadType, PollType
<1>3. CASE ~(Len(poll.batch) > 1)
  BY <1>1, <1>3, LeaveAlerts DEF Advance
<1>4. QED BY <1>2, <1>3

LEMMA StepAlert == ~InjectMayRaise /\ TypeInv /\ AlertInv /\ [Next]_vars => AlertInv'
<1> SUFFICES ASSUME ~InjectMayRaise, TypeInv, AlertInv, [Next]_vars PROVE AlertInv'
  OBVIOUS
<1>1. /\ pairs \in [Pairs -> PairState] /\ alerted \in SUBSET Pairs /\ poll.looped \in SUBSET Pairs
      /\ ReadType
  BY TypeParts DEF GuardType, OtherType, ReadType, PollType
<1>2. ASSUME \A k \in Pairs : pairs'[k].looping = pairs[k].looping,
             alerted' \cup poll'.looped = alerted \cup poll.looped,
             ~Polling' => poll'.looped = {}
      PROVE  AlertInv'
  BY <1>2 DEF AlertInv
<1>3. ASSUME NEW k, pairs' = [pairs EXCEPT ![k] = Purged(@)]
      PROVE  \A l \in Pairs : pairs'[l].looping = pairs[l].looping
  BY <1>1, <1>3, LoopingOf
<1>4. CASE Poll
  <2>1. CASE HoldLine \/ Refused
    <3>1. Polling /\ Leave(poll.looped)
      BY <2>1, LineTypes DEF HoldLine, Refused, HoldRest
    <3>2. QED BY <1>1, <1>2, <1>3, <2>1, <3>1, LeaveAlerts DEF HoldLine, Refused
  <2>2. CASE TypeLine
    <3> DEFINE k == LinePair
               looped == IF Trips(pairs[k]) THEN poll.looped \cup {k} ELSE poll.looped
    <3>1. /\ k \in Pairs /\ AtLine /\ Admits(pairs[k]) /\ Advance(looped)
          /\ pairs' = [pairs EXCEPT ![k] = Committed(@)]
      BY <2>2, LineTypes DEF TypeLine
    <3> HIDE DEF k
    <3>2. looped \in SUBSET Pairs
      BY <1>1, <3>1
    <3>3. /\ ~Polling' => poll'.looped = {}
          /\ alerted' \cup poll'.looped = alerted \cup looped
      <4> HIDE DEF looped
      <4>1. QED BY <3>1, <3>2, AdvanceAlerts
    <3>4. pairs'[k].looping <=> pairs[k].looping \/ Trips(pairs[k])
      BY <1>1, <3>1, LoopingOf
    <3>5. \A l \in Pairs \ {k} : pairs'[l] = pairs[l]
      BY <1>1, <3>1
    <3>6. QED BY <3>1, <3>3, <3>4, <3>5 DEF AlertInv
  <2>3. CASE NoInbox \/ Resync \/ NothingComplete
    BY <1>1, <1>2, <2>3, LeaveAlerts DEF NoInbox, Resync, NothingComplete, Opening
  <2>4. CASE DropLine
    BY <1>1, <1>2, <2>4, AdvanceAlerts DEF DropLine
  <2>5. CASE PollBegins
    BY <1>1, <1>2, <2>5 DEF PollBegins, guardVars, Idle, AlertInv
  <2>6. CASE ReadBatch
    BY <1>1, <1>2, <2>6 DEF ReadBatch, guardVars, Opening, Polling, ReadType, PollType
  <2>7. CASE InjectRaises
    BY <2>7 DEF InjectRaises
  <2>8. QED BY <1>4, <2>1, <2>2, <2>3, <2>4, <2>5, <2>6, <2>7 DEF Poll
<1>5. CASE Tick
  BY <1>1, <1>2, <1>5, LoopingOf DEF Tick, AlertInv, Polling
<1>6. ASSUME NEW s \in Sessions, HumanPrompt(s) PROVE AlertInv'
  <2>1. poll.looped = {} /\ UNCHANGED poll
    BY <1>6 DEF HumanPrompt, AlertInv
  <2>2. ASSUME NEW k \in Pairs PROVE pairs'[k].looping <=> k \in alerted'
    BY <1>1, <1>6, <2>1, LoopingOf DEF HumanPrompt, AlertInv
  <2>3. QED BY <2>1, <2>2 DEF AlertInv, Polling
<1>7. ASSUME NEW k \in Pairs, NEW on \in BOOLEAN, Mute(k, on) PROVE AlertInv'
  BY <1>1, <1>2, <1>7, LoopingOf DEF Mute, AlertInv, Polling
<1>8. ASSUME NEW s \in Sessions,
             \/ \E a \in Senders : Send(a, s) \/ SendHalf(a, s)
             \/ SendRest(s) \/ Stray(s) \/ Cut(s) \/ Register(s) \/ Terminal(s)
      PROVE  AlertInv'
  BY <1>8, <1>2 DEF Send, SendHalf, SendRest, Stray, Cut, Register, Terminal, guardVars,
                    AlertInv, Polling
<1>9. CASE UNCHANGED vars
  BY <1>9, <1>2 DEF vars, guardVars, AlertInv, Polling
<1>10. QED BY <1>4, <1>5, <1>6, <1>7, <1>8, <1>9 DEF Next

\* Between two polls the pairs with an alert are exactly the latched ones: what
\* poll_inboxes returns to the watch loop misses no pair and repeats none, as
\* long as inject_input returns; an exception would lose the list.
THEOREM AlertFollowsLatch ==
    ASSUME ~InjectMayRaise
    PROVE  Spec => []LatchIsAnnounced
<1>1. AlertInv => LatchIsAnnounced
  BY DEF AlertInv, LatchIsAnnounced
<1>2. TypeInv /\ AlertInv /\ [Next]_vars => (TypeInv /\ AlertInv)'
  BY StepTypes, StepAlert
<1>3. QED BY InitTypes, InitAlert, <1>1, <1>2, PTL DEF Spec

-----------------------------------------------------------------------------
(* How far the server has read.  In the middle of a batch the offset it has    *)
(* stored is behind the line it is at.                                         *)

ReadTo(s) == IF AtLine /\ Current = s THEN poll.at ELSE pos[s]

\* The batch is still what the inbox holds from the line the poll is at.
Aligned ==
    /\ poll.at \div 2 + Len(poll.batch) <= Len(inbox[Current])
    /\ \A k \in 1 .. Len(poll.batch) : poll.batch[k] = inbox[Current][poll.at \div 2 + k]

LEMMA TailLeft ==
    ASSUME NEW S, NEW b \in Seq(S), Len(b) > 1
    PROVE  Tail(b) # <<>>
<1> DEFINE t == Tail(b)
<1>1. Len(t) = Len(b) - 1 /\ Len(b) \in Nat
  OBVIOUS
<1>2. Len(t) >= 1
  BY <1>1
<1> HIDE DEF t
<1>3. t # <<>>
  BY <1>2
<1>4. QED BY <1>3 DEF t

LEMMA HalfLines ==
    ASSUME NEW n \in Nat
    PROVE  /\ n \div 2 \in Nat
           /\ n = 2 * (n \div 2) \/ n = 2 * (n \div 2) + 1
           /\ n % 2 = 0 => n = 2 * (n \div 2)
           /\ (2 * n) \div 2 = n
           /\ n % 2 # 0 => n = 2 * (n \div 2) + 1
OBVIOUS

LEMMA ReadToTypes ==
    ASSUME TypeInv, NEW s \in Sessions
    PROVE  /\ ReadTo(s) \in Nat /\ pos[s] \in Nat
           /\ Len(inbox[s]) \in Nat /\ FileSize(s) \in Nat
           /\ inbox[s] \in Seq(Lines) /\ owed[s] \subseteq Messages
           /\ half[s] \in Messages \cup {NoLine}
           /\ FileSize(s) = 2 * Len(inbox[s]) \/ FileSize(s) = 2 * Len(inbox[s]) + 1
           /\ half[s] = NoLine => FileSize(s) = 2 * Len(inbox[s])
           /\ half[s] # NoLine => FileSize(s) = 2 * Len(inbox[s]) + 1
<1>1. FileType /\ ReadType
  BY TypeParts
<1>2. /\ inbox[s] \in Seq(Lines) /\ owed[s] \subseteq Messages
      /\ half[s] \in Messages \cup {NoLine}
  BY <1>1 DEF FileType
<1>3. ReadTo(s) \in Nat /\ pos[s] \in Nat
  BY <1>1 DEF ReadType, PollType, ReadTo
<1>4. Len(inbox[s]) \in Nat
  BY <1>2
<1>5. /\ half[s] = NoLine => FileSize(s) = 2 * Len(inbox[s])
      /\ half[s] # NoLine => FileSize(s) = 2 * Len(inbox[s]) + 1
  <2> DEFINE n == Len(inbox[s])
  <2>1. FileSize(s) = 2 * n + (IF half[s] = NoLine THEN 0 ELSE 1) /\ n \in Nat
    BY <1>4 DEF FileSize
  <2> HIDE DEF n
  <2>2. /\ half[s] = NoLine => FileSize(s) = 2 * n
        /\ half[s] # NoLine => FileSize(s) = 2 * n + 1
    BY <2>1
  <2>3. QED BY <2>2 DEF n
<1>6. QED BY <1>2, <1>3, <1>4, <1>5

\* On to the next session, nothing is in the middle of anything.
LEMMA LeaveReads ==
    ASSUME NEW looped, Leave(looped)
    PROVE  poll'.batch = <<>> /\ ~AtLine' /\ \A s \in Sessions : ReadTo(s)' = pos'[s]
<1>1. poll'.batch = <<>>
  <2>1. CASE poll.session < Len(sessions)
    <3>1. poll' = [at |-> 0, session |-> poll.session + 1, batch |-> <<>>, looped |-> looped]
      BY <2>1 DEF Leave, Idle
    <3>2. QED BY <3>1
  <2>2. CASE ~(poll.session < Len(sessions))
    BY <2>2 DEF Leave, Idle
  <2>3. QED BY <2>1, <2>2
<1>2. QED BY <1>1 DEF AtLine, ReadTo

LEMMA AdvanceReads ==
    ASSUME TypeInv, AtLine, NEW looped, Advance(looped), UNCHANGED sessions
    PROVE  /\ \A s \in Sessions : ReadTo(s)' = IF s = Current THEN NextLine ELSE ReadTo(s)
           /\ \A s \in Sessions : pos'[s] \in {pos[s], ReadTo(s)'}
           /\ AtLine' => /\ Current' = Current /\ poll'.at = NextLine
                         /\ poll'.batch = Tail(poll.batch) /\ Len(poll.batch) > 1
<1>1. /\ Polling /\ ReadType /\ Current \in Sessions
      /\ poll.batch \in Seq(Lines) /\ pos \in [Sessions -> Nat]
  BY LineTypes, TypeParts DEF ReadType, PollType
<1>2. CASE Len(poll.batch) > 1
  <2>1. /\ poll'.session = poll.session /\ poll'.at = NextLine /\ poll'.batch = Tail(poll.batch)
        /\ UNCHANGED pos
    BY <1>1, <1>2 DEF Advance, ReadType, PollType
  <2>2. Tail(poll.batch) # <<>>
    BY <1>1, <1>2, TailLeft
  <2>3. AtLine' /\ Current' = Current
    BY <2>1, <2>2 DEF AtLine, Current
  <2>4. QED BY <1>1, <1>2, <2>1, <2>3 DEF ReadTo
<1>3. CASE ~(Len(poll.batch) > 1)
  <2>1. pos' = [pos EXCEPT ![Current] = NextLine] /\ ~AtLine' /\ \A s \in Sessions : ReadTo(s)' = pos'[s]
    BY <1>3, LeaveReads DEF Advance
  <2>2. QED BY <1>1, <2>1 DEF ReadTo
<1>4. QED BY <1>2, <1>3

\* The line being looked at, as the inbox has it.
LEMMA LineIs ==
    ASSUME TypeInv, AtLine
    PROVE  /\ poll.batch \in Seq(Lines) /\ Len(poll.batch) >= 1 /\ Line = poll.batch[1]
           /\ poll.at \in Nat /\ poll.at \div 2 \in Nat
           /\ poll.at = 2 * (poll.at \div 2) \/ poll.at = 2 * (poll.at \div 2) + 1
           /\ poll.at % 2 = 0 => poll.at = 2 * (poll.at \div 2)
           /\ NextLine = 2 * (poll.at \div 2) + 2 /\ NextLine \div 2 = poll.at \div 2 + 1
           /\ NextLine >= poll.at /\ NextLine \in Nat
<1>1. poll.at \in Nat /\ poll.batch \in Seq(Lines) /\ poll.batch # <<>>
  BY TypeParts DEF ReadType, PollType, AtLine
<1>2. Len(poll.batch) >= 1 /\ Line = poll.batch[1]
  BY <1>1 DEF Line
<1>3. /\ poll.at \div 2 \in Nat
      /\ poll.at = 2 * (poll.at \div 2) \/ poll.at = 2 * (poll.at \div 2) + 1
      /\ poll.at % 2 = 0 => poll.at = 2 * (poll.at \div 2)
  BY <1>1, HalfLines
<1> DEFINE h == poll.at \div 2
<1>4. h \in Nat /\ NextLine = 2 * (h + 1)
  BY <1>3 DEF NextLine
<1> HIDE DEF h
<1>5. NextLine = 2 * h + 2 /\ NextLine \div 2 = h + 1 /\ NextLine \in Nat
  BY <1>4, HalfLines
<1>6. NextLine >= poll.at
  BY <1>1, <1>3, <1>4, <1>5 DEF h
<1>7. QED BY <1>1, <1>2, <1>3, <1>5, <1>6 DEF h

LEMMA AlignedTail ==
    ASSUME TypeInv, AtLine, Aligned, AtLine', UNCHANGED inbox,
           Current' = Current, poll'.at = NextLine, poll'.batch = Tail(poll.batch)
    PROVE  Aligned'
<1> DEFINE h == poll.at \div 2
           box == inbox[Current]
           b == poll.batch
<1>1. /\ b \in Seq(Lines) /\ h \in Nat /\ NextLine \div 2 = h + 1 /\ Len(b) \in Nat /\ Len(b) >= 1
  BY LineIs
<1>2. box \in Seq(Lines) /\ Len(box) \in Nat
  BY LineTypes, ReadToTypes
<1>3. h + Len(b) <= Len(box) /\ \A k \in 1 .. Len(b) : b[k] = box[h + k]
  BY DEF Aligned
<1>4. Len(Tail(b)) = Len(b) - 1 /\ \A k \in 1 .. Len(b) - 1 : Tail(b)[k] = b[k + 1]
  BY <1>1
<1>5. (h + 1) + Len(Tail(b)) <= Len(box)
  <2> DEFINE n == Len(b)
             t == Len(Tail(b))
             x == Len(box)
  <2>1. n \in Nat /\ x \in Nat /\ h \in Nat /\ t = n - 1 /\ h + n <= x
    BY <1>1, <1>2, <1>3, <1>4
  <2> HIDE DEF h, b, box, n, t, x
  <2>2. (h + 1) + t <= x
    BY <2>1
  <2>3. QED BY <2>2 DEF t, x
<1> HIDE DEF h, b, box
<1>6. ASSUME NEW k \in 1 .. Len(Tail(b)) PROVE Tail(b)[k] = box[(h + 1) + k]
  <2>1. k + 1 \in 1 .. Len(b) /\ h + (k + 1) = (h + 1) + k
    BY <1>1, <1>4
  <2>2. QED BY <1>3, <1>4, <2>1
<1>7. poll'.batch = Tail(b) /\ poll'.at \div 2 = h + 1 /\ inbox'[Current'] = box
  BY <1>1 DEF b, h, box
<1>8. QED BY <1>5, <1>6, <1>7 DEF Aligned

LEMMA AlignedAppend ==
    ASSUME TypeInv, AtLine, Aligned, NEW s \in Sessions, NEW l \in Lines,
           UNCHANGED <<sessions, poll>>, inbox' = [inbox EXCEPT ![s] = Append(@, l)]
    PROVE  Aligned'
<1>1. inbox \in [Sessions -> Seq(Lines)]
  BY TypeParts DEF FileType
<1>2. Current' = Current /\ Current \in Sessions
  BY LineTypes DEF Current
<1>3. poll.at \div 2 \in Nat /\ poll.batch \in Seq(Lines)
  BY LineIs
<1>4. Len(poll.batch) \in Nat
  BY <1>3
<1>5. CASE Current = s
  <2>1. /\ inbox[s] \in Seq(Lines) /\ Len(inbox[s]) \in Nat
        /\ inbox'[s] = Append(inbox[s], l) /\ Len(inbox'[s]) = Len(inbox[s]) + 1
        /\ \A i \in 1 .. Len(inbox[s]) : inbox'[s][i] = inbox[s][i]
    BY <1>1
  <2>2. \A k \in 1 .. Len(poll.batch) : poll.at \div 2 + k \in 1 .. Len(inbox[s])
    BY <1>3, <1>4, <1>5, <2>1 DEF Aligned
  <2>3. QED BY <1>2, <1>3, <1>4, <1>5, <2>1, <2>2 DEF Aligned
<1>6. CASE Current # s
  BY <1>1, <1>2, <1>6 DEF Aligned
<1>7. QED BY <1>5, <1>6

\* A batch is what the inbox holds from the stored offset on.
LEMMA BatchIsRead ==
    ASSUME TypeInv, ReadBatch
    PROVE  /\ ~AtLine /\ Current \in Sessions /\ Current' = Current
           /\ poll'.at = pos[Current] /\ Aligned' /\ poll'.batch \in Seq(Lines)
           /\ \A s \in Sessions : ReadTo(s)' = pos[s] /\ ReadTo(s) = pos[s]
<1>1. PICK c \in Sessions : c = Current
  BY Here DEF ReadBatch, Opening
<1> DEFINE p == pos[c]
           n == Len(inbox[c])
<1>2. ~AtLine /\ p \in Nat /\ n \in Nat /\ inbox[c] \in Seq(Lines)
  BY <1>1, ReadToTypes DEF ReadBatch, Opening
<1>3. /\ poll'.session = poll.session /\ poll'.batch = Unread(c) /\ poll'.at = p /\ Unread(c) # <<>>
      /\ UNCHANGED <<sessions, pos, inbox>>
  BY <1>1, TypeParts DEF ReadBatch, ReadType, PollType, fileVars
<1>4. Current' = c /\ \A s \in Sessions : ReadTo(s)' = pos[s] /\ ReadTo(s) = pos[s]
  BY <1>1, <1>2, <1>3 DEF ReadTo, Current
<1>5. Aligned' /\ Unread(c) \in Seq(Lines)
  <2> DEFINE h == p \div 2
  <2>1. h \in Nat
    BY <1>2, HalfLines
  <2>2. Unread(c) = SubSeq(inbox[c], h + 1, n)
    BY DEF Unread
  <2> HIDE DEF h
  <2>3. h + 1 <= n
    BY <1>2, <1>3, <2>1, <2>2
  <2>4. /\ Len(Unread(c)) = n - h
        /\ \A k \in 1 .. n - h : Unread(c)[k] = inbox[c][h + k]
    BY <1>2, <2>1, <2>2, <2>3
  <2>5. h + Len(Unread(c)) <= n
    BY <1>2, <2>1, <2>4
  <2>6. poll'.at \div 2 = h /\ poll'.batch = Unread(c) /\ inbox'[Current'] = inbox[c]
    BY <1>3, <1>4 DEF h
  <2>7. Unread(c) \in Seq(Lines)
    BY <1>2, <2>1, <2>2
  <2>8. QED BY <2>4, <2>5, <2>6, <2>7 DEF Aligned
<1>6. QED BY <1>1, <1>2, <1>3, <1>4, <1>5

-----------------------------------------------------------------------------
(* Nothing lost: what is owed and not typed lies ahead of where the server has *)
(* read to, as long as it knows the file it has its offset in.                 *)

Ahead(s, m) == \E i \in DOMAIN inbox[s] : inbox[s][i] = m /\ 2 * (i - 1) >= ReadTo(s)

KeptIn(s) ==
    /\ pos[s] <= ReadTo(s)
    /\ sight[s] = "seen" => ReadTo(s) <= FileSize(s)
    /\ half[s].sight = "seen" => sight[s] = "seen" /\ ReadTo(s) <= 2 * Len(inbox[s])
    /\ \A m \in owed[s] :
          m.sight = "seen" => sight[s] = "seen" /\ (m.id \in typed[s] \/ Ahead(s, m))

KeptInv ==
    /\ \A s \in Sessions : KeptIn(s)
    /\ AtLine /\ sight[Current] = "seen" => Aligned

LEMMA InitKept == Init => KeptInv
BY DEF Init, KeptInv, KeptIn, AtLine, Idle, ReadTo, FileSize, NoLine

\* A line is completed behind what the inbox held.
LEMMA AppendKeeps ==
    ASSUME TypeInv, KeptInv, NEW s \in Sessions, NEW l \in Lines,
           UNCHANGED <<sessions, sight, pos, poll, typed>>,
           inbox' = [inbox EXCEPT ![s] = Append(@, l)],
           half' = [half EXCEPT ![s] = NoLine],
           \/ owed' = owed
           \/ /\ owed' = [owed EXCEPT ![s] = @ \cup {l}]
              /\ l.sight = "seen" => sight[s] = "seen" /\ ReadTo(s) <= 2 * Len(inbox[s])
    PROVE  KeptInv'
<1>1. FileType
  BY TypeParts
<1>2. /\ inbox[s] \in Seq(Lines) /\ Len(inbox[s]) \in Nat /\ ReadTo(s) \in Nat
      /\ FileSize(s) \in Nat /\ FileSize(s) <= 2 * Len(inbox[s]) + 1
  BY ReadToTypes
<1>3. /\ inbox'[s] = Append(inbox[s], l) /\ Len(inbox'[s]) = Len(inbox[s]) + 1
      /\ \A i \in 1 .. Len(inbox[s]) : inbox'[s][i] = inbox[s][i]
      /\ inbox'[s][Len(inbox[s]) + 1] = l
      /\ half'[s] = NoLine
  BY <1>1, <1>2 DEF FileType
<1>4. \A t \in Sessions : ReadTo(t)' = ReadTo(t)
  BY DEF ReadTo, AtLine, Current
<1>5. KeptIn(s)'
  <2>1. FileSize(s)' = 2 * (Len(inbox[s]) + 1)
    BY <1>2, <1>3 DEF FileSize
  <2>2. pos'[s] <= ReadTo(s)' /\ (sight'[s] = "seen" => ReadTo(s)' <= FileSize(s)')
    BY <1>2, <1>4, <2>1 DEF KeptInv, KeptIn
  <2>3. half'[s].sight # "seen"
    BY <1>3 DEF NoLine
  <2>4. ASSUME NEW m \in owed'[s], m.sight = "seen"
        PROVE  sight'[s] = "seen" /\ (m.id \in typed'[s] \/ Ahead(s, m)')
    <3>1. CASE m \in owed[s]
      <4>1. sight[s] = "seen" /\ (m.id \in typed[s] \/ Ahead(s, m))
        BY <2>4, <3>1 DEF KeptInv, KeptIn
      <4>2. ASSUME Ahead(s, m) PROVE Ahead(s, m)'
        <5>1. PICK i \in 1 .. Len(inbox[s]) : inbox[s][i] = m /\ 2 * (i - 1) >= ReadTo(s)
          BY <1>2, <4>2 DEF Ahead
        <5>2. i \in DOMAIN inbox'[s] /\ inbox'[s][i] = m
          BY <1>2, <1>3, <5>1
        <5>3. QED BY <1>4, <5>1, <5>2 DEF Ahead
      <4>3. QED BY <4>1, <4>2
    <3>2. CASE m \notin owed[s]
      <4>1. m = l /\ sight[s] = "seen" /\ ReadTo(s) <= 2 * Len(inbox[s])
        BY <1>1, <2>4, <3>2 DEF FileType
      <4>2. 2 * ((Len(inbox[s]) + 1) - 1) >= ReadTo(s)
        BY <1>2, <4>1
      <4>3. Len(inbox[s]) + 1 \in DOMAIN inbox'[s]
        BY <1>2, <1>3
      <4>4. QED BY <1>3, <1>4, <4>1, <4>2, <4>3 DEF Ahead
    <3>3. QED BY <3>1, <3>2
  <2>5. QED BY <2>2, <2>3, <2>4 DEF KeptIn
<1>6. ASSUME NEW t \in Sessions, t # s PROVE KeptIn(t)'
  <2>1. inbox'[t] = inbox[t] /\ half'[t] = half[t] /\ owed'[t] = owed[t]
    BY <1>1, <1>6 DEF FileType
  <2>2. FileSize(t)' = FileSize(t) /\ \A m : Ahead(t, m)' <=> Ahead(t, m)
    BY <1>4, <2>1 DEF FileSize, Ahead
  <2>3. QED BY <1>4, <2>1, <2>2 DEF KeptInv, KeptIn
<1>7. ASSUME AtLine', sight'[Current'] = "seen" PROVE Aligned'
  <2>1. AtLine /\ Aligned
    BY <1>7 DEF KeptInv, AtLine, Current
  <2>2. QED BY <2>1, AlignedAppend
<1>8. QED BY <1>5, <1>6, <1>7 DEF KeptInv

\* A write in flight, and a file emptied under the server.
LEMMA HalfKeeps ==
    ASSUME TypeInv, KeptInv, NEW s \in Sessions, NEW a \in Senders, SendHalf(a, s)
    PROVE  KeptInv'
<1>1. /\ half \in [Sessions -> Messages \cup {NoLine}]
      /\ half' = [half EXCEPT ![s] = NewMail(a, s)] /\ half[s] = NoLine
      /\ UNCHANGED <<sessions, sight, pos, poll, inbox, owed, typed>>
  BY TypeParts DEF SendHalf, FileType, typedVars
<1>2. /\ \A t \in Sessions : ReadTo(t)' = ReadTo(t)
      /\ \A t, m : Ahead(t, m)' <=> Ahead(t, m)
  BY <1>1 DEF ReadTo, AtLine, Current, Ahead
<1>3. NewMail(a, s).sight = sight[s]
  BY DEF NewMail
<1>4. ASSUME NEW t \in Sessions PROVE KeptIn(t)'
  <2>1. /\ FileSize(t) \in Nat /\ Len(inbox[t]) \in Nat /\ ReadTo(t) \in Nat
        /\ FileSize(s) = 2 * Len(inbox[s])
    BY <1>1, ReadToTypes
  <2>2. FileSize(t)' = FileSize(t) \/ FileSize(t)' = FileSize(t) + 1
    <3>1. CASE t = s
      <4>1. half'[s] = NewMail(a, s) /\ NewMail(a, s) # NoLine
        BY <1>1, NewMailTypes DEF SendHalf, Messages, Ids, NoLine
      <4>2. QED BY <1>1, <2>1, <3>1, <4>1 DEF FileSize
    <3>2. CASE t # s
      BY <1>1, <3>2 DEF FileSize
    <3>3. QED BY <3>1, <3>2
  <2>3. FileSize(t)' \in Nat /\ FileSize(t)' >= FileSize(t)
    BY <2>1, <2>2
  <2>4. pos'[t] <= ReadTo(t)' /\ (sight'[t] = "seen" => ReadTo(t)' <= FileSize(t)')
    BY <1>1, <1>2, <2>1, <2>2, <2>3 DEF KeptInv, KeptIn
  <2>5. half'[t].sight = "seen" => sight'[t] = "seen" /\ ReadTo(t)' <= 2 * Len(inbox'[t])
    <3>1. CASE t = s
      BY <1>1, <1>2, <1>3, <2>1, <3>1 DEF KeptInv, KeptIn
    <3>2. CASE t # s
      BY <1>1, <1>2, <3>2 DEF KeptInv, KeptIn
    <3>3. QED BY <3>1, <3>2
  <2>6. \A m \in owed'[t] :
          m.sight = "seen" => sight'[t] = "seen" /\ (m.id \in typed'[t] \/ Ahead(t, m)')
    BY <1>1, <1>2 DEF KeptInv, KeptIn
  <2>7. QED BY <2>4, <2>5, <2>6 DEF KeptIn
<1>5. AtLine' /\ sight'[Current'] = "seen" => Aligned'
  BY <1>1 DEF KeptInv, AtLine, Current, Aligned
<1>6. QED BY <1>4, <1>5 DEF KeptInv

LEMMA CutKeeps ==
    ASSUME TypeInv, KeptInv, NEW s \in Sessions, Cut(s)
    PROVE  KeptInv'
<1>1. /\ FileType /\ sight \in [Sessions -> Sights]
      /\ inbox' = [inbox EXCEPT ![s] = <<>>] /\ half' = [half EXCEPT ![s] = NoLine]
      /\ sight' = [sight EXCEPT ![s] = "cut"] /\ owed' = [owed EXCEPT ![s] = {}]
      /\ UNCHANGED <<sessions, pos, poll, typed>>
  BY TypeParts DEF Cut, ReadType, typedVars
<1>2. \A t \in Sessions : ReadTo(t)' = ReadTo(t)
  BY <1>1 DEF ReadTo, AtLine, Current
<1>3. KeptIn(s)'
  <2>1. sight'[s] = "cut" /\ half'[s] = NoLine /\ owed'[s] = {}
    BY <1>1 DEF FileType
  <2>2. half'[s].sight # "seen"
    BY <2>1 DEF NoLine
  <2>3. QED BY <1>1, <1>2, <2>1, <2>2 DEF KeptInv, KeptIn
<1>4. ASSUME NEW t \in Sessions, t # s PROVE KeptIn(t)'
  <2>1. inbox'[t] = inbox[t] /\ half'[t] = half[t] /\ owed'[t] = owed[t] /\ sight'[t] = sight[t]
    BY <1>1, <1>4 DEF FileType
  <2>2. FileSize(t)' = FileSize(t) /\ \A m : Ahead(t, m)' <=> Ahead(t, m)
    BY <1>2, <2>1 DEF FileSize, Ahead
  <2>3. QED BY <1>1, <1>2, <2>1, <2>2 DEF KeptInv, KeptIn
<1>5. ASSUME AtLine', sight'[Current'] = "seen" PROVE Aligned'
  <2>1. AtLine /\ Current' = Current /\ Current \in Sessions
    BY <1>1, <1>5, LineTypes DEF AtLine, Current
  <2>2. Current # s /\ sight[Current] = "seen" /\ inbox'[Current] = inbox[Current]
    BY <1>1, <1>5, <2>1 DEF FileType
  <2>3. QED BY <1>1, <2>1, <2>2 DEF KeptInv, Aligned
<1>6. QED BY <1>3, <1>4, <1>5 DEF KeptInv

LEMMA WritersKeep ==
    ASSUME TypeInv, KeptInv, NEW s \in Sessions,
           \/ \E a \in Senders : Send(a, s) \/ SendHalf(a, s)
           \/ SendRest(s) \/ Stray(s) \/ Cut(s)
    PROVE  KeptInv'
<1>1. /\ FileType /\ Garbage \in Lines
      /\ half[s] # NoLine => half[s] \in Lines
      /\ half[s] = NoLine => half = [half EXCEPT ![s] = NoLine]
  BY TypeParts DEF FileType, Lines
<1>2. CASE \E a \in Senders : Send(a, s)
  <2>1. PICK a \in Senders : Send(a, s)
    BY <1>2
  <2>2. CASE half[s] = NoLine
    <3> DEFINE l == NewMail(a, s)
    <3>1. l \in Lines /\ l.sight = sight[s]
      BY <2>1, NewMailTypes DEF Send, Lines, NewMail
    <3>2. sight[s] = "seen" => ReadTo(s) <= 2 * Len(inbox[s])
      BY <2>2, ReadToTypes DEF KeptInv, KeptIn
    <3>3. /\ inbox' = [inbox EXCEPT ![s] = Append(@, l)] /\ owed' = [owed EXCEPT ![s] = @ \cup {l}]
          /\ half' = [half EXCEPT ![s] = NoLine]
          /\ UNCHANGED <<sessions, sight, pos, poll, typed>>
      BY <1>1, <2>1, <2>2 DEF Send, typedVars
    <3> HIDE DEF l
    <3>4. QED BY <3>1, <3>2, <3>3, AppendKeeps
  <2>3. CASE half[s] # NoLine
    <3>1. /\ inbox' = [inbox EXCEPT ![s] = Append(@, Garbage)] /\ owed' = owed
          /\ half' = [half EXCEPT ![s] = NoLine]
          /\ UNCHANGED <<sessions, sight, pos, poll, typed>>
      BY <1>1, <2>1, <2>3 DEF Send, typedVars
    <3>2. QED BY <1>1, <3>1, AppendKeeps
  <2>4. QED BY <2>2, <2>3
<1>3. CASE SendRest(s)
  <2> DEFINE l == half[s]
  <2>1. l \in Lines /\ (l.sight = "seen" => sight[s] = "seen" /\ ReadTo(s) <= 2 * Len(inbox[s]))
    BY <1>1, <1>3 DEF SendRest, KeptInv, KeptIn
  <2>2. /\ inbox' = [inbox EXCEPT ![s] = Append(@, l)] /\ owed' = [owed EXCEPT ![s] = @ \cup {l}]
        /\ half' = [half EXCEPT ![s] = NoLine]
        /\ UNCHANGED <<sessions, sight, pos, poll, typed>>
    BY <1>3 DEF SendRest, typedVars
  <2> HIDE DEF l
  <2>3. QED BY <2>1, <2>2, AppendKeeps
<1>4. CASE Stray(s)
  <2>1. /\ inbox' = [inbox EXCEPT ![s] = Append(@, Garbage)] /\ owed' = owed
        /\ half' = [half EXCEPT ![s] = NoLine]
        /\ UNCHANGED <<sessions, sight, pos, poll, typed>>
    BY <1>1, <1>4 DEF Stray, typedVars
  <2>2. QED BY <1>1, <2>1, AppendKeeps
<1>5. QED BY <1>2, <1>3, <1>4, HalfKeeps, CutKeeps

\* The server reads on, and what it leaves behind has been typed.
LEMMA ReadingKeeps ==
    ASSUME TypeInv, TypeInv', KeptInv, UNCHANGED <<inbox, half, owed, sight>>,
           \A s \in Sessions : typed[s] \subseteq typed'[s] /\ pos'[s] <= ReadTo(s)',
           \A s \in Sessions :
              \/ ReadTo(s)' <= ReadTo(s)
              \/ sight[s] = "seen" =>
                    /\ ReadTo(s)' <= 2 * Len(inbox[s])
                    /\ \A m \in owed[s], i \in DOMAIN inbox[s] :
                          inbox[s][i] = m /\ 2 * (i - 1) >= ReadTo(s)
                          => m.id \in typed'[s] \/ 2 * (i - 1) >= ReadTo(s)',
           AtLine' /\ sight[Current'] = "seen" => Aligned'
    PROVE  KeptInv'
<1>1. ASSUME NEW s \in Sessions PROVE KeptIn(s)'
  <2>1. /\ ReadTo(s) \in Nat /\ FileSize(s) \in Nat /\ Len(inbox[s]) \in Nat
        /\ 2 * Len(inbox[s]) <= FileSize(s) /\ FileSize(s)' = FileSize(s) /\ ReadTo(s)' \in Nat
        /\ inbox[s] \in Seq(Lines)
    <3>1. ReadTo(s)' \in Nat
      BY TypeParts DEF ReadTo, ReadType, PollType
    <3>2. FileSize(s)' = FileSize(s)
      BY DEF FileSize
    <3>3. /\ ReadTo(s) \in Nat /\ FileSize(s) \in Nat /\ Len(inbox[s]) \in Nat
          /\ 2 * Len(inbox[s]) <= FileSize(s) /\ inbox[s] \in Seq(Lines)
      BY ReadToTypes
    <3>4. QED BY <3>1, <3>2, <3>3
  <2>2. sight[s] = "seen" => ReadTo(s)' <= FileSize(s)
    BY <2>1 DEF KeptInv, KeptIn
  <2>3. half[s].sight = "seen" => sight[s] = "seen" /\ ReadTo(s)' <= 2 * Len(inbox[s])
    BY <2>1 DEF KeptInv, KeptIn
  <2>4. ASSUME NEW m \in owed[s], m.sight = "seen", m.id \notin typed'[s]
        PROVE  Ahead(s, m)'
    <3>1. sight[s] = "seen" /\ Ahead(s, m)
      BY <2>4 DEF KeptInv, KeptIn
    <3>2. PICK i \in DOMAIN inbox[s] : inbox[s][i] = m /\ 2 * (i - 1) >= ReadTo(s)
      BY <3>1 DEF Ahead
    <3>3. 2 * (i - 1) >= ReadTo(s)'
      BY <2>1, <2>4, <3>1, <3>2
    <3>4. QED BY <3>2, <3>3 DEF Ahead
  <2>5. ASSUME NEW m \in owed[s], m.sight = "seen" PROVE sight[s] = "seen"
    BY <2>5 DEF KeptInv, KeptIn
  <2>6. QED BY <2>1, <2>2, <2>3, <2>4, <2>5 DEF KeptIn
<1>2. QED BY <1>1 DEF KeptInv

\* The line that is dropped or typed is the one the inbox has there.
LEMMA AdvanceKeeps ==
    ASSUME TypeInv, TypeInv', KeptInv, AtLine, NEW looped, Advance(looped),
           UNCHANGED <<sessions, inbox, half, owed, sight>>,
           \A s \in Sessions : typed[s] \subseteq typed'[s],
           Readable => Line.id \in typed'[Current]
    PROVE  KeptInv'
<1>1. PICK c \in Sessions : c = Current
  BY LineTypes
<1> DEFINE h == poll.at \div 2
<1>2. /\ poll.batch \in Seq(Lines) /\ Len(poll.batch) >= 1 /\ Line = poll.batch[1]
      /\ poll.at \in Nat /\ h \in Nat /\ (poll.at = 2 * h \/ poll.at = 2 * h + 1)
      /\ (poll.at % 2 = 0 => poll.at = 2 * h) /\ NextLine = 2 * h + 2
      /\ ReadTo(c) = poll.at /\ NextLine \in Nat /\ NextLine >= poll.at
  BY <1>1, LineIs DEF ReadTo
<1>3. /\ \A s \in Sessions : ReadTo(s)' = IF s = c THEN NextLine ELSE ReadTo(s)
      /\ \A s \in Sessions : pos'[s] \in {pos[s], ReadTo(s)'}
      /\ AtLine' => /\ Current' = Current /\ poll'.at = NextLine
                    /\ poll'.batch = Tail(poll.batch) /\ Len(poll.batch) > 1
  BY <1>1, AdvanceReads
<1>4. inbox[c] \in Seq(Lines) /\ Len(inbox[c]) \in Nat /\ owed[c] \subseteq Messages
  BY <1>1, ReadToTypes
<1>5. inbox[c] \in Seq(Lines) /\ Len(inbox[c]) \in Nat /\ owed[c] \subseteq Messages /\ Len(poll.batch) \in Nat
  <2>1. poll.batch \in Seq(Lines)
    BY <1>2
  <2>2. QED BY <1>4, <2>1
<1>6. ASSUME NEW s \in Sessions PROVE pos'[s] <= ReadTo(s)'
  <2>1. pos[s] <= ReadTo(s) /\ pos[s] \in Nat /\ ReadTo(s) \in Nat
    BY ReadToTypes DEF KeptInv, KeptIn
  <2>2. ReadTo(s)' \in Nat /\ ReadTo(s) <= ReadTo(s)'
    <3>1. CASE s = c
      BY <1>2, <1>3, <3>1
    <3>2. CASE s # c
      BY <1>3, <2>1, <3>2
    <3>3. QED BY <3>1, <3>2
  <2>3. QED BY <1>3, <2>1, <2>2
<1>7. ASSUME sight[c] = "seen"
      PROVE  /\ ReadTo(c)' <= 2 * Len(inbox[c])
             /\ \A m \in owed[c], i \in DOMAIN inbox[c] :
                   inbox[c][i] = m /\ 2 * (i - 1) >= ReadTo(c)
                   => m.id \in typed'[c] \/ 2 * (i - 1) >= ReadTo(c)'
  <2>1. h + Len(poll.batch) <= Len(inbox[c]) /\ \A k \in 1 .. Len(poll.batch) : poll.batch[k] = inbox[c][h + k]
    BY <1>1, <1>7 DEF KeptInv, Aligned
  <2> HIDE DEF h
  <2>2. h + 1 <= Len(inbox[c]) /\ Line = inbox[c][h + 1]
    BY <1>2, <1>5, <2>1
  <2>3. ReadTo(c)' = 2 * h + 2
    BY <1>2, <1>3
  <2>4. ASSUME NEW m \in owed[c], NEW i \in DOMAIN inbox[c], inbox[c][i] = m,
               2 * (i - 1) >= ReadTo(c), ~(2 * (i - 1) >= ReadTo(c)')
        PROVE  m.id \in typed'[c]
    <3>1. i \in Nat /\ 2 * (i - 1) >= poll.at /\ ~(2 * (i - 1) >= 2 * h + 2)
      <4>1. i \in Nat
        BY <1>5
      <4>2. QED BY <1>2, <2>3, <2>4, <4>1
    <3>2. i = h + 1 /\ poll.at = 2 * h
      BY <1>2, <3>1
    <3>3. Line = m /\ poll.at % 2 = 0
      BY <1>2, <2>2, <2>4, <3>2
    <3>4. Line # Garbage
      BY <1>5, <3>3 DEF Messages, Garbage, Ids
    <3>5. QED BY <1>1, <3>3, <3>4 DEF Readable
  <2>5. ReadTo(c)' <= 2 * Len(inbox[c])
    BY <1>2, <1>5, <2>2, <2>3
  <2>6. QED BY <2>4, <2>5
<1>8. AtLine' /\ sight[Current'] = "seen" => Aligned'
  BY <1>3, AlignedTail DEF KeptInv
<1>9. ASSUME NEW s \in Sessions
      PROVE  \/ ReadTo(s)' <= ReadTo(s)
             \/ sight[s] = "seen" =>
                   /\ ReadTo(s)' <= 2 * Len(inbox[s])
                   /\ \A m \in owed[s], i \in DOMAIN inbox[s] :
                         inbox[s][i] = m /\ 2 * (i - 1) >= ReadTo(s)
                         => m.id \in typed'[s] \/ 2 * (i - 1) >= ReadTo(s)'
  <2>1. CASE s = c
    BY <1>7, <2>1
  <2>2. CASE s # c
    BY <1>3, <2>2, ReadToTypes
  <2>3. QED BY <2>1, <2>2
<1> HIDE DEF h
<1>10. QED BY <1>6, <1>8, <1>9, ReadingKeeps

\* Nothing is read, or the server forgets how far it had read.
LEMMA RestKeeps ==
    ASSUME TypeInv, TypeInv', KeptInv, UNCHANGED <<inbox, half, owed, sight, typed>>,
           \A s \in Sessions : pos'[s] <= ReadTo(s)' /\ ReadTo(s)' <= ReadTo(s),
           AtLine' /\ sight[Current'] = "seen" => Aligned'
    PROVE  KeptInv'
BY ReadingKeeps

LEMMA PollKeeps ==
    ASSUME TypeInv, TypeInv', KeptInv, Poll
    PROVE  KeptInv'
<1>1. \A s \in Sessions : /\ ReadTo(s) \in Nat /\ pos[s] \in Nat /\ pos[s] <= ReadTo(s)
                          /\ pos \in [Sessions -> Nat]
  BY ReadToTypes, TypeParts DEF KeptInv, KeptIn, ReadType
<1>2. CASE PollBegins
  <2>1. ~AtLine' /\ UNCHANGED <<pos, inbox, half, owed, sight, typed>>
    BY <1>2 DEF PollBegins, Idle, AtLine, fileVars, typedVars
  <2>2. \A s \in Sessions : ReadTo(s)' = pos[s]
    BY <2>1 DEF ReadTo
  <2>3. QED BY <1>1, <2>1, <2>2, RestKeeps
<1>3. CASE NoInbox \/ NothingComplete
  <2>1. UNCHANGED <<pos, inbox, half, owed, sight, typed>> /\ Leave(poll.looped)
    BY <1>3 DEF NoInbox, NothingComplete, fileVars, typedVars
  <2>2. ~AtLine' /\ \A s \in Sessions : ReadTo(s)' = pos[s]
    BY <2>1, LeaveReads
  <2>3. QED BY <1>1, <2>1, <2>2, RestKeeps
<1>4. CASE HoldLine \/ Refused
  <2>1. /\ AtLine /\ Leave(poll.looped) /\ pos' = [pos EXCEPT ![Current] = poll.at]
        /\ UNCHANGED <<inbox, half, owed, sight, typed>>
    BY <1>4 DEF HoldLine, Refused, HoldRest, fileVars, typedVars
  <2>2. ~AtLine' /\ \A s \in Sessions : ReadTo(s)' = pos'[s] /\ pos'[s] = ReadTo(s)
    BY <1>1, <2>1, LeaveReads DEF ReadTo
  <2>3. QED BY <1>1, <2>1, <2>2, RestKeeps
<1>5. CASE InjectRaises
  <2>1. ~AtLine' /\ UNCHANGED <<pos, inbox, half, owed, sight, typed>>
    BY <1>5 DEF InjectRaises, Idle, AtLine, fileVars, typedVars
  <2>2. \A s \in Sessions : ReadTo(s)' = pos[s]
    BY <2>1 DEF ReadTo
  <2>3. QED BY <1>1, <2>1, <2>2, RestKeeps
<1>6. CASE ReadBatch
  <2>1. /\ Aligned' /\ \A s \in Sessions : ReadTo(s)' = pos[s] /\ ReadTo(s) = pos[s]
        /\ UNCHANGED <<pos, inbox, half, owed, sight, typed>>
    BY <1>6, BatchIsRead DEF ReadBatch, fileVars, typedVars
  <2>2. QED BY <1>1, <2>1, RestKeeps
<1>7. CASE DropLine
  <2>1. AtLine /\ ~Readable /\ Advance(poll.looped) /\ UNCHANGED <<sessions, inbox, half, owed, sight, typed>>
    BY <1>7 DEF DropLine, fileVars, typedVars
  <2>2. QED BY <2>1, AdvanceKeeps
<1>8. CASE TypeLine
  <2>1. /\ AtLine /\ UNCHANGED <<sessions, inbox, half, owed, sight>>
        /\ typed' = [typed EXCEPT ![Current] = @ \cup {Line.id}] /\ Current \in Sessions
        /\ typed \in [Sessions -> SUBSET Ids]
    BY <1>8, LineTypes, TypeParts DEF TypeLine, fileVars, OtherType
  <2>2. Line.id \in typed'[Current] /\ \A s \in Sessions : typed[s] \subseteq typed'[s]
    BY <2>1
  <2>3. PICK looped : Advance(looped)
    BY <1>8 DEF TypeLine
  <2>4. QED BY <2>1, <2>2, <2>3, AdvanceKeeps
<1>9. CASE Resync
  <2>1. PICK c \in Sessions : c = Current
    BY <1>9, Here DEF Resync, Opening
  <2>2. /\ ~AtLine /\ Leave(poll.looped)
        /\ sight' = [sight EXCEPT ![c] = "seen"] /\ pos' = [pos EXCEPT ![c] = FileSize(c)]
        /\ UNCHANGED <<sessions, inbox, half, owed, typed>>
        /\ sight \in [Sessions -> Sights] /\ pos \in [Sessions -> Nat]
        /\ Known(c) => FileSize(c) < pos[c]
    BY <1>9, <2>1, TypeParts DEF Resync, Opening, fileVars, typedVars, ReadType
  <2>3. ~AtLine' /\ \A s \in Sessions : ReadTo(s)' = pos'[s] /\ ReadTo(s) = pos[s]
    BY <2>2, LeaveReads DEF ReadTo
  <2>4. sight[c] # "seen" /\ FileSize(c) \in Nat
    BY <2>2, <2>3, ReadToTypes DEF KeptInv, KeptIn, Known
  <2>5. KeptIn(c)'
    <3>1. /\ sight'[c] = "seen" /\ ReadTo(c)' = FileSize(c) /\ FileSize(c)' = FileSize(c)
          /\ pos'[c] = FileSize(c)
      BY <2>2, <2>3 DEF FileSize
    <3>2. half[c].sight # "seen" /\ \A m \in owed[c] : m.sight # "seen"
      BY <2>2, <2>4 DEF KeptInv, KeptIn
    <3>3. QED BY <2>2, <2>4, <3>1, <3>2 DEF KeptIn
  <2>6. ASSUME NEW s \in Sessions, s # c PROVE KeptIn(s)'
    <3>1. /\ sight'[s] = sight[s] /\ pos'[s] = pos[s] /\ ReadTo(s)' = ReadTo(s) /\ FileSize(s)' = FileSize(s)
      BY <2>2, <2>3, <2>6 DEF FileSize
    <3>2. \A m : Ahead(s, m)' <=> Ahead(s, m)
      BY <2>2, <3>1 DEF Ahead
    <3>3. QED BY <2>2, <3>1, <3>2 DEF KeptInv, KeptIn
  <2>7. QED BY <2>3, <2>5, <2>6 DEF KeptInv
<1>10. QED BY <1>2, <1>3, <1>4, <1>5, <1>6, <1>7, <1>8, <1>9 DEF Poll

\* Steps that touch neither the files nor what the server read.
LEMMA ElsewhereKeeps ==
    ASSUME TypeInv, KeptInv, UNCHANGED <<inbox, half, owed, sight, typed, pos, poll>>,
           UNCHANGED sessions \/ ~Polling
    PROVE  KeptInv'
<1>1. CASE UNCHANGED sessions
  <2>1. /\ \A s \in Sessions : ReadTo(s)' = ReadTo(s) /\ FileSize(s)' = FileSize(s)
        /\ \A s, m : Ahead(s, m)' <=> Ahead(s, m)
        /\ AtLine' = AtLine /\ Current' = Current /\ (Aligned' <=> Aligned)
    BY <1>1 DEF ReadTo, FileSize, Ahead, AtLine, Current, Aligned
  <2>2. QED BY <1>1, <2>1 DEF KeptInv, KeptIn
<1>2. CASE ~Polling
  <2>1. ~AtLine /\ ~AtLine'
    BY <1>2 DEF TypeInv, AtLine
  <2>2. QED BY <2>1 DEF KeptInv, KeptIn, Ahead, ReadTo, FileSize
<1>3. QED BY <1>1, <1>2

LEMMA StepKept == TypeInv /\ TypeInv' /\ KeptInv /\ [Next]_vars => KeptInv'
<1> SUFFICES ASSUME TypeInv, TypeInv', KeptInv, [Next]_vars PROVE KeptInv'
  OBVIOUS
<1>1. CASE UNCHANGED vars
  BY <1>1, ElsewhereKeeps DEF vars, fileVars, typedVars
<1>2. CASE Poll
  BY <1>2, PollKeeps
<1>3. ASSUME NEW s \in Sessions,
             \/ \E a \in Senders : Send(a, s) \/ SendHalf(a, s)
             \/ SendRest(s) \/ Stray(s) \/ Cut(s)
      PROVE  KeptInv'
  BY <1>3, WritersKeep
<1>4. ASSUME NEW s \in Sessions, Register(s) \/ HumanPrompt(s) \/ Terminal(s) PROVE KeptInv'
  BY <1>4, ElsewhereKeeps DEF Register, HumanPrompt, Terminal, fileVars, typedVars
<1>5. CASE Tick \/ \E k \in Pairs, on \in BOOLEAN : Mute(k, on)
  BY <1>5, ElsewhereKeeps DEF Tick, Mute, fileVars, typedVars
<1>6. QED BY <1>1, <1>2, <1>3, <1>4, <1>5 DEF Next

\* poll_inboxes loses no mail: what was written whole to an inbox the server has
\* an offset in was typed or lies at or behind the stored offset, across held
\* batches, dying terminals, half lines, cut files and raised injections.
THEOREM OwedMailIsKept == Spec => []NothingLost
<1>1. TypeInv /\ KeptInv => NothingLost
  <2> SUFFICES ASSUME TypeInv, KeptInv, NEW s \in Sessions, NEW m \in owed[s], m.sight = "seen",
                      m.id \notin typed[s]
               PROVE  \E i \in DOMAIN inbox[s] : inbox[s][i] = m /\ 2 * (i - 1) >= pos[s]
    BY DEF NothingLost
  <2>1. Ahead(s, m) /\ pos[s] <= ReadTo(s)
    BY DEF KeptInv, KeptIn
  <2>2. pos[s] \in Nat /\ ReadTo(s) \in Nat /\ inbox[s] \in Seq(Lines)
    BY ReadToTypes
  <2>3. QED BY <2>1, <2>2 DEF Ahead
<1>2. TypeInv /\ KeptInv /\ [Next]_vars => (TypeInv /\ KeptInv)'
  BY StepTypes, StepKept
<1>3. QED BY InitTypes, InitKept, <1>1, <1>2, PTL DEF Spec

-----------------------------------------------------------------------------
(* Once and in order: ids grow along each inbox and along the batch, and what  *)
(* was typed is older than all that is still ahead, in the inbox or the batch. *)

Rising(q) == \A i, j \in DOMAIN q : i < j /\ q[j] # Garbage => q[i].id < q[j].id

OrderIn(s) ==
    /\ Rising(inbox[s])
    /\ \A i \in DOMAIN inbox[s] : inbox[s][i].id <= sent
    /\ half[s].id <= sent
    /\ \A n \in typed[s] : n <= sent
    /\ half[s] # NoLine => /\ \A i \in DOMAIN inbox[s] : inbox[s][i].id < half[s].id
                           /\ \A n \in typed[s] : n < half[s].id
    /\ \A i \in DOMAIN inbox[s], n \in typed[s] :
          2 * i > ReadTo(s) /\ inbox[s][i] # Garbage => n < inbox[s][i].id

\* The file was cut since the batch was read: what it holds now is younger.
Beyond ==
    \A i \in DOMAIN inbox[Current], k \in DOMAIN poll.batch :
       inbox[Current][i] # Garbage => poll.batch[k].id < inbox[Current][i].id

BatchOrder ==
    /\ Rising(poll.batch)
    /\ \A k \in DOMAIN poll.batch : poll.batch[k].id <= sent
    /\ \A k \in DOMAIN poll.batch : half[Current] # NoLine => poll.batch[k].id < half[Current].id
    /\ \A k \in DOMAIN poll.batch, n \in typed[Current] :
          poll.batch[k] # Garbage => n < poll.batch[k].id
    /\ Aligned \/ Beyond

OrderInv ==
    /\ \A s \in Sessions : OrderIn(s)
    /\ AtLine => BatchOrder

LEMMA IdTypes ==
    /\ \A l \in Lines : l.id \in Nat /\ (l # Garbage => l.id \in Ids)
    /\ NoLine.id = 0 /\ Garbage.id = 0
    /\ \A l \in Messages : l.id \in Nat /\ l # Garbage /\ l # NoLine
BY DEF Lines, Messages, Garbage, NoLine, Ids

LEMMA OrderTypes ==
    ASSUME TypeInv, NEW s \in Sessions
    PROVE  /\ \A i \in DOMAIN inbox[s] : inbox[s][i] \in Lines /\ inbox[s][i].id \in Nat /\ i \in Nat
           /\ half[s].id \in Nat /\ sent \in Nat /\ typed[s] \subseteq Nat
           /\ \A k \in DOMAIN poll.batch : poll.batch[k] \in Lines /\ poll.batch[k].id \in Nat /\ k \in Nat
<1>1. /\ inbox[s] \in Seq(Lines) /\ half[s] \in Messages \cup {NoLine} /\ sent \in 0 .. MaxMessages
      /\ typed[s] \subseteq Ids /\ poll.batch \in Seq(Lines)
  BY TypeParts DEF FileType, OtherType, ReadType, PollType
<1>2. half[s].id \in Nat
  BY <1>1, IdTypes
<1>3. sent \in Nat /\ typed[s] \subseteq Nat
  BY <1>1, BoundsAssumption DEF Ids
<1>4. QED BY <1>1, <1>2, <1>3, IdTypes

LEMMA RisingAppend ==
    ASSUME NEW q \in Seq(Lines), NEW l \in Lines, Rising(q),
           l = Garbage \/ \A i \in DOMAIN q : q[i].id < l.id
    PROVE  Rising(Append(q, l))
<1> DEFINE r == Append(q, l)
<1>1. /\ DOMAIN q = 1 .. Len(q) /\ Len(q) \in Nat /\ DOMAIN r = 1 .. Len(q) + 1
      /\ r[Len(q) + 1] = l /\ \A i \in 1 .. Len(q) : r[i] = q[i]
  OBVIOUS
<1> HIDE DEF r
<1>2. ASSUME NEW i \in DOMAIN r, NEW j \in DOMAIN r, i < j, r[j] # Garbage PROVE r[i].id < r[j].id
  <2>1. i \in 1 .. Len(q) /\ r[i] = q[i]
    BY <1>1, <1>2
  <2>2. CASE j \in 1 .. Len(q)
    BY <1>1, <1>2, <2>1, <2>2 DEF Rising
  <2>3. CASE j = Len(q) + 1
    BY <1>1, <1>2, <2>1, <2>3
  <2>4. QED BY <1>1, <2>2, <2>3
<1>3. QED BY <1>2 DEF Rising, r

LEMMA InitOrder == Init => OrderInv
<1> SUFFICES ASSUME Init PROVE OrderInv
  OBVIOUS
<1>1. ~AtLine
  BY DEF Init, AtLine, Idle
<1>2. ASSUME NEW s \in Sessions PROVE OrderIn(s)
  <2>1. inbox[s] = <<>> /\ half[s] = NoLine /\ typed[s] = {} /\ sent = 0
    BY DEF Init
  <2>2. QED BY <2>1, IdTypes DEF OrderIn, Rising
<1>3. QED BY <1>1, <1>2 DEF OrderInv

\* A line is completed: what is in it is younger than all there was before.
LEMMA AppendOrder ==
    ASSUME TypeInv, OrderInv, NEW s \in Sessions, NEW l \in Lines,
           UNCHANGED <<sessions, pos, poll, typed>>,
           inbox' = [inbox EXCEPT ![s] = Append(@, l)],
           half' = [half EXCEPT ![s] = NoLine],
           sent' \in {sent, sent + 1}, l.id <= sent',
           \/ l = Garbage
           \/ /\ \A i \in DOMAIN inbox[s] : inbox[s][i].id < l.id
              /\ \A n \in typed[s] : n < l.id
              /\ AtLine /\ Current = s => \A k \in DOMAIN poll.batch : poll.batch[k].id < l.id
    PROVE  OrderInv'
<1>1. /\ inbox \in [Sessions -> Seq(Lines)] /\ half \in [Sessions -> Messages \cup {NoLine}]
      /\ inbox[s] \in Seq(Lines) /\ sent \in Nat /\ sent' \in Nat /\ sent <= sent'
  BY TypeParts, OrderTypes DEF FileType
<1>2. /\ inbox'[s] = Append(inbox[s], l) /\ DOMAIN inbox'[s] = 1 .. Len(inbox[s]) + 1
      /\ DOMAIN inbox[s] = 1 .. Len(inbox[s]) /\ Len(inbox[s]) \in Nat
      /\ \A i \in 1 .. Len(inbox[s]) : inbox'[s][i] = inbox[s][i]
      /\ inbox'[s][Len(inbox[s]) + 1] = l /\ half'[s] = NoLine
  BY <1>1
<1>3. /\ \A t \in Sessions : ReadTo(t)' = ReadTo(t)
      /\ Current' = Current /\ (AtLine' <=> AtLine)
  BY DEF ReadTo, AtLine, Current
<1>4. OrderIn(s)'
  <2>1. OrderIn(s)
    BY DEF OrderInv
  <2>2. Rising(inbox'[s])
    BY <1>1, <1>2, <2>1, RisingAppend DEF OrderIn
  <2>3. \A i \in DOMAIN inbox'[s] : inbox'[s][i].id <= sent'
    <3>1. ASSUME NEW i \in DOMAIN inbox'[s] PROVE inbox'[s][i].id <= sent'
      <4>1. CASE i \in 1 .. Len(inbox[s])
        BY <1>1, <1>2, <2>1, <4>1, OrderTypes DEF OrderIn
      <4>2. CASE i = Len(inbox[s]) + 1
        BY <1>2, <4>2
      <4>3. QED BY <1>2, <4>1, <4>2
    <3>2. QED BY <3>1
  <2>4. half'[s].id <= sent' /\ \A n \in typed'[s] : n <= sent'
    BY <1>1, <1>2, <2>1, OrderTypes, IdTypes DEF OrderIn
  <2>5. ASSUME NEW i \in DOMAIN inbox'[s], NEW n \in typed'[s], 2 * i > ReadTo(s)', inbox'[s][i] # Garbage
        PROVE  n < inbox'[s][i].id
    <3>1. CASE i \in 1 .. Len(inbox[s])
      BY <1>2, <1>3, <2>1, <2>5, <3>1 DEF OrderIn
    <3>2. CASE i = Len(inbox[s]) + 1
      BY <1>2, <2>5, <3>2
    <3>3. QED BY <1>2, <3>1, <3>2
  <2>6. QED BY <1>2, <2>2, <2>3, <2>4, <2>5 DEF OrderIn
<1>5. ASSUME NEW t \in Sessions, t # s PROVE OrderIn(t)'
  <2>1. inbox'[t] = inbox[t] /\ half'[t] = half[t] /\ OrderIn(t)
    BY <1>1, <1>5 DEF OrderInv
  <2>2. /\ \A i \in DOMAIN inbox[t] : inbox[t][i].id <= sent'
        /\ half[t].id <= sent' /\ \A n \in typed[t] : n <= sent'
    BY <1>1, <2>1, OrderTypes DEF OrderIn
  <2>3. QED BY <1>3, <2>1, <2>2 DEF OrderIn
<1>6. ASSUME AtLine PROVE BatchOrder'
  <2>1. BatchOrder /\ Current \in Sessions
    BY <1>6, LineTypes DEF OrderInv
  <2>2. \A k \in DOMAIN poll.batch : poll.batch[k].id <= sent'
    BY <1>1, <2>1, OrderTypes DEF BatchOrder
  <2>3. \A k \in DOMAIN poll.batch : half'[Current] # NoLine => poll.batch[k].id < half'[Current].id
    BY <1>1, <1>2, <2>1 DEF BatchOrder
  <2>4. Aligned' \/ Beyond'
    <3>1. CASE Aligned
      BY <1>6, <3>1, AlignedAppend
    <3>2. CASE Beyond /\ Current # s
      BY <1>1, <1>3, <2>1, <3>2 DEF Beyond
    <3>3. CASE Beyond /\ Current = s
      <4>1. ASSUME NEW i \in DOMAIN inbox'[s], NEW k \in DOMAIN poll.batch, inbox'[s][i] # Garbage
            PROVE  poll.batch[k].id < inbox'[s][i].id
        <5>1. CASE i \in 1 .. Len(inbox[s])
          BY <1>2, <3>3, <4>1, <5>1 DEF Beyond
        <5>2. CASE i = Len(inbox[s]) + 1
          BY <1>2, <1>6, <3>3, <4>1, <5>2
        <5>3. QED BY <1>2, <5>1, <5>2
      <4>2. QED BY <1>3, <3>3, <4>1 DEF Beyond
    <3>4. QED BY <2>1, <3>1, <3>2, <3>3 DEF BatchOrder
  <2>5. QED BY <1>3, <2>1, <2>2, <2>3, <2>4 DEF BatchOrder
<1>7. QED BY <1>3, <1>4, <1>5, <1>6 DEF OrderInv

LEMMA HalfOrder ==
    ASSUME TypeInv, OrderInv, NEW s \in Sessions, NEW a \in Senders, SendHalf(a, s)
    PROVE  OrderInv'
<1>1. /\ half \in [Sessions -> Messages \cup {NoLine}]
      /\ half' = [half EXCEPT ![s] = NewMail(a, s)] /\ NewMail(a, s).id = sent + 1
      /\ sent \in Nat /\ sent' = sent + 1
      /\ UNCHANGED <<sessions, pos, poll, inbox, typed>>
  BY TypeParts, OrderTypes DEF SendHalf, FileType, typedVars, NewMail
<1>2. /\ \A t \in Sessions : ReadTo(t)' = ReadTo(t)
      /\ Current' = Current /\ (AtLine' <=> AtLine) /\ (Aligned' <=> Aligned) /\ (Beyond' <=> Beyond)
  BY <1>1 DEF ReadTo, AtLine, Current, Aligned, Beyond
<1>3. ASSUME NEW t \in Sessions PROVE OrderIn(t)'
  <2>1. /\ OrderIn(t) /\ half[t].id \in Nat /\ typed[t] \subseteq Nat
        /\ \A i \in DOMAIN inbox[t] : inbox[t][i].id \in Nat
    BY OrderTypes DEF OrderInv
  <2>2. /\ \A i \in DOMAIN inbox[t] : inbox[t][i].id <= sent /\ inbox[t][i].id < sent'
        /\ \A n \in typed[t] : n <= sent /\ n < sent'
        /\ \A i \in DOMAIN inbox[t] : inbox[t][i].id <= sent'
        /\ \A n \in typed[t] : n <= sent'
    BY <1>1, <2>1 DEF OrderIn
  <2>3. CASE t = s
    <3>1. half'[t] = NewMail(a, s) /\ half'[t].id = sent'
      BY <1>1, <2>3
    <3>2. half'[t].id <= sent'
      BY <1>1, <3>1
    <3>3. QED BY <1>1, <1>2, <2>1, <2>2, <3>1, <3>2 DEF OrderIn
  <2>4. CASE t # s
    <3>1. half'[t] = half[t] /\ half[t].id <= sent'
      BY <1>1, <2>1, <2>4 DEF OrderIn
    <3>2. QED BY <1>1, <1>2, <2>1, <2>2, <3>1 DEF OrderIn
  <2>5. QED BY <2>3, <2>4
<1>4. ASSUME AtLine PROVE BatchOrder'
  <2>1. BatchOrder /\ Current \in Sessions
    BY <1>4, LineTypes DEF OrderInv
  <2>2. \A k \in DOMAIN poll.batch : poll.batch[k].id <= sent' /\ poll.batch[k].id < sent'
    BY <1>1, <2>1, OrderTypes DEF BatchOrder
  <2>3. \A k \in DOMAIN poll.batch : half'[Current] # NoLine => poll.batch[k].id < half'[Current].id
    <3>1. CASE Current = s
      BY <1>1, <2>2, <3>1
    <3>2. CASE Current # s
      BY <1>1, <2>1, <3>2 DEF BatchOrder
    <3>3. QED BY <3>1, <3>2
  <2>4. QED BY <1>1, <1>2, <2>1, <2>2, <2>3 DEF BatchOrder
<1>5. QED BY <1>2, <1>3, <1>4 DEF OrderInv

LEMMA CutOrder ==
    ASSUME TypeInv, OrderInv, NEW s \in Sessions, Cut(s)
    PROVE  OrderInv'
<1>1. /\ inbox \in [Sessions -> Seq(Lines)] /\ half \in [Sessions -> Messages \cup {NoLine}]
      /\ inbox' = [inbox EXCEPT ![s] = <<>>] /\ half' = [half EXCEPT ![s] = NoLine]
      /\ UNCHANGED <<sessions, pos, poll, typed, sent>>
  BY TypeParts DEF Cut, FileType, typedVars
<1>2. /\ \A t \in Sessions : ReadTo(t)' = ReadTo(t)
      /\ Current' = Current /\ (AtLine' <=> AtLine)
  BY <1>1 DEF ReadTo, AtLine, Current
<1>3. OrderIn(s)'
  <2>1. inbox'[s] = <<>> /\ DOMAIN inbox'[s] = {} /\ half'[s] = NoLine /\ half'[s].id <= sent'
    BY <1>1, OrderTypes, IdTypes
  <2>2. QED BY <1>1, <2>1 DEF OrderInv, OrderIn, Rising
<1>4. ASSUME NEW t \in Sessions, t # s PROVE OrderIn(t)'
  <2>1. inbox'[t] = inbox[t] /\ half'[t] = half[t]
    BY <1>1, <1>4
  <2>2. QED BY <1>1, <1>2, <2>1 DEF OrderInv, OrderIn
<1>5. ASSUME AtLine PROVE BatchOrder'
  <2>1. BatchOrder /\ Current \in Sessions
    BY <1>5, LineTypes DEF OrderInv
  <2>2. \A k \in DOMAIN poll.batch : half'[Current] # NoLine => poll.batch[k].id < half'[Current].id
    BY <1>1, <2>1 DEF BatchOrder
  <2>3. Aligned' \/ Beyond'
    <3>1. CASE Current = s
      BY <1>1, <1>2, <3>1 DEF Beyond
    <3>2. CASE Current # s
      BY <1>1, <1>2, <2>1, <3>2 DEF BatchOrder, Aligned, Beyond
    <3>3. QED BY <3>1, <3>2
  <2>4. QED BY <1>1, <1>2, <2>1, <2>2, <2>3 DEF BatchOrder
<1>6. QED BY <1>2, <1>3, <1>4, <1>5 DEF OrderInv

LEMMA WritersOrder ==
    ASSUME TypeInv, OrderInv, NEW s \in Sessions,
           \/ \E a \in Senders : Send(a, s) \/ SendHalf(a, s)
           \/ SendRest(s) \/ Stray(s) \/ Cut(s)
    PROVE  OrderInv'
<1>1. /\ Garbage \in Lines /\ (half[s] # NoLine => half[s] \in Lines)
      /\ half[s] = NoLine => half = [half EXCEPT ![s] = NoLine]
      /\ sent \in Nat /\ Garbage.id <= sent /\ Garbage.id <= sent + 1
  BY TypeParts, OrderTypes, IdTypes DEF FileType, Lines
<1>2. /\ OrderIn(s) /\ (AtLine => BatchOrder)
      /\ half[s].id \in Nat /\ typed[s] \subseteq Nat
      /\ \A i \in DOMAIN inbox[s] : inbox[s][i].id \in Nat
      /\ \A k \in DOMAIN poll.batch : poll.batch[k].id \in Nat
  BY OrderTypes DEF OrderInv
<1>3. CASE \E a \in Senders : Send(a, s)
  <2>1. PICK a \in Senders : Send(a, s)
    BY <1>3
  <2>2. CASE half[s] = NoLine
    <3> DEFINE l == NewMail(a, s)
    <3>1. l \in Lines /\ l.id = sent + 1
      BY <2>1, NewMailTypes DEF Send, Lines, NewMail
    <3>2. /\ inbox' = [inbox EXCEPT ![s] = Append(@, l)] /\ half' = [half EXCEPT ![s] = NoLine]
          /\ sent' = sent + 1 /\ UNCHANGED <<sessions, pos, poll, typed>>
      BY <1>1, <2>1, <2>2 DEF Send, typedVars
    <3> HIDE DEF l
    <3>3. /\ \A i \in DOMAIN inbox[s] : inbox[s][i].id < l.id
          /\ \A n \in typed[s] : n < l.id
          /\ AtLine => \A k \in DOMAIN poll.batch : poll.batch[k].id < l.id
      BY <1>1, <1>2, <3>1 DEF OrderIn, BatchOrder
    <3>4. l.id <= sent'
      BY <1>1, <3>1, <3>2
    <3>5. QED BY <3>1, <3>2, <3>3, <3>4, AppendOrder
  <2>3. CASE half[s] # NoLine
    <3>1. /\ inbox' = [inbox EXCEPT ![s] = Append(@, Garbage)] /\ half' = [half EXCEPT ![s] = NoLine]
          /\ sent' = sent + 1 /\ UNCHANGED <<sessions, pos, poll, typed>>
      BY <2>1, <2>3 DEF Send, typedVars
    <3>2. QED BY <1>1, <3>1, AppendOrder
  <2>4. QED BY <2>2, <2>3
<1>4. CASE SendRest(s)
  <2> DEFINE l == half[s]
  <2>1. /\ l \in Lines /\ l.id <= sent
        /\ \A i \in DOMAIN inbox[s] : inbox[s][i].id < l.id
        /\ \A n \in typed[s] : n < l.id
        /\ AtLine /\ Current = s => \A k \in DOMAIN poll.batch : poll.batch[k].id < l.id
    BY <1>1, <1>2, <1>4 DEF SendRest, OrderIn, BatchOrder
  <2>2. /\ inbox' = [inbox EXCEPT ![s] = Append(@, l)] /\ half' = [half EXCEPT ![s] = NoLine]
        /\ UNCHANGED <<sessions, pos, poll, typed, sent>>
    BY <1>4 DEF SendRest, typedVars
  <2> HIDE DEF l
  <2>3. QED BY <2>1, <2>2, AppendOrder
<1>5. CASE Stray(s)
  <2>1. /\ inbox' = [inbox EXCEPT ![s] = Append(@, Garbage)] /\ half' = [half EXCEPT ![s] = NoLine]
        /\ UNCHANGED <<sessions, pos, poll, typed, sent>>
    BY <1>1, <1>5 DEF Stray, typedVars
  <2>2. QED BY <1>1, <2>1, AppendOrder
<1>6. QED BY <1>3, <1>4, <1>5, HalfOrder, CutOrder

\* The server reads on and types nothing; the batch is done with, or opened,
\* or goes on in the same order.
LEMMA ReadingOrder ==
    ASSUME TypeInv, OrderInv, UNCHANGED <<inbox, half, sent, typed>>,
           \A s \in Sessions : \/ ReadTo(s)' >= ReadTo(s)
                               \/ ReadTo(s)' >= 2 * Len(inbox[s]),
           TypeInv', AtLine' => BatchOrder'
    PROVE  OrderInv'
<1>1. ASSUME NEW s \in Sessions PROVE OrderIn(s)'
  <2>1. /\ inbox[s] \in Seq(Lines) /\ DOMAIN inbox[s] = 1 .. Len(inbox[s]) /\ Len(inbox[s]) \in Nat
        /\ ReadTo(s) \in Nat /\ OrderIn(s)
    BY ReadToTypes DEF OrderInv
  <2>2. ReadTo(s)' \in Nat
    BY TypeParts DEF ReadTo, ReadType, PollType
  <2>3. \A i \in DOMAIN inbox[s] : 2 * i > ReadTo(s)' => 2 * i > ReadTo(s)
    BY <2>1, <2>2
  <2>4. QED BY <2>1, <2>3 DEF OrderIn
<1>2. QED BY <1>1 DEF OrderInv

\* What is left of a batch after its first line.
LEMMA TailOrder ==
    ASSUME TypeInv, AtLine, BatchOrder, NEW looped, Advance(looped),
           UNCHANGED <<sessions, inbox, half, sent>>, AtLine',
           \A k \in 2 .. Len(poll.batch), n \in typed'[Current] :
              poll.batch[k] # Garbage => n < poll.batch[k].id
    PROVE  BatchOrder'
<1> DEFINE b == poll.batch
           t == Tail(poll.batch)
<1>1. /\ Current' = Current /\ poll'.at = NextLine /\ poll'.batch = t
  BY AdvanceReads
<1>2. b \in Seq(Lines) /\ Len(b) \in Nat /\ Len(b) >= 1 /\ Current \in Sessions
  <2>1. b \in Seq(Lines) /\ Len(b) >= 1
    BY LineIs
  <2>2. QED BY <2>1, LineTypes
<1>3. /\ DOMAIN b = 1 .. Len(b) /\ DOMAIN t = 1 .. Len(b) - 1
      /\ \A k \in 1 .. Len(b) - 1 : t[k] = b[k + 1]
  BY <1>2
<1>4. \A k \in DOMAIN t : k + 1 \in 2 .. Len(b) /\ k + 1 \in DOMAIN b /\ t[k] = b[k + 1] /\ k \in Nat
  BY <1>2, <1>3
<1>5. Aligned' \/ Beyond'
  <2>1. CASE Aligned
    BY <1>1, <2>1, AlignedTail
  <2>2. CASE Beyond
    BY <1>1, <1>4, <2>2 DEF Beyond
  <2>3. QED BY <2>1, <2>2 DEF BatchOrder
<1> HIDE DEF b, t
<1>6. Rising(t)
  <2>1. Rising(b)
    BY DEF BatchOrder, b
  <2>2. ASSUME NEW i \in DOMAIN t, NEW j \in DOMAIN t, i < j, t[j] # Garbage PROVE t[i].id < t[j].id
    <3>1. /\ i + 1 \in DOMAIN b /\ j + 1 \in DOMAIN b /\ t[i] = b[i + 1] /\ t[j] = b[j + 1]
          /\ i + 1 < j + 1
      BY <1>4, <2>2
    <3>2. QED BY <2>1, <2>2, <3>1 DEF Rising
  <2>3. QED BY <2>2 DEF Rising
<1>7. /\ \A k \in DOMAIN t : t[k].id <= sent
      /\ \A k \in DOMAIN t : half[Current] # NoLine => t[k].id < half[Current].id
  BY <1>4 DEF BatchOrder, b
<1>8. \A k \in DOMAIN t, n \in typed'[Current] : t[k] # Garbage => n < t[k].id
  BY <1>4 DEF b
<1>9. QED BY <1>1, <1>5, <1>6, <1>7, <1>8 DEF BatchOrder

\* What a typed line is younger than, and what is younger than it.
LEMMA TypingOrder ==
    ASSUME TypeInv, OrderInv, AtLine, Readable
    PROVE  /\ Line.id \in Nat /\ Line.id <= sent
           /\ \A n \in typed[Current] : n < Line.id
           /\ half[Current] # NoLine => Line.id < half[Current].id
           /\ \A k \in 2 .. Len(poll.batch) : poll.batch[k] # Garbage => Line.id < poll.batch[k].id
           /\ \A i \in DOMAIN inbox[Current] :
                 2 * i > NextLine /\ inbox[Current][i] # Garbage => Line.id < inbox[Current][i].id
<1> DEFINE h == poll.at \div 2
<1>1. /\ poll.batch \in Seq(Lines) /\ Line = poll.batch[1] /\ Len(poll.batch) >= 1
      /\ h \in Nat /\ NextLine = 2 * h + 2
  BY LineIs
<1> HIDE DEF h
<1>2. 1 \in DOMAIN poll.batch /\ \A k \in 2 .. Len(poll.batch) : k \in DOMAIN poll.batch /\ 1 < k
  BY <1>1
<1>3. /\ Line \in Messages /\ Line # Garbage /\ Current \in Sessions /\ BatchOrder
  BY LineTypes, IdTypes DEF OrderInv
<1>4. ASSUME NEW i \in DOMAIN inbox[Current], 2 * i > NextLine, inbox[Current][i] # Garbage
      PROVE  Line.id < inbox[Current][i].id
  <2>1. inbox[Current] \in Seq(Lines)
    BY <1>3, ReadToTypes
  <2>2. CASE Aligned
    <3>1. h + Len(poll.batch) <= Len(inbox[Current]) /\ poll.batch[1] = inbox[Current][h + 1]
      BY <1>1, <2>2 DEF Aligned, h
    <3>2. h + 1 \in DOMAIN inbox[Current] /\ h + 1 < i
      BY <1>1, <1>4, <2>1, <3>1
    <3>3. Rising(inbox[Current])
      BY <1>3 DEF OrderInv, OrderIn
    <3>4. QED BY <1>1, <1>4, <3>1, <3>2, <3>3 DEF Rising
  <2>3. CASE Beyond
    BY <1>1, <1>2, <1>4, <2>3 DEF Beyond
  <2>4. QED BY <1>3, <2>2, <2>3 DEF BatchOrder
<1>5. QED BY <1>1, <1>2, <1>3, <1>4, IdTypes DEF BatchOrder, Rising

LEMMA TypeOrder ==
    ASSUME TypeInv, OrderInv, TypeLine
    PROVE  OrderInv'
<1>1. PICK c \in Sessions : c = Current
  BY LineTypes DEF TypeLine
<1>2. /\ AtLine /\ Readable /\ UNCHANGED <<sessions, inbox, half, sent>>
      /\ typed \in [Sessions -> SUBSET Ids] /\ typed' = [typed EXCEPT ![c] = @ \cup {Line.id}]
  BY <1>1, TypeParts DEF TypeLine, fileVars, OtherType
<1>3. PICK looped : Advance(looped)
  BY DEF TypeLine
<1>4. /\ ReadTo(c)' = NextLine /\ ReadTo(c) = poll.at /\ NextLine >= poll.at
      /\ NextLine \in Nat /\ poll.at \in Nat
      /\ \A s \in Sessions : s # c => ReadTo(s)' = ReadTo(s)
      /\ AtLine' => Current' = c
  BY <1>1, <1>2, <1>3, AdvanceReads, LineIs DEF ReadTo
<1>5. /\ Line.id \in Nat /\ Line.id <= sent
      /\ \A n \in typed[c] : n < Line.id
      /\ half[c] # NoLine => Line.id < half[c].id
      /\ \A k \in 2 .. Len(poll.batch) : poll.batch[k] # Garbage => Line.id < poll.batch[k].id
      /\ \A i \in DOMAIN inbox[c] :
            2 * i > NextLine /\ inbox[c][i] # Garbage => Line.id < inbox[c][i].id
  BY <1>1, <1>2, TypingOrder
<1>6. typed'[c] = typed[c] \cup {Line.id} /\ \A s \in Sessions : s # c => typed'[s] = typed[s]
  BY <1>2
<1>7. OrderIn(c)'
  <2>1. OrderIn(c) /\ inbox[c] \in Seq(Lines)
    BY ReadToTypes DEF OrderInv
  <2>2. \A n \in typed'[c] : n <= sent
    BY <1>5, <1>6, <2>1 DEF OrderIn
  <2>3. half[c] # NoLine => \A n \in typed'[c] : n < half[c].id
    BY <1>5, <1>6, <2>1 DEF OrderIn
  <2>4. ASSUME NEW i \in DOMAIN inbox[c], NEW n \in typed'[c], 2 * i > NextLine, inbox[c][i] # Garbage
        PROVE  n < inbox[c][i].id
    <3>1. CASE n = Line.id
      BY <1>5, <2>4, <3>1
    <3>2. CASE n \in typed[c]
      <4>1. 2 * i > ReadTo(c)
        BY <1>4, <2>1, <2>4
      <4>2. QED BY <2>1, <2>4, <3>2, <4>1 DEF OrderIn
    <3>3. QED BY <1>6, <3>1, <3>2
  <2>5. QED BY <1>2, <1>4, <2>1, <2>2, <2>3, <2>4 DEF OrderIn
<1>8. ASSUME NEW s \in Sessions, s # c PROVE OrderIn(s)'
  <2>1. OrderIn(s) /\ ReadTo(s)' = ReadTo(s) /\ typed'[s] = typed[s]
    BY <1>4, <1>6, <1>8 DEF OrderInv
  <2>2. QED BY <1>2, <2>1 DEF OrderIn
<1>9. ASSUME AtLine' PROVE BatchOrder'
  <2>1. BatchOrder /\ poll.batch \in Seq(Lines)
    BY <1>2, LineIs DEF OrderInv
  <2>2. ASSUME NEW k \in 2 .. Len(poll.batch), NEW n \in typed'[c], poll.batch[k] # Garbage
        PROVE  n < poll.batch[k].id
    <3>1. CASE n = Line.id
      BY <1>5, <2>2, <3>1
    <3>2. CASE n \in typed[c]
      BY <1>1, <2>1, <2>2, <3>2 DEF BatchOrder
    <3>3. QED BY <1>6, <3>1, <3>2
  <2>3. QED BY <1>1, <1>2, <1>3, <1>9, <2>1, <2>2, TailOrder
<1>10. QED BY <1>7, <1>8, <1>9 DEF OrderInv

LEMMA PollOrder ==
    ASSUME ~InjectMayRaise, TypeInv, TypeInv', OrderInv, Poll
    PROVE  OrderInv'
<1>1. /\ \A s \in Sessions : ReadTo(s) \in Nat /\ pos[s] \in Nat
      /\ pos \in [Sessions -> Nat]
  BY ReadToTypes, TypeParts DEF ReadType
<1>2. CASE PollBegins
  <2>1. ~AtLine /\ ~AtLine' /\ UNCHANGED <<pos, inbox, half, sent, typed>>
    BY <1>2 DEF PollBegins, Idle, AtLine, fileVars, typedVars, TypeInv
  <2>2. \A s \in Sessions : ReadTo(s)' = ReadTo(s)
    BY <2>1 DEF ReadTo
  <2>3. QED BY <1>1, <2>1, <2>2, ReadingOrder
<1>3. CASE NoInbox \/ NothingComplete
  <2>1. ~AtLine /\ UNCHANGED <<pos, inbox, half, sent, typed>> /\ Leave(poll.looped)
    BY <1>3 DEF NoInbox, NothingComplete, fileVars, typedVars, Opening
  <2>2. ~AtLine' /\ \A s \in Sessions : ReadTo(s)' = ReadTo(s)
    BY <2>1, LeaveReads DEF ReadTo
  <2>3. QED BY <1>1, <2>1, <2>2, ReadingOrder
<1>4. CASE HoldLine \/ Refused
  <2>1. /\ AtLine /\ Leave(poll.looped) /\ pos' = [pos EXCEPT ![Current] = poll.at]
        /\ UNCHANGED <<inbox, half, sent, typed>>
    BY <1>4 DEF HoldLine, Refused, HoldRest, fileVars, typedVars
  <2>2. ~AtLine' /\ \A s \in Sessions : ReadTo(s)' = ReadTo(s)
    BY <1>1, <2>1, LeaveReads DEF ReadTo
  <2>3. QED BY <1>1, <2>1, <2>2, ReadingOrder
<1>5. CASE Resync
  <2>1. PICK c \in Sessions : c = Current
    BY <1>5, Here DEF Resync, Opening
  <2>2. /\ ~AtLine /\ Leave(poll.looped) /\ pos' = [pos EXCEPT ![c] = FileSize(c)]
        /\ UNCHANGED <<inbox, half, sent, typed>>
    BY <1>5, <2>1 DEF Resync, Opening, fileVars, typedVars
  <2>3. ~AtLine' /\ \A s \in Sessions : ReadTo(s)' = IF s = c THEN FileSize(c) ELSE ReadTo(s)
    BY <1>1, <2>2, LeaveReads DEF ReadTo
  <2>4. FileSize(c) >= 2 * Len(inbox[c])
    BY ReadToTypes
  <2>5. QED BY <1>1, <2>2, <2>3, <2>4, ReadingOrder
<1>6. CASE ReadBatch
  <2>1. PICK c \in Sessions : c = Current
    BY <1>6, BatchIsRead
  <2>2. /\ Current' = c /\ poll'.at = pos[c] /\ Aligned' /\ poll'.batch \in Seq(Lines)
        /\ \A s \in Sessions : ReadTo(s)' = ReadTo(s) /\ ReadTo(s) = pos[s]
        /\ UNCHANGED <<inbox, half, sent, typed>>
    BY <1>6, <2>1, BatchIsRead DEF ReadBatch, fileVars, typedVars
  <2> DEFINE h == pos[c] \div 2
             b == poll'.batch
  <2>3. h \in Nat /\ (pos[c] = 2 * h \/ pos[c] = 2 * h + 1)
    BY <1>1, HalfLines
  <2>4. h + Len(b) <= Len(inbox[c]) /\ \A k \in 1 .. Len(b) : b[k] = inbox[c][h + k]
    BY <2>2 DEF Aligned
  <2>5. /\ inbox[c] \in Seq(Lines) /\ DOMAIN inbox[c] = 1 .. Len(inbox[c]) /\ Len(inbox[c]) \in Nat
        /\ DOMAIN b = 1 .. Len(b) /\ Len(b) \in Nat
    BY <2>2, ReadToTypes
  <2> HIDE DEF h, b
  <2>6. ASSUME NEW k \in DOMAIN b
        PROVE  h + k \in DOMAIN inbox[c] /\ b[k] = inbox[c][h + k] /\ 2 * (h + k) > pos[c] /\ k \in Nat
    <3>1. k \in 1 .. Len(b) /\ k \in Nat /\ b[k] = inbox[c][h + k]
      BY <2>4, <2>5
    <3>2. h + k \in 1 .. Len(inbox[c]) /\ 2 * (h + k) > pos[c]
      BY <1>1, <2>3, <2>4, <2>5, <3>1
    <3>3. QED BY <2>5, <3>1, <3>2
  <2>7. OrderIn(c)
    BY DEF OrderInv
  <2>8. Rising(b)
    <3>1. ASSUME NEW i \in DOMAIN b, NEW j \in DOMAIN b, i < j, b[j] # Garbage PROVE b[i].id < b[j].id
      <4>1. h + i < h + j
        BY <2>3, <2>6, <3>1
      <4>2. QED BY <2>6, <2>7, <3>1, <4>1 DEF OrderIn, Rising
    <3>2. QED BY <3>1 DEF Rising
  <2>9. /\ \A k \in DOMAIN b : b[k].id <= sent
        /\ \A k \in DOMAIN b : half[c] # NoLine => b[k].id < half[c].id
        /\ \A k \in DOMAIN b, n \in typed[c] : b[k] # Garbage => n < b[k].id
    BY <2>2, <2>6, <2>7 DEF OrderIn
  <2>10. BatchOrder'
    BY <2>2, <2>8, <2>9 DEF BatchOrder, b
  <2>11. QED BY <1>1, <2>2, <2>10, ReadingOrder
<1>7. CASE DropLine
  <2>1. AtLine /\ Advance(poll.looped) /\ UNCHANGED <<sessions, inbox, half, sent, typed>>
    BY <1>7 DEF DropLine, fileVars, typedVars
  <2>2. /\ \A s \in Sessions : ReadTo(s)' = IF s = Current THEN NextLine ELSE ReadTo(s)
        /\ NextLine >= poll.at /\ poll.batch \in Seq(Lines) /\ BatchOrder
        /\ \A s \in Sessions : s = Current => ReadTo(s) = poll.at
        /\ Current \in Sessions
    BY <2>1, AdvanceReads, LineIs, LineTypes DEF OrderInv, ReadTo
  <2>3. \A s \in Sessions : ReadTo(s)' >= ReadTo(s)
    BY <1>1, <2>2
  <2>4. \A k \in 2 .. Len(poll.batch), n \in typed'[Current] :
           poll.batch[k] # Garbage => n < poll.batch[k].id
    <3>1. \A k \in 2 .. Len(poll.batch) : k \in DOMAIN poll.batch
      BY <2>2
    <3>2. QED BY <2>1, <2>2, <3>1 DEF BatchOrder
  <2>5. AtLine' => BatchOrder'
    BY <2>1, <2>2, <2>4, TailOrder
  <2>6. QED BY <2>1, <2>3, <2>5, ReadingOrder
<1>8. CASE TypeLine
  BY <1>8, TypeOrder
<1>9. CASE InjectRaises
  BY <1>9 DEF InjectRaises
<1>10. QED BY <1>2, <1>3, <1>4, <1>5, <1>6, <1>7, <1>8, <1>9 DEF Poll

LEMMA ElsewhereOrder ==
    ASSUME TypeInv, OrderInv, UNCHANGED <<inbox, half, sent, typed, pos, poll>>,
           UNCHANGED sessions \/ ~Polling
    PROVE  OrderInv'
<1>1. CASE UNCHANGED sessions
  <2>1. /\ \A s \in Sessions : ReadTo(s)' = ReadTo(s)
        /\ AtLine' = AtLine /\ Current' = Current /\ (Aligned' <=> Aligned) /\ (Beyond' <=> Beyond)
    BY <1>1 DEF ReadTo, AtLine, Current, Aligned, Beyond
  <2>2. QED BY <1>1, <2>1 DEF OrderInv, OrderIn, BatchOrder
<1>2. CASE ~Polling
  <2>1. ~AtLine /\ ~AtLine'
    BY <1>2 DEF TypeInv, AtLine
  <2>2. QED BY <2>1 DEF OrderInv, OrderIn, ReadTo
<1>3. QED BY <1>1, <1>2

LEMMA StepOrder ==
    ~InjectMayRaise /\ TypeInv /\ TypeInv' /\ OrderInv /\ [Next]_vars => OrderInv'
<1> SUFFICES ASSUME ~InjectMayRaise, TypeInv, TypeInv', OrderInv, [Next]_vars PROVE OrderInv'
  OBVIOUS
<1>1. CASE UNCHANGED vars
  BY <1>1, ElsewhereOrder DEF vars, fileVars, typedVars
<1>2. CASE Poll
  BY <1>2, PollOrder
<1>3. ASSUME NEW s \in Sessions,
             \/ \E a \in Senders : Send(a, s) \/ SendHalf(a, s)
             \/ SendRest(s) \/ Stray(s) \/ Cut(s)
      PROVE  OrderInv'
  BY <1>3, WritersOrder
<1>4. ASSUME NEW s \in Sessions, Register(s) \/ HumanPrompt(s) \/ Terminal(s) PROVE OrderInv'
  BY <1>4, ElsewhereOrder DEF Register, HumanPrompt, Terminal, fileVars, typedVars
<1>5. CASE Tick \/ \E k \in Pairs, on \in BOOLEAN : Mute(k, on)
  BY <1>5, ElsewhereOrder DEF Tick, Mute, fileVars, typedVars
<1>6. QED BY <1>1, <1>2, <1>3, <1>4, <1>5 DEF Next

\* Only TypeLine types.
LEMMA OnlyTypeLine == [Next]_vars => TypeLine \/ UNCHANGED <<typed, again>>
BY DEF Next, vars, Poll, Send, SendHalf, SendRest, Stray, Cut, Register, HumanPrompt, Terminal,
       Mute, Tick, PollBegins, NoInbox, Resync, NothingComplete, ReadBatch, DropLine, HoldLine,
       Refused, InjectRaises, typedVars

LEMMA TypesOnce ==
    ASSUME TypeInv, OrderInv, [Next]_vars
    PROVE  /\ \A s \in Sessions : \A m \in typed'[s] \ typed[s], n \in typed[s] : m > n
           /\ again = {} => again' = {}
<1>1. CASE UNCHANGED <<typed, again>>
  BY <1>1
<1>2. CASE TypeLine
  <2>1. /\ Line.id \in Nat /\ \A n \in typed[Current] : n < Line.id
        /\ Current \in Sessions /\ typed[Current] \subseteq Nat
    BY <1>2, LineTypes, TypingOrder, OrderTypes DEF TypeLine
  <2>2. /\ typed' = [typed EXCEPT ![Current] = @ \cup {Line.id}]
        /\ typed \in [Sessions -> SUBSET Ids]
        /\ again' = IF Line.id \in typed[Current] THEN again \cup {Line.id} ELSE again
    BY <1>2, TypeParts DEF TypeLine, OtherType
  <2>3. Line.id \notin typed[Current]
    BY <2>1
  <2>4. ASSUME NEW s \in Sessions, NEW m \in typed'[s] \ typed[s], NEW n \in typed[s] PROVE m > n
    <3>1. s = Current /\ m = Line.id
      BY <2>1, <2>2
    <3>2. QED BY <2>1, <3>1
  <2>5. QED BY <2>2, <2>3, <2>4
<1>3. QED BY <1>1, <1>2, OnlyTypeLine

\* poll_inboxes types no message twice into a session and none after a later
\* one, as long as inject_input returns: an exception takes the batch's offset
\* with it, and the next poll types again what was typed.
THEOREM MailIsTypedOnceInOrder ==
    ASSUME ~InjectMayRaise
    PROVE  Spec => OnceInOrder
<1> DEFINE Inv == TypeInv /\ OrderInv /\ again = {}
           InOrder == \A s \in Sessions : \A m \in typed'[s] \ typed[s], n \in typed[s] : m > n
<1>1. Init => Inv
  BY InitTypes, InitOrder DEF Init
<1>2. Inv /\ [Next]_vars => Inv'
  BY StepTypes, StepOrder, TypesOnce
<1>3. Inv => again = {}
  OBVIOUS
<1>4. Inv /\ [Next]_vars => InOrder
  BY TypesOnce
<1> HIDE DEF Inv, InOrder
<1>5. Spec => [](again = {}) /\ [][InOrder]_vars
  BY <1>1, <1>2, <1>3, <1>4, PTL DEF Spec
<1>6. QED BY <1>5 DEF OnceInOrder, InOrder
=============================================================================
