---------------------------- MODULE PhonesProofs ----------------------------
(***************************************************************************)
(* Theorems about what the server keeps for the phones.                    *)
(*                                                                         *)
(* Their sockets (Presence): for every number of connections and devices   *)
(* and every patience of the reaper.  Their prompts (PromptQueue, which    *)
(* shares no state with it): for any conversations and prompts, and for    *)
(* reorder requests of any length.  The envelopes either side lets through *)
(* (ReplayGuard, a third state of its own): for any that may arrive, any   *)
(* age and limit.                                                          *)
(***************************************************************************)
EXTENDS Presence, PromptQueue, ReplayGuard, FiniteSetTheorems, SequenceTheorems, TLAPS

-----------------------------------------------------------------------------
(* Sockets *)

Kept(s) == device[s] # Nobody \/ s \in focus \/ age[s] # -1

\* What every step keeps of one socket.  Nothing is known of it before it
\* connects; as long as its phone has never slept, its last sign of life is
\* fresh and no sweep has it on its list.
SocketInv(s) ==
    /\ hand[s] = "none" <=> link[s] = "new"
    /\ Kept(s) => hand[s] \in {"loop", "lost"}
    /\ s \in conn \cup reaping => hand[s] # "none"
    /\ link[s] = "up" => age[s] = 0 /\ s \notin reaping

PInv == TypeOK /\ \A s \in Sockets : SocketInv(s)

-----------------------------------------------------------------------------
\* The count never exceeds the number of devices.
LEMMA CountInRange ==
    ASSUME NEW dev \in [Sockets -> Devices \cup {Nobody}]
    PROVE  Count(dev) \in 0 .. Bound
<1> DEFINE D == {dev[s] : s \in Sockets} \ {Nobody}
<1>1. D \subseteq Devices
  OBVIOUS
<1>2. IsFiniteSet(D) /\ Cardinality(D) <= Cardinality(Devices)
  BY <1>1, PresenceAssumption, FS_Subset
<1>3. Cardinality(D) \in Nat /\ Cardinality(Devices) \in Nat
  BY <1>2, PresenceAssumption, FS_CardinalityType
<1>4. QED BY <1>2, <1>3 DEF Count, Bound

\* An announcement keeps the types of what it writes.
LEMMA AnnouncementType ==
    ASSUME TypeOK, NEW C \in SUBSET Sockets, Announces(C) \/ AnnounceRaises(C),
           device' \in [Sockets -> Devices \cup {Nobody}]
    PROVE  /\ conn' \subseteq C
           /\ told' \in [Sockets -> 0 .. Bound]
           /\ owed' \in BOOLEAN
<1>1. CASE Announces(C)
  <2>1. Count(device') \in 0 .. Bound
    BY CountInRange
  <2>2. QED BY <1>1, <2>1 DEF TypeOK, Announces, Reached
<1>2. CASE AnnounceRaises(C)
  BY <1>2 DEF TypeOK, AnnounceRaises
<1>3. QED BY <1>1, <1>2

\* To forget a socket keeps the types, and touches no other socket.
LEMMA ForgetsType ==
    ASSUME TypeOK, NEW s \in Sockets, Forgets(s)
    PROVE  /\ device' \in [Sockets -> Devices \cup {Nobody}]
           /\ age' \in [Sockets -> -1 .. Limit + 1]
           /\ focus' \subseteq Sockets
           /\ ~Kept(s)'
           /\ \A t \in Sockets \ {s} : Kept(t)' <=> Kept(t)
           /\ \A t \in Sockets \ {s} : age'[t] = age[t]
BY PresenceAssumption DEF TypeOK, Forgets, Kept

-----------------------------------------------------------------------------
LEMMA InvInit == Init => PInv
<1> SUFFICES ASSUME Init PROVE PInv
  OBVIOUS
<1>1. Bound \in Nat
  BY PresenceAssumption, FS_CardinalityType DEF Bound
<1>2. 0 \in 0 .. Bound /\ -1 \in -1 .. Limit + 1
  BY <1>1, PresenceAssumption
<1>3. TypeOK
  BY <1>2 DEF Init, TypeOK, Links, Hands
<1>4. \A s \in Sockets : SocketInv(s)
  BY DEF Init, SocketInv, Kept
<1>5. QED BY <1>3, <1>4 DEF PInv

LEMMA InvNext == PInv /\ [Next]_vars => PInv'
<1> SUFFICES ASSUME PInv, [Next]_vars PROVE PInv'
  OBVIOUS
<1> USE PresenceAssumption
<1>t. TypeOK /\ \A t \in Sockets : SocketInv(t)
  BY DEF PInv
<1>1. ASSUME NEW s \in Sockets, FallsAsleep(s) PROVE PInv'
  BY <1>t, <1>1 DEF FallsAsleep, Talks, books, PInv, TypeOK, Links, SocketInv, Kept
<1>2. ASSUME NEW s \in Sockets, WakesUp(s) PROVE PInv'
  BY <1>t, <1>2 DEF WakesUp, books, PInv, TypeOK, Links, SocketInv, Kept
<1>3. ASSUME NEW s \in Sockets, Breaks(s) PROVE PInv'
  BY <1>t, <1>3 DEF Breaks, Talks, books, PInv, TypeOK, Links, SocketInv, Kept
<1>4. ASSUME NEW s \in Sockets, Connect(s) PROVE PInv'
  <2>1. device' \in [Sockets -> Devices \cup {Nobody}]
    BY <1>t, <1>4 DEF Connect, TypeOK
  <2>2. /\ Announces(conn \cup {s}) \/ AnnounceRaises(conn \cup {s})
        /\ conn \cup {s} \in SUBSET Sockets
    BY <1>t, <1>4 DEF Connect, TypeOK
  <2>3. /\ conn' \subseteq conn \cup {s}
        /\ told' \in [Sockets -> 0 .. Bound]
        /\ owed' \in BOOLEAN
    BY <1>t, <2>1, <2>2, AnnouncementType
  <2>4. TypeOK'
    BY <1>t, <1>4, <2>1, <2>3 DEF Connect, TypeOK, Links, Hands
  <2>5. ASSUME NEW t \in Sockets PROVE SocketInv(t)'
    BY <1>t, <1>4, <2>3 DEF Connect, TypeOK, SocketInv, Kept
  <2>6. QED BY <2>4, <2>5 DEF PInv
<1>5. ASSUME NEW s \in Sockets, Frame(s) PROVE PInv'
  BY <1>t, <1>5 DEF Frame, Talks, PInv, TypeOK, SocketInv, Kept
<1>6. ASSUME NEW s \in Sockets, Leave(s) PROVE PInv'
  <2>1. Forgets(s) /\ UNCHANGED <<link, reaping, expired>>
    BY <1>6 DEF Leave
  <2>2. /\ Announces(conn \ {s}) \/ AnnounceRaises(conn \ {s})
        /\ conn \ {s} \in SUBSET Sockets
    BY <1>t, <1>6 DEF Leave, TypeOK
  <2>3. /\ conn' \subseteq conn \ {s}
        /\ told' \in [Sockets -> 0 .. Bound]
        /\ owed' \in BOOLEAN
    BY <1>t, <2>1, <2>2, ForgetsType, AnnouncementType
  <2>4. TypeOK'
    BY <1>t, <1>6, <2>1, <2>3, ForgetsType DEF Leave, TypeOK, Hands
  <2>5. ASSUME NEW t \in Sockets PROVE SocketInv(t)'
    BY <1>t, <1>6, <2>1, <2>3, ForgetsType DEF Leave, TypeOK, SocketInv
  <2>6. QED BY <2>4, <2>5 DEF PInv
<1>7. ASSUME NEW s \in Sockets, ReapOne(s) PROVE PInv'
  <2>1. Forgets(s) /\ UNCHANGED <<hand, expired>> /\ reaping' = reaping \ {s}
    BY <1>7 DEF ReapOne
  <2>2. conn \ {s} \in SUBSET Sockets
    BY <1>t DEF TypeOK
  <2>3. /\ conn' \subseteq conn \ {s}
        /\ told' \in [Sockets -> 0 .. Bound]
        /\ owed' \in BOOLEAN
    <3>1. CASE reaping = {s}
      BY <1>t, <1>7, <2>1, <2>2, <3>1, ForgetsType, AnnouncementType DEF ReapOne
    <3>2. CASE reaping # {s}
      BY <1>t, <1>7, <3>2 DEF ReapOne, TypeOK
    <3>3. QED BY <3>1, <3>2
  <2>4. link' = [link EXCEPT ![s] = "broken"]
    BY <1>7 DEF ReapOne
  <2>5. TypeOK'
    BY <1>t, <2>1, <2>3, <2>4, ForgetsType DEF TypeOK, Links
  <2>6. ASSUME NEW t \in Sockets PROVE SocketInv(t)'
    BY <1>t, <1>7, <2>1, <2>3, <2>4, ForgetsType DEF ReapOne, TypeOK, SocketInv
  <2>7. QED BY <2>5, <2>6 DEF PInv
<1>8. ASSUME Broadcast PROVE PInv'
  BY <1>t, <1>8 DEF Broadcast, Reached, PInv, TypeOK, SocketInv, Kept
<1>9. ASSUME Tick PROVE PInv'
  <2>1. \A t \in Sockets : /\ age'[t] \in -1 .. Limit + 1
                           /\ age'[t] # -1 => age[t] # -1
                           /\ link[t] = "up" => age'[t] = 0
    BY <1>t, <1>9 DEF Tick, Heard, Talks, TypeOK, SocketInv
  <2>2. TypeOK'
    BY <1>t, <1>9, <2>1 DEF Tick, TypeOK
  <2>3. ASSUME NEW t \in Sockets PROVE SocketInv(t)'
    BY <1>t, <1>9, <2>1 DEF Tick, SocketInv, Kept
  <2>4. QED BY <2>2, <2>3 DEF PInv
<1>10. ASSUME Reap PROVE PInv'
  <2>1. \A t \in reaping' : t \in Sockets /\ t \in conn /\ age[t] # 0
    BY <1>t, <1>10 DEF Reap, Stale, TypeOK
  <2>2. TypeOK'
    BY <1>t, <1>10, <2>1 DEF Reap, TypeOK, books
  <2>3. ASSUME NEW t \in Sockets PROVE SocketInv(t)'
    BY <1>t, <1>10, <2>1 DEF Reap, SocketInv, Kept, books
  <2>4. QED BY <2>2, <2>3 DEF PInv
<1>11. ASSUME Expire PROVE PInv'
  BY <1>t, <1>11 DEF Expire, PInv, TypeOK, Links, SocketInv, Kept
<1>12. CASE UNCHANGED vars
  BY <1>t, <1>12 DEF vars, books, PInv, TypeOK, SocketInv, Kept
<1>13. QED
  BY <1>1, <1>2, <1>3, <1>4, <1>5, <1>6, <1>7, <1>8, <1>9, <1>10, <1>11, <1>12 DEF Next

\* The inductive invariant of the books kept per socket.
THEOREM PresenceInvariant == Spec => []PInv
<1>1. PInv /\ [Next]_vars => PInv'
  BY InvNext
<1>2. QED BY InvInit, <1>1, PTL DEF Spec

\* Type correctness, the count among it: no page is ever told of more devices
\* than there are, however many sockets they hold.
THEOREM PresenceTypes == Spec => []TypeOK
<1>1. PInv => TypeOK
  BY DEF PInv
<1>2. QED BY PresenceInvariant, <1>1, PTL

\* unregister_client and reap_stale_clients leave nothing of a socket whose
\* handler has ended.
THEOREM NothingIsLeft == Spec => []EntriesHaveHandlers
<1>1. PInv => EntriesHaveHandlers
  BY DEF PInv, SocketInv, Kept, EntriesHaveHandlers
<1>2. QED BY PresenceInvariant, <1>1, PTL

\* No sweep of reap_stale_clients takes a connection whose phone never slept.
THEOREM AwakeIsSpared == Spec => SweepSparesTheAwake
<1>1. PInv /\ [Next]_vars => [\A s \in Sockets : s \in reaping \ reaping' => link[s] # "up"]_vars
  BY DEF PInv, SocketInv
<1>2. QED BY PresenceInvariant, <1>1, PTL DEF Spec, SweepSparesTheAwake
-----------------------------------------------------------------------------
(* Prompts: what PromptQueue's operators on queues keep *)

Rank(S, i) == Cardinality({j \in S : j <= i})

\* The ranks of the members of S are 1 to its cardinality, each once.
LEMMA Ranks ==
    ASSUME NEW S \in SUBSET Nat, IsFiniteSet(S)
    PROVE  /\ Cardinality(S) \in Nat
           /\ \A i \in S : Rank(S, i) \in 1 .. Cardinality(S)
           /\ \A i, j \in S : Rank(S, i) = Rank(S, j) => i = j
           /\ \A n \in 1 .. Cardinality(S) : \E i \in S : Rank(S, i) = n
<1> DEFINE k == Cardinality(S)
           Upto(i) == {j \in S : j <= i}
           f == [i \in S |-> Rank(S, i)]
<1>1. k \in Nat
  BY FS_CardinalityType
<1>2. ASSUME NEW i \in S
      PROVE  IsFiniteSet(Upto(i)) /\ Rank(S, i) \in 1 .. k
  <2>1. Upto(i) \in SUBSET S /\ i \in Upto(i)
    OBVIOUS
  <2>2. IsFiniteSet(Upto(i)) /\ Rank(S, i) <= k
    BY <2>1, FS_Subset DEF Rank
  <2>3. Rank(S, i) \in Nat /\ Rank(S, i) # 0
    BY <2>1, <2>2, FS_CardinalityType, FS_EmptySet DEF Rank
  <2>4. QED BY <1>1, <2>2, <2>3
<1>3. ASSUME NEW i \in S, NEW j \in S, i < j
      PROVE  Rank(S, i) # Rank(S, j)
  <2>1. \A m \in S : m <= i => m <= j
    BY <1>3
  <2>2. j \in Upto(j) /\ j \notin Upto(i)
    BY <1>3
  <2>3. Upto(i) \in SUBSET Upto(j) /\ Upto(i) # Upto(j)
    BY <2>1, <2>2
  <2>4. IsFiniteSet(Upto(j))
    BY <1>2
  <2>5. QED BY <2>3, <2>4, FS_Subset DEF Rank
<1>4. \A i, j \in S : Rank(S, i) = Rank(S, j) => i = j
  BY <1>3
<1>5. f \in Injection(S, 1 .. k)
  BY <1>2, <1>4 DEF Injection, IsInjective
<1>6. IsFiniteSet(1 .. k) /\ Cardinality(1 .. k) = k
  BY <1>1, FS_Interval
<1>7. f \in Surjection(S, 1 .. k)
  BY <1>5, <1>6, FS_Injection
<1>8. ASSUME NEW n \in 1 .. k
      PROVE  \E i \in S : Rank(S, i) = n
  BY <1>7 DEF Surjection
<1>9. QED BY <1>1, <1>2, <1>4, <1>8

\* Nth goes through the members of a finite set of numbers, each once.
LEMMA NthIsMember ==
    ASSUME NEW S \in SUBSET Nat, IsFiniteSet(S)
    PROVE  /\ \A n \in 1 .. Cardinality(S) : Nth(S, n) \in S
           /\ \A m, n \in 1 .. Cardinality(S) : Nth(S, m) = Nth(S, n) => m = n
           /\ \A i \in S : \E n \in 1 .. Cardinality(S) : Nth(S, n) = i
<1>1. ASSUME NEW n \in 1 .. Cardinality(S)
      PROVE  Nth(S, n) \in S /\ Rank(S, Nth(S, n)) = n
  <2>1. Nth(S, n) = CHOOSE i \in S : Rank(S, i) = n
    BY DEF Nth, Rank
  <2>2. \E i \in S : Rank(S, i) = n
    BY Ranks
  <2>3. QED BY <2>1, <2>2
<1>2. ASSUME NEW i \in S
      PROVE  Nth(S, Rank(S, i)) = i
  <2>1. Rank(S, i) \in 1 .. Cardinality(S)
    BY Ranks
  <2>2. Nth(S, Rank(S, i)) \in S /\ Rank(S, Nth(S, Rank(S, i))) = Rank(S, i)
    BY <1>1, <2>1
  <2>3. \A a, b \in S : Rank(S, a) = Rank(S, b) => a = b
    BY Ranks
  <2>4. QED BY <2>2, <2>3
<1>3. QED BY <1>1, <1>2, Ranks

\* At keeps what stands at the positions, and nothing else.
LEMMA AtKeeps ==
    ASSUME NEW T, NEW q \in Seq(T), NEW S \in SUBSET DOMAIN q
    PROVE  /\ At(q, S) \in Seq(T)
           /\ Range(At(q, S)) = {q[i] : i \in S}
           /\ (\A i, j \in S : q[i] = q[j] => i = j) => IsInjective(At(q, S))
<1> DEFINE k == Cardinality(S)
<1>1. DOMAIN q = 1 .. Len(q) /\ Len(q) \in Nat
  OBVIOUS
<1>2. S \in SUBSET Nat /\ IsFiniteSet(S) /\ k \in Nat
  <2>1. IsFiniteSet(1 .. Len(q)) /\ S \in SUBSET (1 .. Len(q))
    BY <1>1, FS_Interval
  <2>2. IsFiniteSet(S)
    BY <2>1, FS_Subset
  <2>3. QED BY <2>1, <2>2, FS_CardinalityType
<1>3. /\ \A n \in 1 .. k : Nth(S, n) \in S
      /\ \A m, n \in 1 .. k : Nth(S, m) = Nth(S, n) => m = n
      /\ \A i \in S : \E n \in 1 .. k : Nth(S, n) = i
  BY <1>2, NthIsMember
<1>4. DOMAIN At(q, S) = 1 .. k /\ \A n \in 1 .. k : At(q, S)[n] = q[Nth(S, n)]
  BY DEF At
<1>5. \A i \in S : q[i] \in T
  BY <1>1, ElementOfSeq
<1>6. At(q, S) \in [1 .. k -> T]
  <2>1. At(q, S) = [n \in 1 .. k |-> q[Nth(S, n)]]
    BY DEF At
  <2>2. QED BY <1>3, <1>5, <2>1
<1>7. At(q, S) \in Seq(T)
  BY <1>2, <1>6, SeqDef
<1>8. Range(At(q, S)) = {q[i] : i \in S}
  BY <1>3, <1>4 DEF Range
<1>9. ASSUME \A i, j \in S : q[i] = q[j] => i = j
      PROVE  IsInjective(At(q, S))
  BY <1>3, <1>4, <1>9 DEF IsInjective
<1>10. QED BY <1>7, <1>8, <1>9

\* A nonempty finite set of numbers has a least one.
LEMMA LeastMember ==
    ASSUME NEW S \in SUBSET Nat, IsFiniteSet(S), S # {}
    PROVE  \E i \in S : \A j \in S : i <= j
<1>1. Cardinality(S) \in Nat /\ Cardinality(S) # 0
  BY FS_CardinalityType, FS_EmptySet
<1>2. PICK i \in S : Rank(S, i) = 1
  BY <1>1, Ranks
<1> DEFINE Upto == {m \in S : m <= i}
<1>3. Upto \in SUBSET S /\ i \in Upto
  OBVIOUS
<1>4. IsFiniteSet(Upto) /\ Cardinality(Upto) = 1
  BY <1>2, <1>3, FS_Subset DEF Rank
<1>5. PICK x : Upto = {x}
  BY <1>4, FS_Singleton
<1>6. Upto = {i}
  BY <1>3, <1>5
<1>7. ASSUME NEW j \in S
      PROVE  i <= j
  <2>1. i \in Nat /\ j \in Nat
    OBVIOUS
  <2>2. j <= i => j = i
    BY <1>6
  <2>3. QED BY <2>1, <2>2
<1>8. QED BY <1>7

\* Two sequences without repeats and with nothing in common make one.
LEMMA ConcatIsInjective ==
    ASSUME NEW T, NEW s \in Seq(T), NEW t \in Seq(T),
           IsInjective(s), IsInjective(t), Range(s) \cap Range(t) = {}
    PROVE  IsInjective(s \o t)
<1> DEFINE r == s \o t
<1>1. PICK m \in Nat : m = Len(s)
  OBVIOUS
<1>2. PICK n \in Nat : n = Len(t)
  OBVIOUS
<1>3. DOMAIN s = 1 .. m /\ DOMAIN t = 1 .. n /\ DOMAIN r = 1 .. m + n
  BY <1>1, <1>2
<1>4. /\ \A i \in 1 .. m : r[i] = s[i]
      /\ \A i \in m + 1 .. m + n : i - m \in 1 .. n /\ r[i] = t[i - m]
  BY <1>1, <1>2
<1>5. \A i \in 1 .. m, j \in 1 .. n : s[i] # t[j]
  BY <1>3 DEF Range
<1> HIDE DEF r
<1>6. ASSUME NEW i \in 1 .. m + n, NEW j \in 1 .. m + n, r[i] = r[j]
      PROVE  i = j
  <2>1. CASE i \in 1 .. m /\ j \in 1 .. m
    BY <1>3, <1>4, <1>6, <2>1 DEF IsInjective
  <2>2. CASE i \in 1 .. m /\ j \in m + 1 .. m + n
    BY <1>4, <1>5, <1>6, <2>2
  <2>3. CASE i \in m + 1 .. m + n /\ j \in 1 .. m
    BY <1>4, <1>5, <1>6, <2>3
  <2>4. CASE i \in m + 1 .. m + n /\ j \in m + 1 .. m + n
    <3>1. i - m \in 1 .. n /\ j - m \in 1 .. n /\ t[i - m] = t[j - m]
      BY <1>4, <1>6, <2>4
    <3>2. i - m = j - m
      BY <1>3, <3>1 DEF IsInjective
    <3>3. QED BY <3>2
  <2>5. QED BY <2>1, <2>2, <2>3, <2>4
<1>7. QED BY <1>3, <1>6 DEF IsInjective, r

\* A reordered queue holds what the queue held, each entry once.
LEMMA ReorderedKeeps ==
    ASSUME NEW q \in Seq(Prompts), IsInjective(q), NEW ids \in Seq(Prompts)
    PROVE  /\ Reordered(q, ids) \in Seq(Prompts)
           /\ IsInjective(Reordered(q, ids))
           /\ Range(Reordered(q, ids)) = Range(q)
<1> DEFINE A == Listed(q, ids) \cap FirstsOf(ids)
           B == Unlisted(q, ids)
           s == At(ids, A)
           t == At(q, B)
<1>1. DOMAIN q = 1 .. Len(q) /\ DOMAIN ids = 1 .. Len(ids)
  OBVIOUS
<1>2. /\ \A i : i \in A <=> /\ i \in DOMAIN ids
                            /\ ids[i] \in Range(q)
                            /\ \A j \in DOMAIN ids : j < i => ids[j] # ids[i]
      /\ \A i : i \in B <=> i \in DOMAIN q /\ q[i] \notin Range(ids)
  BY <1>1 DEF Listed, FirstsOf, Unlisted, Contains, Range
<1>3. A \in SUBSET DOMAIN ids /\ B \in SUBSET DOMAIN q
  BY <1>2
<1> HIDE DEF A, B
<1>4. /\ s \in Seq(Prompts) /\ Range(s) = {ids[i] : i \in A}
      /\ (\A i, j \in A : ids[i] = ids[j] => i = j) => IsInjective(s)
  BY <1>3, AtKeeps
<1>5. /\ t \in Seq(Prompts) /\ Range(t) = {q[i] : i \in B}
      /\ (\A i, j \in B : q[i] = q[j] => i = j) => IsInjective(t)
  BY <1>3, AtKeeps
<1> HIDE DEF s, t
<1>6. \A i, j \in A : ids[i] = ids[j] => i = j
  BY <1>1, <1>2
<1>7. \A i, j \in B : q[i] = q[j] => i = j
  BY <1>3 DEF IsInjective
<1>8. ASSUME NEW p \in Range(q), p \in Range(ids)
      PROVE  \E i \in A : ids[i] = p
  <2> DEFINE S == {i \in DOMAIN ids : ids[i] = p}
  <2>1. S # {} /\ S \in SUBSET (1 .. Len(ids))
    BY <1>1, <1>8 DEF Range
  <2>2. S \in SUBSET Nat /\ IsFiniteSet(S)
    <3>1. IsFiniteSet(1 .. Len(ids))
      BY FS_Interval
    <3>2. QED BY <2>1, <3>1, FS_Subset
  <2>3. PICK i \in S : \A j \in S : i <= j
    BY <2>1, <2>2, LeastMember
  <2>4. \A j \in DOMAIN ids : j < i => ids[j] # ids[i]
    BY <1>1, <2>3
  <2>5. QED BY <1>2, <2>3, <2>4
<1>9. Range(s) = Range(q) \cap Range(ids)
  <2>1. \A i \in A : ids[i] \in Range(q) /\ ids[i] \in Range(ids)
    BY <1>2 DEF Range
  <2>2. QED BY <1>4, <1>8, <2>1
<1>10. Range(t) = Range(q) \ Range(ids)
  BY <1>2, <1>5 DEF Range
<1>11. IsInjective(s \o t) /\ s \o t \in Seq(Prompts)
  BY <1>4, <1>5, <1>6, <1>7, <1>9, <1>10, ConcatIsInjective
<1>12. Range(s \o t) = Range(q)
  <2>1. Range(s \o t) = Range(s) \cup Range(t)
    BY <1>4, <1>5, RangeConcatenation
  <2>2. QED BY <1>9, <1>10, <2>1
<1>13. Reordered(q, ids) = s \o t
  BY DEF Reordered, s, t, A, B
<1>14. QED BY <1>11, <1>12, <1>13

\* To take one entry out leaves the others.
LEMMA RemoveAtKeeps ==
    ASSUME NEW q \in Seq(Prompts), IsInjective(q), NEW i \in DOMAIN q
    PROVE  /\ RemoveAt(q, i) \in Seq(Prompts)
           /\ IsInjective(RemoveAt(q, i))
           /\ Range(RemoveAt(q, i)) = Range(q) \ {q[i]}
<1> DEFINE s == SubSeq(q, 1, i - 1)
           t == SubSeq(q, i + 1, Len(q))
<1>1. PICK n \in Nat : n = Len(q) /\ DOMAIN q = 1 .. n
  OBVIOUS
<1>2. /\ s \in Seq(Prompts) /\ DOMAIN s = 1 .. i - 1
      /\ \A j \in 1 .. i - 1 : s[j] = q[j]
  BY <1>1
<1>3. /\ t \in Seq(Prompts) /\ DOMAIN t = 1 .. n - i
      /\ \A j \in 1 .. n - i : t[j] = q[i + j]
  BY <1>1
<1>4. RemoveAt(q, i) = s \o t
  BY DEF RemoveAt
<1> HIDE DEF s, t
<1>5. Range(s) = {q[j] : j \in 1 .. i - 1}
  BY <1>2 DEF Range
<1>6. Range(t) = {q[j] : j \in i + 1 .. n}
  <2>1. ASSUME NEW j \in i + 1 .. n
        PROVE  j - i \in 1 .. n - i /\ t[j - i] = q[j]
    <3>1. j - i \in 1 .. n - i /\ i + (j - i) = j
      BY <1>1
    <3>2. QED BY <1>3, <3>1
  <2>2. ASSUME NEW j \in 1 .. n - i
        PROVE  i + j \in i + 1 .. n /\ t[j] = q[i + j]
    BY <1>1, <1>3
  <2>3. QED BY <1>3, <2>1, <2>2 DEF Range
<1>7. \A j \in 1 .. n : q[j] = q[i] <=> j = i
  BY <1>1 DEF IsInjective
<1>8. Range(s) \cup Range(t) = Range(q) \ {q[i]}
  <2>1. \A j \in 1 .. n : j # i <=> j \in 1 .. i - 1 \/ j \in i + 1 .. n
    BY <1>1
  <2>2. \A j : j \in 1 .. i - 1 \/ j \in i + 1 .. n => j \in 1 .. n
    BY <1>1
  <2>3. QED BY <1>1, <1>5, <1>6, <1>7, <2>1, <2>2 DEF Range
<1>9. Range(s) \cap Range(t) = {}
  <2>1. \A j \in 1 .. i - 1, k \in i + 1 .. n : j \in 1 .. n /\ k \in 1 .. n /\ j # k
    BY <1>1
  <2>2. QED BY <1>1, <1>5, <1>6, <2>1 DEF IsInjective
<1>10. IsInjective(s) /\ IsInjective(t)
  <2>1. IsInjective(s)
    BY <1>1, <1>2 DEF IsInjective
  <2>2. ASSUME NEW j \in 1 .. n - i, NEW k \in 1 .. n - i, t[j] = t[k]
        PROVE  j = k
    <3>1. i + j \in 1 .. n /\ i + k \in 1 .. n /\ q[i + j] = q[i + k]
      BY <1>1, <1>3, <2>2
    <3>2. i + j = i + k
      BY <1>1, <3>1 DEF IsInjective
    <3>3. QED BY <1>1, <3>2
  <2>3. QED BY <1>3, <2>1, <2>2 DEF IsInjective
<1>11. IsInjective(s \o t) /\ s \o t \in Seq(Prompts)
  BY <1>2, <1>3, <1>9, <1>10, ConcatIsInjective
<1>12. Range(s \o t) = Range(q) \ {q[i]}
  BY <1>2, <1>3, <1>8, RangeConcatenation
<1>13. QED BY <1>4, <1>11, <1>12

\* Delivery takes the head out.
LEMMA TailKeeps ==
    ASSUME NEW q \in Seq(Prompts), q # <<>>, IsInjective(q)
    PROVE  /\ Head(q) \in Range(q) /\ Tail(q) \in Seq(Prompts)
           /\ IsInjective(Tail(q))
           /\ Range(Tail(q)) = Range(q) \ {Head(q)}
<1>1. 1 \in DOMAIN q /\ Head(q) = q[1]
  OBVIOUS
<1>2. Tail(q) = RemoveAt(q, 1)
  <2> DEFINE t == SubSeq(q, 2, Len(q))
  <2>1. SubSeq(q, 1, 0) = <<>> /\ Tail(q) = t /\ t \in Seq(Prompts)
    OBVIOUS
  <2> HIDE DEF t
  <2>2. <<>> \o t = t
    BY <2>1
  <2>3. RemoveAt(q, 1) = SubSeq(q, 1, 0) \o t
    BY DEF RemoveAt, t
  <2>4. QED BY <2>1, <2>2, <2>3
<1>3. Head(q) \in Range(q)
  BY <1>1 DEF Range
<1>4. QED BY <1>1, <1>2, <1>3, RemoveAtKeeps

\* Cancelling takes out the entry named.
LEMMA RemoveFirstKeeps ==
    ASSUME NEW q \in Seq(Prompts), IsInjective(q), NEW p, Contains(q, p)
    PROVE  /\ p \in Range(q)
           /\ RemoveFirst(q, p) \in Seq(Prompts)
           /\ IsInjective(RemoveFirst(q, p))
           /\ Range(RemoveFirst(q, p)) = Range(q) \ {p}
<1> DEFINE I == {i \in 1 .. Len(q) : q[i] = p}
<1>1. I # {} /\ I \in SUBSET (1 .. Len(q)) /\ DOMAIN q = 1 .. Len(q)
  BY DEF Contains
<1>2. I \in SUBSET Nat /\ IsFiniteSet(I)
  <2>1. IsFiniteSet(1 .. Len(q))
    BY FS_Interval
  <2>2. QED BY <1>1, <2>1, FS_Subset
<1>3. \E i \in I : \A j \in I : i <= j
  BY <1>1, <1>2, LeastMember
<1>4. Min(I) \in I
  BY <1>3 DEF Min
<1>5. RemoveFirst(q, p) = RemoveAt(q, Min(I))
  BY <1>1 DEF RemoveFirst, SelectInSeq
<1>6. Min(I) \in DOMAIN q /\ q[Min(I)] = p
  BY <1>1, <1>4
<1>7. p \in Range(q)
  BY <1>6 DEF Range
<1>8. QED BY <1>5, <1>6, <1>7, RemoveAtKeeps

\* A prompt that waits nowhere is put behind the others.
LEMMA AppendKeeps ==
    ASSUME NEW q \in Seq(Prompts), IsInjective(q), NEW p \in Prompts, p \notin Range(q)
    PROVE  /\ Append(q, p) \in Seq(Prompts)
           /\ IsInjective(Append(q, p))
           /\ Range(Append(q, p)) = Range(q) \cup {p}
<1> DEFINE t == <<p>>
<1>1. t \in Seq(Prompts) /\ IsInjective(t) /\ Range(t) = {p}
  BY DEF IsInjective, Range
<1>2. Append(q, p) = q \o t /\ Append(q, p) \in Seq(Prompts)
  OBVIOUS
<1> HIDE DEF t
<1>3. IsInjective(q \o t)
  BY <1>1, ConcatIsInjective
<1>4. Range(q \o t) = Range(q) \cup {p}
  <2>1. Range(q \o t) = Range(q) \cup Range(t)
    BY <1>1, RangeConcatenation
  <2>2. QED BY <1>1, <2>1
<1>5. QED BY Zenon, <1>2, <1>3, <1>4

-----------------------------------------------------------------------------
\* A queue holds the prompts of its conversation that wait, each once.
QueueInv(c) ==
    /\ IsInjective(queue[c])
    /\ Range(queue[c]) = {p \in Prompts : fate[p] = "queued" /\ home[p] = c}

QInv == QueueTypeOK /\ \A c \in Convs : QueueInv(c)

\* One prompt leaves one queue for good.
LEMMA PromptLeaves ==
    ASSUME QInv, NEW c \in Convs, NEW p \in Range(queue[c]),
           NEW q \in Seq(Prompts), IsInjective(q), Range(q) = Range(queue[c]) \ {p},
           NEW end \in Final,
           queue' = [queue EXCEPT ![c] = q], home' = home,
           fate' = [fate EXCEPT ![p] = end]
    PROVE  /\ fate[p] = "queued"
           /\ queue' \in [Convs -> Seq(Prompts)] /\ fate' \in [Prompts -> Fates]
           /\ \A d \in Convs : QueueInv(d)'
<1>1. /\ queue \in [Convs -> Seq(Prompts)] /\ fate \in [Prompts -> Fates]
      /\ \A d \in Convs : QueueInv(d)
  BY DEF QInv, QueueTypeOK
<1>2. p \in Prompts /\ fate[p] = "queued" /\ home[p] = c
  BY <1>1 DEF QueueInv
<1>3. end # "queued" /\ end \in Fates
  BY DEF Final, Fates
<1>4. /\ \A r \in Prompts : fate'[r] = IF r = p THEN end ELSE fate[r]
      /\ fate' \in [Prompts -> Fates]
  BY <1>1, <1>3
<1>5. ASSUME NEW d \in Convs
      PROVE  QueueInv(d)'
  <2>1. CASE d = c
    <3>1. queue'[d] = q
      BY <1>1, <2>1
    <3>2. Range(q) = {r \in Prompts : fate'[r] = "queued" /\ home'[r] = d}
      BY <1>1, <1>2, <1>3, <1>4, <2>1 DEF QueueInv
    <3>3. QED BY <3>1, <3>2 DEF QueueInv
  <2>2. CASE d # c
    <3>1. queue'[d] = queue[d]
      BY <1>1, <2>2
    <3>2. \A r \in Prompts : (fate'[r] = "queued" /\ home'[r] = d) <=> (fate[r] = "queued" /\ home[r] = d)
      BY <1>2, <1>3, <1>4, <2>2
    <3>3. QED BY <1>1, <3>1, <3>2 DEF QueueInv
  <2>3. QED BY <2>1, <2>2
<1>6. QED BY <1>1, <1>2, <1>4, <1>5

\* Sending a prompt ends it, and begins a turn at most.
LEMMA SendEnds ==
    ASSUME QueueTypeOK, NEW p \in Prompts, NEW c \in Convs, SendPrompt(p, c)
    PROVE  /\ turn' \in [Convs -> Turns]
           /\ \E end \in Final : fate' = [fate EXCEPT ![p] = end]
<1>1. pane[c] \in {"none", "live", "dead"}
  BY DEF QueueTypeOK, Panes
<1>2. \E end \in Final : fate' = [fate EXCEPT ![p] = end]
  BY <1>1 DEF SendPrompt, Final
<1>3. turn' \in [Convs -> Turns]
  BY DEF SendPrompt, QueueTypeOK, Turns
<1>4. QED BY <1>2, <1>3

\* What becomes of the prompts in a step: a prompt is written only before it
\* has an end.
Unfinished == \A p \in Prompts : fate[p] \in Final => fate'[p] = fate[p]

LEMMA QueueKeeps ==
    ASSUME QInv, NEW p \in Prompts, Queue(p)
    PROVE  QInv' /\ Unfinished
<1> DEFINE c == home[p]
<1>1. /\ queue \in [Convs -> Seq(Prompts)] /\ fate \in [Prompts -> Fates]
      /\ c \in Convs /\ \A d \in Convs : QueueInv(d)
  BY DEF QInv, QueueTypeOK
<1>2. /\ fate[p] = "unsent" /\ home' = home
      /\ queue' = [queue EXCEPT ![c] = Append(queue[c], p)]
      /\ fate' = [fate EXCEPT ![p] = "queued"]
  BY DEF Queue
<1> HIDE DEF c
<1>3. p \notin Range(queue[c])
  BY <1>1, <1>2 DEF QueueInv
<1>4. /\ Append(queue[c], p) \in Seq(Prompts) /\ IsInjective(Append(queue[c], p))
      /\ Range(Append(queue[c], p)) = Range(queue[c]) \cup {p}
  <2>1. queue[c] \in Seq(Prompts) /\ IsInjective(queue[c])
    BY <1>1 DEF QueueInv
  <2>2. QED BY <1>3, <2>1, AppendKeeps
<1>5. \A r \in Prompts : fate'[r] = IF r = p THEN "queued" ELSE fate[r]
  BY <1>1, <1>2
<1>6. ASSUME NEW d \in Convs
      PROVE  QueueInv(d)'
  <2>1. CASE d = c
    <3>1. queue'[d] = Append(queue[c], p)
      BY <1>1, <1>2, <2>1
    <3>2. Range(queue[c]) = {r \in Prompts : fate[r] = "queued" /\ home[r] = c}
      BY <1>1 DEF QueueInv
    <3>3. Range(queue'[d]) = {r \in Prompts : fate'[r] = "queued" /\ home'[r] = d}
      BY <1>2, <1>4, <1>5, <2>1, <3>1, <3>2 DEF c
    <3>4. QED BY <1>4, <3>1, <3>3 DEF QueueInv
  <2>2. CASE d # c
    <3>1. queue'[d] = queue[d]
      BY <1>1, <1>2, <2>2
    <3>2. \A r \in Prompts : (fate'[r] = "queued" /\ home'[r] = d) <=> (fate[r] = "queued" /\ home[r] = d)
      BY <1>2, <1>5, <2>2 DEF c
    <3>3. QED BY <1>1, <3>1, <3>2 DEF QueueInv
  <2>3. QED BY <2>1, <2>2
<1>7. QueueTypeOK'
  <2>1. queue' \in [Convs -> Seq(Prompts)]
    BY <1>1, <1>2, <1>4
  <2>2. fate' \in [Prompts -> Fates]
    BY <1>1, <1>2 DEF Fates
  <2>3. QED BY <2>1, <2>2 DEF QInv, QueueTypeOK, Queue, agentVars
<1>8. Unfinished
  BY <1>2, <1>5 DEF Unfinished, Final
<1>9. QED BY <1>6, <1>7, <1>8 DEF QInv

LEMMA SendNowKeeps ==
    ASSUME QInv, NEW p \in Prompts, SendNow(p)
    PROVE  QInv' /\ Unfinished
<1>1. fate \in [Prompts -> Fates] /\ home[p] \in Convs /\ QueueTypeOK
  BY DEF QInv, QueueTypeOK
<1>2. /\ fate[p] = "unsent" /\ home' = home /\ queue' = queue
      /\ SendPrompt(p, home[p])
  BY DEF SendNow
<1>3. PICK end \in Final : fate' = [fate EXCEPT ![p] = end]
  BY <1>1, <1>2, SendEnds
<1>4. turn' \in [Convs -> Turns]
  BY <1>1, <1>2, SendEnds
<1>5. end # "queued" /\ end \in Fates
  BY DEF Final, Fates
<1>6. \A r \in Prompts : fate'[r] = IF r = p THEN end ELSE fate[r]
  BY <1>1, <1>3
<1>7. ASSUME NEW d \in Convs
      PROVE  QueueInv(d)'
  <2>1. \A r \in Prompts : (fate'[r] = "queued" /\ home'[r] = d) <=> (fate[r] = "queued" /\ home[r] = d)
    BY <1>2, <1>5, <1>6
  <2>2. QED BY <1>2, <2>1 DEF QInv, QueueInv
<1>8. fate' \in [Prompts -> Fates]
  BY <1>1, <1>3, <1>5
<1>9. QueueTypeOK'
  BY <1>1, <1>4, <1>8 DEF QueueTypeOK, SendNow
<1>10. Unfinished
  BY <1>2, <1>6 DEF Unfinished, Final
<1>11. QED BY <1>7, <1>9, <1>10 DEF QInv

LEMMA DeliverKeeps ==
    ASSUME QInv, NEW c \in Convs, Deliver(c)
    PROVE  QInv' /\ Unfinished
<1> DEFINE p == Head(queue[c])
<1>1. /\ queue[c] \in Seq(Prompts) /\ IsInjective(queue[c])
      /\ fate \in [Prompts -> Fates] /\ QueueTypeOK
  BY DEF QInv, QueueTypeOK, QueueInv
<1>2. /\ queue[c] # <<>> /\ home' = home
      /\ queue' = [queue EXCEPT ![c] = Tail(queue[c])]
      /\ SendPrompt(p, c)
  BY DEF Deliver
<1>3. /\ p \in Range(queue[c]) /\ Tail(queue[c]) \in Seq(Prompts)
      /\ IsInjective(Tail(queue[c]))
      /\ Range(Tail(queue[c])) = Range(queue[c]) \ {p}
  BY <1>1, <1>2, TailKeeps
<1> HIDE DEF p
<1>4. p \in Prompts
  BY <1>3 DEF QInv, QueueInv
<1>5. PICK end \in Final : fate' = [fate EXCEPT ![p] = end]
  BY <1>1, <1>2, <1>4, SendEnds
<1>6. turn' \in [Convs -> Turns]
  BY <1>1, <1>2, <1>4, SendEnds
<1>7. /\ fate[p] = "queued"
      /\ queue' \in [Convs -> Seq(Prompts)] /\ fate' \in [Prompts -> Fates]
      /\ \A d \in Convs : QueueInv(d)'
  BY <1>2, <1>3, <1>5, PromptLeaves
<1>8. QueueTypeOK'
  BY <1>1, <1>6, <1>7 DEF QueueTypeOK, Deliver
<1>9. Unfinished
  BY <1>1, <1>4, <1>5, <1>7 DEF Unfinished, Final
<1>10. QED BY <1>7, <1>8, <1>9 DEF QInv

LEMMA CancelKeeps ==
    ASSUME QInv, NEW p \in Prompts, Cancel(p)
    PROVE  QInv' /\ Unfinished
<1>1. PICK c \in Convs :
          /\ Contains(queue[c], p)
          /\ queue' = [queue EXCEPT ![c] = RemoveFirst(queue[c], p)]
          /\ fate' = [fate EXCEPT ![p] = "cancelled"]
          /\ UNCHANGED <<agentVars, pane, home>>
  BY DEF Cancel
<1>2. /\ queue[c] \in Seq(Prompts) /\ IsInjective(queue[c])
      /\ fate \in [Prompts -> Fates] /\ QueueTypeOK
  BY DEF QInv, QueueTypeOK, QueueInv
<1>3. /\ p \in Range(queue[c]) /\ RemoveFirst(queue[c], p) \in Seq(Prompts)
      /\ IsInjective(RemoveFirst(queue[c], p))
      /\ Range(RemoveFirst(queue[c], p)) = Range(queue[c]) \ {p}
  BY <1>1, <1>2, RemoveFirstKeeps
<1>4. "cancelled" \in Final /\ home' = home
  BY <1>1 DEF Final
<1>5. /\ fate[p] = "queued"
      /\ queue' \in [Convs -> Seq(Prompts)] /\ fate' \in [Prompts -> Fates]
      /\ \A d \in Convs : QueueInv(d)'
  BY <1>1, <1>3, <1>4, PromptLeaves
<1>6. QueueTypeOK'
  BY <1>1, <1>2, <1>5 DEF QueueTypeOK, agentVars
<1>7. Unfinished
  BY <1>1, <1>2, <1>5 DEF Unfinished, Final
<1>8. QED BY <1>5, <1>6, <1>7 DEF QInv

LEMMA ReorderKeeps ==
    ASSUME QInv, NEW c \in Convs, NEW ids \in Seq(Prompts), Reorder(c, ids)
    PROVE  QInv' /\ Unfinished
<1> DEFINE q == Reordered(queue[c], ids)
<1>1. /\ queue \in [Convs -> Seq(Prompts)] /\ IsInjective(queue[c]) /\ QueueTypeOK
  BY DEF QInv, QueueTypeOK, QueueInv
<1>2. /\ queue' = [queue EXCEPT ![c] = q]
      /\ UNCHANGED <<turn, recent, gate, pane, home, fate>>
  BY DEF Reorder, agentVars
<1>3. q \in Seq(Prompts) /\ IsInjective(q) /\ Range(q) = Range(queue[c])
  BY <1>1, ReorderedKeeps
<1> HIDE DEF q
<1>4. ASSUME NEW d \in Convs
      PROVE  QueueInv(d)'
  <2>1. IsInjective(queue'[d]) /\ Range(queue'[d]) = Range(queue[d])
    BY <1>1, <1>2, <1>3 DEF QInv, QueueInv
  <2>2. QED BY <1>2, <2>1 DEF QInv, QueueInv
<1>5. queue' \in [Convs -> Seq(Prompts)]
  BY <1>1, <1>2, <1>3
<1>6. QueueTypeOK'
  BY <1>1, <1>2, <1>5 DEF QueueTypeOK
<1>7. Unfinished
  BY <1>2 DEF Unfinished
<1>8. QED BY <1>4, <1>6, <1>7 DEF QInv

\* The agent, its terminal and its approvals leave queues and prompts alone.
LEMMA OthersKeep ==
    ASSUME QInv, NEW c \in Convs,
           \/ OtherPrompt(c) \/ Step(c) \/ TurnEnds(c) \/ WindowLapses(c)
           \/ GateOpens(c) \/ GateCloses(c) \/ GateOrphaned(c) \/ OrphanAnswered(c)
           \/ PaneReturns(c) \/ \E kept \in BOOLEAN : PaneDies(c, kept)
    PROVE  QInv' /\ Unfinished
<1>1. UNCHANGED <<queue, home, fate>>
  BY DEF OtherPrompt, Step, TurnEnds, WindowLapses, GateOpens, GateCloses,
         GateOrphaned, OrphanAnswered, PaneReturns, PaneDies
<1>2. QueueTypeOK
  BY DEF QInv
<1>3. turn' \in [Convs -> Turns]
  BY <1>2 DEF QueueTypeOK, Turns, OtherPrompt, Step, TurnEnds, WindowLapses, GateOpens,
              GateCloses, GateOrphaned, OrphanAnswered, PaneReturns, PaneDies, agentVars
<1>4. recent' \in [Convs -> BOOLEAN]
  BY <1>2 DEF QueueTypeOK, OtherPrompt, Step, TurnEnds, WindowLapses, GateOpens,
              GateCloses, GateOrphaned, OrphanAnswered, PaneReturns, PaneDies, agentVars
<1>5. gate' \in [Convs -> Gates]
  BY <1>2 DEF QueueTypeOK, Gates, OtherPrompt, Step, TurnEnds, WindowLapses, GateOpens,
              GateCloses, GateOrphaned, OrphanAnswered, PaneReturns, PaneDies, agentVars
<1>6. pane' \in [Convs -> Panes]
  BY <1>2 DEF QueueTypeOK, Panes, OtherPrompt, Step, TurnEnds, WindowLapses, GateOpens,
              GateCloses, GateOrphaned, OrphanAnswered, PaneReturns, PaneDies, agentVars
<1>7. QueueTypeOK'
  BY <1>1, <1>2, <1>3, <1>4, <1>5, <1>6 DEF QueueTypeOK
<1>8. \A d \in Convs : QueueInv(d)'
  BY <1>1 DEF QInv, QueueInv
<1>9. QED BY <1>1, <1>7, <1>8 DEF QInv, Unfinished

LEMMA QueueStepKeeps ==
    ASSUME QInv, [QueueNext]_queueVars
    PROVE  QInv' /\ Unfinished
<1>1. ASSUME NEW p \in Prompts, Queue(p) \/ SendNow(p) \/ Cancel(p)
      PROVE  QInv' /\ Unfinished
  BY <1>1, QueueKeeps, SendNowKeeps, CancelKeeps
<1>2. ASSUME NEW c \in Convs, Deliver(c)
      PROVE  QInv' /\ Unfinished
  BY <1>2, DeliverKeeps
<1>3. ASSUME NEW c \in Convs, NEW ids \in BoundedSeq(Prompts, MaxList), Reorder(c, ids)
      PROVE  QInv' /\ Unfinished
  <2>1. ids \in Seq(Prompts)
    BY ListAssumption, SeqDef DEF BoundedSeq, SeqOf
  <2>2. QED BY <1>3, <2>1, ReorderKeeps
<1>4. ASSUME UNCHANGED queueVars
      PROVE  QInv' /\ Unfinished
  BY <1>4 DEF QInv, QueueInv, Unfinished, QueueTypeOK, queueVars
<1>5. QED BY <1>1, <1>2, <1>3, <1>4, OthersKeep DEF QueueNext

\* PromptQueue's types and the prompts its queues hold, for every behaviour.
THEOREM QueueInvariant == QueueSpec => []QInv
<1>1. QueueInit => QInv
  <2>1. QueueInit => QueueTypeOK
    BY EmptySeq DEF QueueInit, QueueTypeOK, Turns, Gates, Panes, Fates
  <2>2. IsInjective(<<>>) /\ Range(<<>>) = {}
    BY DEF IsInjective, Range
  <2>3. ASSUME QueueInit, NEW c \in Convs
        PROVE  QueueInv(c)
    BY <2>2, <2>3 DEF QueueInit, QueueInv
  <2>4. QED BY <2>1, <2>3 DEF QInv
<1>2. QInv /\ [QueueNext]_queueVars => QInv'
  BY QueueStepKeeps
<1>3. QED BY <1>1, <1>2, PTL DEF QueueSpec

\* The types of PromptQueue.
THEOREM QueueTypes == QueueSpec => []QueueTypeOK
<1>1. QInv => QueueTypeOK
  BY DEF QInv
<1>2. QED BY <1>1, QueueInvariant, PTL

\* What is queued stands in one place, of its own conversation's queue; what is
\* not stands nowhere.
THEOREM QueuedPromptsAreKept == QueueSpec => []QueuedOnce
<1>1. ASSUME QInv, NEW p \in Prompts
      PROVE  /\ Cardinality(Places(p)) = (IF fate[p] = "queued" THEN 1 ELSE 0)
             /\ \A place \in Places(p) : place[1] = home[p]
  <2>1. \A place : place \in Places(p) <=>
            \E c \in Convs : \E i \in DOMAIN queue[c] : place = <<c, i>> /\ queue[c][i] = p
    BY DEF Places
  <2>2. \A c \in Convs : IsInjective(queue[c])
    BY <1>1 DEF QInv, QueueInv
  <2>3. \A c \in Convs : (\E i \in DOMAIN queue[c] : queue[c][i] = p) <=> fate[p] = "queued" /\ home[p] = c
    BY <1>1 DEF QInv, QueueInv, Range
  <2>4. \A place \in Places(p) : place[1] = home[p]
    BY <2>1, <2>3
  <2>5. CASE fate[p] = "queued"
    <3>1. home[p] \in Convs
      BY <1>1 DEF QInv, QueueTypeOK
    <3>2. PICK i \in DOMAIN queue[home[p]] : queue[home[p]][i] = p
      BY <2>3, <2>5, <3>1
    <3>3. \A c \in Convs : \A j : j \in DOMAIN queue[c] /\ queue[c][j] = p => c = home[p] /\ j = i
      BY <2>2, <2>3, <3>1, <3>2 DEF IsInjective
    <3>4. Places(p) = {<<home[p], i>>}
      BY <2>1, <3>1, <3>2, <3>3
    <3>5. QED BY <2>4, <2>5, <3>4, FS_Singleton
  <2>6. CASE fate[p] # "queued"
    <3>1. Places(p) = {}
      BY <2>1, <2>3, <2>6
    <3>2. QED BY <2>4, <2>6, <3>1, FS_EmptySet
  <2>7. QED BY <2>5, <2>6
<1>2. QInv => QueuedOnce
  BY <1>1 DEF QueuedOnce
<1>3. QED BY <1>2, QueueInvariant, PTL

\* A prompt has one end.
THEOREM PromptsEndOnce == QueueSpec => OneFate
<1>1. QInv /\ [QueueNext]_queueVars => [Unfinished]_queueVars
  BY QueueStepKeeps
<1>2. QueueSpec => [][Unfinished]_queueVars
  BY <1>1, QueueInvariant, PTL DEF QueueSpec
<1>3. QED BY <1>2, PTL DEF OneFate, Unfinished

-----------------------------------------------------------------------------
(* The replay guard *)

\* What every step keeps of one envelope: once it got through it is remembered,
\* or too old by now to get through again.
EnvelopeInv(e) ==
    /\ passed[e] <= 1
    /\ passed[e] # 0 => e \in seen \/ e.ts < now - MaxAge

GInv == GuardTypeOK /\ MemoryIsLean /\ \A e \in Envelopes : EnvelopeInv(e)

\* Another nonce forgets only what is too old, and if that leaves more than the
\* limit then nothing too old is left.
LEMMA ForgetsTheOld ==
    ASSUME GuardParameters, GuardTypeOK
    PROVE  /\ Remembered \subseteq seen
           /\ \A e \in seen : e \in Remembered \/ e.ts < now - MaxAge
           /\ \/ Cardinality(seen) <= CacheLimit /\ Remembered = seen
              \/ \A e \in Remembered : e.ts >= now - MaxAge
<1>1. now \in Int /\ MaxAge \in Nat /\ CacheLimit \in Nat
  BY DEF GuardTypeOK, GuardParameters
<1>2. \A e \in seen : e.ts \in Int
  BY DEF GuardTypeOK, GuardParameters, Envelopes
<1>3. Cardinality(seen) \in Nat
  BY FS_CardinalityType DEF GuardTypeOK
<1>4. CASE Cardinality(seen) > CacheLimit
  BY <1>1, <1>2, <1>4 DEF Remembered
<1>5. CASE ~(Cardinality(seen) > CacheLimit)
  BY <1>1, <1>3, <1>5 DEF Remembered
<1>6. QED BY <1>4, <1>5

LEMMA CheckKeeps ==
    ASSUME GuardParameters, GInv, NEW e \in Envelopes, Check(e)
    PROVE  GInv'
<1> USE DEF GInv
<1>1. MaxAge \in Nat /\ CacheLimit \in Nat /\ now \in Int
  BY DEF GuardTypeOK, GuardParameters
<1>2. /\ Remembered \subseteq seen
      /\ \A d \in seen : d \in Remembered \/ d.ts < now - MaxAge
      /\ \/ Cardinality(seen) <= CacheLimit /\ Remembered = seen
         \/ \A d \in Remembered : d.ts >= now - MaxAge
  BY ForgetsTheOld
<1>3. e.ts >= now - MaxAge /\ ~(e.ts < now - MaxAge)
  <2>1. e.ts \in now - MaxAge .. now + MaxAge
    BY DEF Check, Fresh
  <2>2. QED BY <1>1, <2>1
<1>4. e \notin seen
  BY DEF Check
<1>5. passed[e] = 0
  BY <1>3, <1>4 DEF EnvelopeInv
<1>6. /\ passed' = [passed EXCEPT ![e] = 1]
      /\ seen' = Remembered \cup {e}
      /\ lastPassed' = now /\ now' = now
  BY <1>5 DEF Check, GuardTypeOK
<1>7. GuardTypeOK'
  <2>1. IsFiniteSet(Remembered)
    BY <1>2, FS_Subset DEF GuardTypeOK
  <2>2. IsFiniteSet(seen')
    BY <1>6, <2>1, FS_AddElement
  <2>3. seen' \subseteq Envelopes
    BY <1>2, <1>6 DEF GuardTypeOK
  <2>4. \A c, d \in seen' : c.nonce = d.nonce => c = d
    BY <1>2, <1>6 DEF GuardTypeOK, Check
  <2>5. lastPassed' \in 0 .. now' /\ now' \in Nat /\ passed' \in [Envelopes -> Nat]
    BY <1>6 DEF GuardTypeOK
  <2>6. QED BY <2>2, <2>3, <2>4, <2>5 DEF GuardTypeOK
<1>8. MemoryIsLean'
  <2>1. CASE Cardinality(seen) <= CacheLimit /\ Remembered = seen
    <3>1. IsFiniteSet(seen)
      BY DEF GuardTypeOK
    <3>2. Cardinality(seen) \in Nat
      BY <3>1, FS_CardinalityType
    <3>3. Cardinality(seen') = Cardinality(seen) + 1
      BY <1>4, <1>6, <2>1, <3>1, FS_AddElement
    <3>4. ~(Cardinality(seen') > CacheLimit + 1)
      BY <1>1, <2>1, <3>2, <3>3
    <3>5. QED BY <1>1, <3>4 DEF MemoryIsLean
  <2>2. CASE \A d \in Remembered : d.ts >= now - MaxAge
    BY <1>3, <1>6, <2>2 DEF MemoryIsLean
  <2>3. QED BY <1>2, <2>1, <2>2
<1>9. ASSUME NEW d \in Envelopes
      PROVE  EnvelopeInv(d)'
  <2>1. CASE d = e
    BY <1>6, <2>1 DEF EnvelopeInv, GuardTypeOK
  <2>2. CASE d # e
    <3>1. passed'[d] = passed[d]
      BY <1>6, <2>2 DEF GuardTypeOK
    <3>2. QED BY <1>2, <1>6, <3>1 DEF EnvelopeInv
  <2>3. QED BY <2>1, <2>2
<1>10. QED BY <1>7, <1>8, <1>9

LEMMA ClockKeeps ==
    ASSUME GuardParameters, GInv, Clock
    PROVE  GInv'
<1> USE DEF GInv
<1>1. MaxAge \in Nat /\ now \in Nat /\ now' = now + 1
  BY DEF GuardTypeOK, GuardParameters, Clock
<1>2. GuardTypeOK'
  BY <1>1 DEF GuardTypeOK, Clock
<1>3. MemoryIsLean'
  BY DEF MemoryIsLean, Clock
<1>4. ASSUME NEW e \in Envelopes
      PROVE  EnvelopeInv(e)'
  <2>1. e.ts \in Int
    BY DEF Envelopes, GuardParameters
  <2>2. e.ts < now - MaxAge => e.ts < now' - MaxAge
    BY <1>1, <2>1
  <2>3. QED BY <2>2 DEF EnvelopeInv, Clock
<1>5. QED BY <1>2, <1>3, <1>4

\* The inductive invariant of the guard.
THEOREM GuardInvariant ==
    ASSUME GuardParameters
    PROVE  GuardSpec => []GInv
<1>1. GuardInit => GInv
  <2> SUFFICES ASSUME GuardInit
               PROVE  GInv
    OBVIOUS
  <2>1. GuardTypeOK
    BY FS_EmptySet DEF GuardInit, GuardTypeOK
  <2>2. MemoryIsLean
    BY DEF GuardInit, MemoryIsLean
  <2>3. \A e \in Envelopes : EnvelopeInv(e)
    BY DEF GuardInit, EnvelopeInv
  <2>4. QED BY <2>1, <2>2, <2>3 DEF GInv
<1>2. GInv /\ [GuardNext]_guardVars => GInv'
  <2>1. GInv /\ UNCHANGED guardVars => GInv'
    BY DEF GInv, GuardTypeOK, MemoryIsLean, EnvelopeInv, guardVars
  <2>2. QED BY <2>1, CheckKeeps, ClockKeeps DEF GuardNext
<1>3. QED BY <1>1, <1>2, PTL DEF GuardSpec

\* The guard lets no envelope, as it was written, through to the cipher twice:
\* eviction never forgets one that could still pass (ReplayGuard.check).
THEOREM EnvelopesPassOnce ==
    ASSUME GuardParameters
    PROVE  GuardSpec => []PassedOnce
<1>1. GInv => PassedOnce
  BY DEF GInv, EnvelopeInv, PassedOnce
<1>2. QED BY <1>1, GuardInvariant, PTL

\* More than a limit's worth is only remembered as far as all of it was fresh
\* when the last envelope passed.
THEOREM MemoryStaysLean ==
    ASSUME GuardParameters
    PROVE  GuardSpec => []MemoryIsLean
<1>1. GInv => MemoryIsLean
  BY DEF GInv
<1>2. QED BY <1>1, GuardInvariant, PTL
=============================================================================
