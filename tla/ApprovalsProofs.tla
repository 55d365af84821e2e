--------------------------- MODULE ApprovalsProofs ---------------------------
(***************************************************************************)
(* Proofs about Approvals for every set of hook calls and clients and      *)
(* every bound on the answered history.                                    *)
(***************************************************************************)
EXTENDS Approvals, FiniteSetTheorems, WellFoundedInduction, TLAPS

\* Purging old answers only ever turns an answered entry into an absent one:
\* _forget_old_answers never touches a pending approval.
LEMMA ForgetKeepsPending ==
    ASSUME NEW st \in [Calls -> {"absent", "pending", "allowed", "denied"}]
    PROVE  /\ ForgetOldAnswers(st) \in [Calls -> {"absent", "pending", "allowed", "denied"}]
           /\ \A a \in Calls :
                 \/ ForgetOldAnswers(st)[a] = st[a]
                 \/ st[a] \in {"allowed", "denied"} /\ ForgetOldAnswers(st)[a] = "absent"
BY DEF ForgetOldAnswers, Answered

\* The sizes the model stores are numbers.
LEMMA SizeIsNat == ASSUME TypeOK PROVE Cardinality(clients) \in Nat
<1>1. IsFiniteSet(clients)
  BY FS_Subset, ClientsAssumption DEF TypeOK
<1>2. QED BY <1>1, FS_CardinalityType

LEMMA StampIsNat == Cardinality({a \in Calls : stamp[a] # 0}) \in Nat
<1>1. IsFiniteSet({a \in Calls : stamp[a] # 0})
  BY FS_Subset, CallsAssumption
<1>2. QED BY <1>1, FS_CardinalityType

\* The same, for an entry set just before the purge (as both callers do).
LEMMA SetAndForget ==
    ASSUME status \in [Calls -> {"absent", "pending", "allowed", "denied"}],
           NEW h \in Calls, NEW s \in {"pending", "allowed", "denied"},
           status' = ForgetOldAnswers([status EXCEPT ![h] = s])
    PROVE  /\ status' \in [Calls -> {"absent", "pending", "allowed", "denied"}]
           /\ status'[h] = s \/ (s # "pending" /\ status'[h] = "absent")
           /\ \A a \in Calls \ {h} :
                 \/ status'[a] = status[a]
                 \/ status[a] \in {"allowed", "denied"} /\ status'[a] = "absent"
<1> DEFINE st == [status EXCEPT ![h] = s]
<1>1. /\ st \in [Calls -> {"absent", "pending", "allowed", "denied"}]
      /\ st[h] = s
      /\ \A a \in Calls \ {h} : st[a] = status[a]
  OBVIOUS
<1>2. status' = ForgetOldAnswers(st)
  OBVIOUS
<1> HIDE DEF st
<1>3. /\ ForgetOldAnswers(st) \in [Calls -> {"absent", "pending", "allowed", "denied"}]
      /\ \A a \in Calls :
            \/ ForgetOldAnswers(st)[a] = st[a]
            \/ st[a] \in {"allowed", "denied"} /\ ForgetOldAnswers(st)[a] = "absent"
  BY <1>1, ForgetKeepsPending
<1>4. status'[h] = s \/ (s # "pending" /\ status'[h] = "absent")
  BY <1>1, <1>2, <1>3
<1>5. QED BY <1>1, <1>2, <1>3, <1>4

LEMMA InitIInv == Init => IInv
BY DEF Init, IInv, TypeOK, CallInv, Policies, InFlight, Decided, Decisions

-----------------------------------------------------------------------------
(* One lemma per group of actions: the step preserves IInv. *)

\* hook_pre_tool decides on the spot or registers the approval.
LEMMA PostPreserves ==
    ASSUME IInv, NEW h \in Calls, NEW t \in Tools,
           HookAutoAllowed(h, t) \/ HookNobodyWatching(h, t) \/ HookHeld(h, t)
    PROVE  IInv'
<1> USE DEF IInv, TypeOK, CallInv, InFlight, Decided, Decisions, Policies, connVars, castVars
<1>1. CASE HookAutoAllowed(h, t)
  BY <1>1 DEF HookAutoAllowed
<1>2. CASE HookNobodyWatching(h, t)
  BY <1>2 DEF HookNobodyWatching
<1>3. CASE HookHeld(h, t)
  <2>1. status' = ForgetOldAnswers([status EXCEPT ![h] = "pending"])
    BY <1>3 DEF HookHeld
  <2>2. /\ status' \in [Calls -> {"absent", "pending", "allowed", "denied"}]
        /\ status'[h] = "pending"
        /\ \A a \in Calls \ {h} :
              \/ status'[a] = status[a]
              \/ status[a] \in {"allowed", "denied"} /\ status'[a] = "absent"
    <3>1. status \in [Calls -> {"absent", "pending", "allowed", "denied"}]
      OBVIOUS
    <3>2. QED BY <3>1, <2>1, SetAndForget
  <2>3. TypeOK'
    <3>1. size' \in [Calls -> Nat] /\ stamp' \in [Calls -> Nat]
      BY <1>3, SizeIsNat, StampIsNat DEF HookHeld
    <3>2. QED BY <1>3, <2>2, <3>1 DEF HookHeld
  <2>4. ASSUME NEW a \in Calls PROVE CallInv(a)'
    <3>1. CASE a = h
      BY <1>3, <2>2, <3>1 DEF HookHeld
    <3>2. CASE a # h
      <4>1. /\ hook'[a] = hook[a] /\ reply'[a] = reply[a]
            /\ future'[a] = future[a] /\ first'[a] = first[a]
        BY <1>3, <3>2 DEF HookHeld
      <4>2. \/ status'[a] = status[a]
            \/ status[a] \in {"allowed", "denied"} /\ status'[a] = "absent"
        BY <2>2, <3>2
      <4>3. QED BY <4>1, <4>2
    <3>3. QED BY <3>1, <3>2
  <2>5. QED BY <2>3, <2>4
<1>4. QED BY <1>1, <1>2, <1>3

\* The broadcast of the request goes on, ends or raises.
LEMMA CastPreserves ==
    ASSUME IInv, NEW h \in Calls, SendReturns(h)
    PROVE  IInv'
<1> USE DEF IInv, TypeOK, CallInv, InFlight, Decided, Decisions, Policies, connVars, castVars
<1> PICK c \in Clients :
        \/ BroadcastRaises(h, c)
        \/ \E ok \in BOOLEAN : BroadcastContinues(h, c, ok) \/ BroadcastEnds(h, c, ok)
  BY DEF SendReturns
<1>1. CASE BroadcastRaises(h, c)
  BY <1>1 DEF BroadcastRaises, CastOver
<1>2. ASSUME NEW ok \in BOOLEAN, BroadcastContinues(h, c, ok) PROVE IInv'
  BY <1>2 DEF BroadcastContinues, FailedNow
<1>3. ASSUME NEW ok \in BOOLEAN, BroadcastEnds(h, c, ok) PROVE IInv'
  <2>1. CASE clients' = {}
    BY <1>3, <2>1 DEF BroadcastEnds, CastOver
  <2>2. CASE clients' # {} /\ future[h] \in Decisions
    BY <1>3, <2>2 DEF BroadcastEnds, CastOver
  <2>3. CASE clients' # {} /\ future[h] \notin Decisions
    BY <1>3, <2>3 DEF BroadcastEnds, CastOver
  <2>4. QED BY <2>1, <2>2, <2>3
<1>4. QED BY <1>1, <1>2, <1>3

\* The wait ends with an answer or with the timer, which fires before the
\* handler knows.
LEMMA AwaitPreserves ==
    ASSUME IInv, NEW h \in Calls, HookReturns(h) \/ TimerFires(h) \/ AwaitTimesOut(h)
    PROVE  IInv'
<1> USE DEF IInv, TypeOK, CallInv, InFlight, Decided, Decisions, Policies, connVars, castVars
<1>1. CASE HookReturns(h)
  BY <1>1 DEF HookReturns
<1>2. CASE TimerFires(h)
  BY <1>2 DEF TimerFires
<1>3. CASE AwaitTimesOut(h)
  BY <1>3 DEF AwaitTimesOut
<1>4. QED BY <1>1, <1>2, <1>3

\* An answer arrives, first or late.
LEMMA ResolvePreserves ==
    ASSUME IInv, NEW h \in Calls, NEW d \in Decisions, Resolve(h, d)
    PROVE  IInv'
<1> USE DEF IInv, TypeOK, CallInv, InFlight, Decided, Decisions, Policies, connVars, castVars
<1>1. /\ status' = ForgetOldAnswers([status EXCEPT ![h] = StatusOf(d)])
      /\ StatusOf(d) \in {"allowed", "denied"}
      /\ status \in [Calls -> {"absent", "pending", "allowed", "denied"}]
  BY DEF Resolve, StatusOf
<1>2. /\ status' \in [Calls -> {"absent", "pending", "allowed", "denied"}]
      /\ status'[h] # "pending"
      /\ \A a \in Calls \ {h} :
            \/ status'[a] = status[a]
            \/ status[a] \in {"allowed", "denied"} /\ status'[a] = "absent"
  <2>1. StatusOf(d) \in {"pending", "allowed", "denied"} /\ StatusOf(d) # "pending"
    BY <1>1
  <2>2. QED BY <1>1, <2>1, SetAndForget
<1>3. TypeOK'
  BY <1>2 DEF Resolve, Settled
<1>4. ASSUME NEW a \in Calls PROVE CallInv(a)'
  <2>1. CASE a = h
    BY <1>2, <2>1 DEF Resolve, Settled
  <2>2. CASE a # h
    <3>1. /\ hook'[a] = hook[a] /\ reply'[a] = reply[a]
          /\ future'[a] = future[a] /\ first'[a] = first[a]
      BY <2>2 DEF Resolve
    <3>2. \/ status'[a] = status[a]
          \/ status[a] \in {"allowed", "denied"} /\ status'[a] = "absent"
      BY <1>2, <2>2
    <3>3. QED BY <3>1, <3>2
  <2>3. QED BY <2>1, <2>2
<1>5. QED BY <1>3, <1>4

\* Clients come and go, and settings change; no call's own record is touched.
LEMMA EnvironmentPreserves ==
    ASSUME IInv,
           \/ \E c \in Clients : Connect(c) \/ Disconnect(c) \/ Prune(c)
           \/ Expire
           \/ \E p \in Policies : SetPolicy(p)
    PROVE  IInv'
<1> USE DEF IInv, TypeOK, CallInv, otherVars
<1>1. ASSUME NEW c \in Clients, Connect(c) PROVE IInv'
  BY <1>1 DEF Connect
<1>2. ASSUME NEW c \in Clients, Disconnect(c) PROVE IInv'
  BY <1>2 DEF Disconnect
<1>3. ASSUME NEW c \in Clients, Prune(c) PROVE IInv'
  BY <1>3 DEF Prune
<1>4. CASE Expire
  BY <1>4 DEF Expire
<1>5. ASSUME NEW p \in Policies, SetPolicy(p) PROVE IInv'
  BY <1>5 DEF SetPolicy
<1>6. QED BY <1>1, <1>2, <1>3, <1>4, <1>5

LEMMA StepPreserves == IInv /\ [Next]_vars => IInv'
<1> SUFFICES ASSUME IInv, [Next]_vars PROVE IInv'
  OBVIOUS
<1>1. CASE UNCHANGED vars
  BY <1>1 DEF vars, IInv, TypeOK, CallInv
<1>2. CASE Next
  BY <1>2, PostPreserves, CastPreserves, AwaitPreserves, ResolvePreserves, EnvironmentPreserves
  DEF Next
<1>3. QED BY <1>1, <1>2

-----------------------------------------------------------------------------
(* The theorems *)

\* The inductive invariant holds in every reachable state.
THEOREM Inductive == Spec => []IInv
BY InitIInv, StepPreserves, PTL DEF Spec

\* Type correctness.
THEOREM TypeCorrect == Spec => []TypeOK
<1>1. IInv => TypeOK
  BY DEF IInv
<1>2. QED BY Inductive, <1>1, PTL

\* A hook that came back with an answer brings the first accepted one; what a
\* held call is told is that answer, or the timer's denial, which may overtake
\* an accepted answer and leaves nothing behind to answer (await_approval
\* against resolve_approval).
THEOREM AnswersDecide == Spec => []DecidedByFirstAnswer
<1>1. IInv => DecidedByFirstAnswer
  BY DEF IInv, TypeOK, CallInv, DecidedByFirstAnswer, InFlight, Decided, Decisions
<1>2. QED BY Inductive, <1>1, PTL

\* No tool call is allowed without the policy's or a person's consent.
THEOREM ConsentIsNeeded == Spec => []AllowNeedsConsent
<1>1. IInv => AllowNeedsConsent
  BY DEF IInv, TypeOK, CallInv, AllowNeedsConsent, InFlight, Decided
<1>2. QED BY Inductive, <1>1, PTL

\* A held, unanswered call is always in the list a reconnecting phone gets.
THEOREM HeldIsAlwaysListed == Spec => []HeldIsListed
<1>1. IInv => HeldIsListed
  BY DEF IInv, CallInv, HeldIsListed
<1>2. QED BY Inductive, <1>1, PTL

\* Only a broadcast that raised leaves an entry pending with no hook behind it.
THEOREM OrphansComeFromCrashes == Spec => []OnlyACrashOrphans
<1>1. IInv => OnlyACrashOrphans
  BY DEF IInv, TypeOK, CallInv, OnlyACrashOrphans, InFlight, Decided
<1>2. QED BY Inductive, <1>1, PTL

-----------------------------------------------------------------------------
(* The bound on the answered history *)

\* Every non-empty set of naturals has a least element.
LEMMA LeastNatural ==
    ASSUME NEW T \in SUBSET Nat, T # {}
    PROVE  \E m \in T : \A n \in T : m <= n
<1>1. PICK m \in T : \A n \in T : <<n, m>> \notin OpToRel(<, Nat)
  BY NatLessThanWellFounded, WFMin
<1>2. \A n \in T : ~(n < m)
  BY <1>1 DEF OpToRel
<1>3. \A n \in T : m <= n
  BY <1>2
<1>4. QED BY <1>3

\* After a purge at most AnsweredHistory answered entries are left: they are all
\* among those at least as new as the oldest one kept.
LEMMA ForgetBounds ==
    ASSUME NEW st \in [Calls -> {"absent", "pending", "allowed", "denied"}],
           stamp \in [Calls -> Nat]
    PROVE  Cardinality(Answered(ForgetOldAnswers(st))) <= AnsweredHistory
<1> DEFINE Newer(a) == {b \in Answered(st) : stamp[b] >= stamp[a]}
           Kept     == {a \in Answered(st) : ~(Cardinality(Newer(a)) > AnsweredHistory)}
<1>1. Answered(ForgetOldAnswers(st)) = Kept
  BY DEF Answered, ForgetOldAnswers
<1>2. CASE Kept = {}
  <2>1. Answered(ForgetOldAnswers(st)) = {}
    BY <1>1, <1>2
  <2>2. QED BY <2>1, FS_EmptySet, HistoryAssumption
<1>3. CASE Kept # {}
  <2>1. PICK o \in Kept : \A a \in Kept : stamp[o] <= stamp[a]
    <3> DEFINE T == {stamp[a] : a \in Kept}
    <3>1. T \in SUBSET Nat /\ T # {}
      BY <1>3 DEF Answered
    <3>2. PICK m \in T : \A n \in T : m <= n
      BY <3>1, LeastNatural
    <3>3. QED BY <3>2
  <2>2. Kept \subseteq Newer(o)
    BY <2>1 DEF Answered
  <2>3. IsFiniteSet(Newer(o))
    <3>1. Newer(o) \in SUBSET Calls
      BY DEF Answered
    <3>2. QED BY <3>1, FS_Subset, CallsAssumption
  <2>4. /\ Cardinality(Kept) <= Cardinality(Newer(o))
        /\ Cardinality(Kept) \in Nat
        /\ Cardinality(Newer(o)) \in Nat
    BY <2>2, <2>3, FS_Subset, FS_CardinalityType
  <2>5. Cardinality(Newer(o)) <= AnsweredHistory
    BY <2>1, <2>4, HistoryAssumption
  <2>6. QED BY <1>1, <2>4, <2>5, HistoryAssumption
<1>4. QED BY <1>2, <1>3

\* A set of answered entries that only shrinks keeps its bound.
LEMMA FewerAnswered ==
    ASSUME HistoryBounded, Answered(status)' \subseteq Answered(status)
    PROVE  HistoryBounded'
<1>1. IsFiniteSet(Answered(status))
  <2>1. Answered(status) \in SUBSET Calls
    BY DEF Answered
  <2>2. QED BY <2>1, FS_Subset, CallsAssumption
<1>2. /\ Cardinality(Answered(status)') <= Cardinality(Answered(status))
      /\ Cardinality(Answered(status)') \in Nat
      /\ Cardinality(Answered(status)) \in Nat
  BY <1>1, FS_Subset, FS_CardinalityType
<1>3. QED BY <1>2, HistoryAssumption DEF HistoryBounded

\* _forget_old_answers does what its name promises whatever the order in which
\* approvals are registered, answered, timed out and dropped.
THEOREM HistoryIsBounded == Spec => []HistoryBounded
<1>1. Init => HistoryBounded
  <2> SUFFICES ASSUME Init PROVE HistoryBounded
    OBVIOUS
  <2>1. Answered(status) = {}
    BY DEF Init, Answered
  <2>2. QED BY <2>1, FS_EmptySet, HistoryAssumption DEF HistoryBounded
<1>2. TypeOK /\ HistoryBounded /\ [Next]_vars => HistoryBounded'
  <2> SUFFICES ASSUME TypeOK, HistoryBounded, [Next]_vars PROVE HistoryBounded'
    OBVIOUS
  <2>1. CASE UNCHANGED status
    <3>1. Answered(status)' = Answered(status)
      BY <2>1 DEF Answered
    <3>2. QED BY <3>1, FewerAnswered
  <2>2. ASSUME NEW h \in Calls, NEW s \in {"pending", "allowed", "denied"},
               status' = ForgetOldAnswers([status EXCEPT ![h] = s])
        PROVE  HistoryBounded'
    <3>1. /\ [status EXCEPT ![h] = s] \in [Calls -> {"absent", "pending", "allowed", "denied"}]
          /\ stamp \in [Calls -> Nat]
      BY DEF TypeOK
    <3>2. Cardinality(Answered(status')) <= AnsweredHistory
      BY <2>2, <3>1, ForgetBounds
    <3>3. QED BY <3>2 DEF HistoryBounded, Answered
  <2>3. ASSUME NEW h \in Calls, status' = [status EXCEPT ![h] = "absent"]
        PROVE  HistoryBounded'
    <3>1. Answered(status)' \subseteq Answered(status)
      BY <2>3 DEF Answered, TypeOK
    <3>2. QED BY <3>1, FewerAnswered
  <2>4. ASSUME NEW h \in Calls, NEW t \in Tools, HookHeld(h, t)
        PROVE  HistoryBounded'
    BY <2>2, <2>4 DEF HookHeld
  <2>5. ASSUME NEW h \in Calls, NEW d \in Decisions, Resolve(h, d)
        PROVE  HistoryBounded'
    <3>1. StatusOf(d) \in {"pending", "allowed", "denied"}
      BY DEF StatusOf
    <3>2. QED BY <2>2, <2>5, <3>1 DEF Resolve
  <2>6. ASSUME NEW h \in Calls, NEW c \in Clients, NEW ok \in BOOLEAN, BroadcastEnds(h, c, ok)
        PROVE  HistoryBounded'
    BY <2>1, <2>3, <2>6 DEF BroadcastEnds
  <2>7. ASSUME NEW h \in Calls, AwaitTimesOut(h)
        PROVE  HistoryBounded'
    BY <2>3, <2>7 DEF AwaitTimesOut
  <2>8. QED
    <3>1. ASSUME Next PROVE HistoryBounded'
      <4>1. ASSUME NEW h \in Calls, NEW t \in Tools,
                   HookAutoAllowed(h, t) \/ HookNobodyWatching(h, t)
            PROVE  UNCHANGED status
        BY <4>1 DEF HookAutoAllowed, HookNobodyWatching
      <4>2. ASSUME NEW h \in Calls, SendReturns(h)
            PROVE  HistoryBounded'
        <5>1. ASSUME NEW c \in Clients, BroadcastRaises(h, c) PROVE UNCHANGED status
          BY <5>1 DEF BroadcastRaises
        <5>2. ASSUME NEW c \in Clients, NEW ok \in BOOLEAN, BroadcastContinues(h, c, ok)
              PROVE  UNCHANGED status
          BY <5>2 DEF BroadcastContinues
        <5>3. QED BY <4>2, <5>1, <5>2, <2>1, <2>6 DEF SendReturns
      <4>3. ASSUME NEW h \in Calls, HookReturns(h) \/ TimerFires(h)
            PROVE  UNCHANGED status
        BY <4>3 DEF HookReturns, TimerFires
      <4>4. ASSUME \/ \E c \in Clients : Connect(c) \/ Disconnect(c) \/ Prune(c)
                   \/ Expire
                   \/ \E p \in Policies : SetPolicy(p)
            PROVE  UNCHANGED status
        BY <4>4 DEF Connect, Disconnect, Prune, Expire, SetPolicy, otherVars
      <4>5. QED BY <3>1, <4>1, <4>2, <4>3, <4>4, <2>1, <2>4, <2>5, <2>7 DEF Next
    <3>2. QED BY <3>1, <2>1 DEF vars
<1>3. QED BY TypeCorrect, <1>1, <1>2, PTL DEF Spec

-----------------------------------------------------------------------------
(* Refinement: the handlers implement the abstract gate. *)

\* Moving one handler moves one call at the gate.
LEMMA StageMoves ==
    ASSUME TypeOK, NEW h \in Calls, NEW x, hook' = [hook EXCEPT ![h] = x]
    PROVE  [a \in Calls |-> Stage(hook'[a])]
              = [[a \in Calls |-> Stage(hook[a])] EXCEPT ![h] = Stage(x)]
BY DEF TypeOK

LEMMA InitRefines == Init => Gate!GateInit
BY DEF Init, Gate!GateInit, Stage

\* Deciding without asking is a Waive.
LEMMA WaiveRefines ==
    ASSUME IInv, NEW h \in Calls, NEW t \in Tools,
           HookAutoAllowed(h, t) \/ HookNobodyWatching(h, t)
    PROVE  Gate!GateNext
<1>1. PICK x \in Decided, v \in {"allow", "ask"} :
          /\ hook[h] = "idle"
          /\ hook' = [hook EXCEPT ![h] = x]
          /\ reply' = [reply EXCEPT ![h] = v]
          /\ first' = first
  BY DEF HookAutoAllowed, HookNobodyWatching, Decided
<1>2. Stage(hook[h]) = "idle" /\ Stage(x) = "decided"
  BY <1>1 DEF Stage, InFlight, Decided
<1>3. Gate!Waive(h)
  BY <1>1, <1>2, StageMoves DEF IInv, Gate!Waive
<1>4. QED BY <1>3 DEF Gate!GateNext

\* Registering an approval is a Hold.
LEMMA HoldRefines ==
    ASSUME IInv, NEW h \in Calls, NEW t \in Tools, HookHeld(h, t)
    PROVE  Gate!GateNext
<1>1. /\ hook[h] = "idle"
      /\ hook' = [hook EXCEPT ![h] = "casting"]
      /\ UNCHANGED <<reply, first>>
  BY DEF HookHeld
<1>2. Stage(hook[h]) = "idle" /\ Stage("casting") = "held"
  BY <1>1 DEF Stage, InFlight
<1>3. Gate!Hold(h)
  BY <1>1, <1>2, StageMoves DEF IInv, Gate!Hold
<1>4. QED BY <1>3 DEF Gate!GateNext

\* Every way a handler ends before its timer fires is a Decide.
LEMMA DecideRefines ==
    ASSUME IInv, NEW h \in Calls, NEW x \in Decided, NEW v \in Decisions \cup {"ask"},
           hook[h] \in {"casting", "waiting"},
           hook' = [hook EXCEPT ![h] = x],
           reply' = [reply EXCEPT ![h] = v],
           first' = first,
           v = "ask" \/ (first[h] # "none" /\ v = first[h])
    PROVE  Gate!GateNext
<1>1. Stage(hook[h]) = "held" /\ Stage(x) = "decided"
  BY DEF Stage, Decided
<1>2. Gate!Decide(h)
  BY <1>1, StageMoves DEF IInv, Gate!Decide
<1>3. QED BY <1>2 DEF Gate!GateNext

\* The first answer is an Accept; a later one is nothing at the gate.
LEMMA AcceptRefines ==
    ASSUME IInv, NEW h \in Calls, NEW d \in Decisions, Resolve(h, d)
    PROVE  Gate!GateNext \/ UNCHANGED Gate!gateVars
<1>1. UNCHANGED <<hook, reply>>
  BY DEF Resolve
<1>2. CASE first[h] = "none"
  <2>1. first' = [first EXCEPT ![h] = d]
    BY <1>2 DEF Resolve, IInv, TypeOK
  <2>2. Stage(hook[h]) \in {"held", "lapsed"} \/ reply[h] = "ask"
    <3>1. hook[h] \notin {"idle", "autoAllowed", "asked", "timedOut", "answered"}
      BY <1>2 DEF Resolve, IInv, CallInv
    <3>2. hook[h] \in {"casting", "waiting", "expiring", "crashed"}
      BY <3>1 DEF IInv, TypeOK, InFlight, Decided
    <3>3. hook[h] = "crashed" => reply[h] = "ask"
      BY DEF IInv, CallInv
    <3>4. QED BY <3>2, <3>3 DEF Stage
  <2>3. Gate!Accept(h)
    BY <1>1, <1>2, <2>1, <2>2 DEF Gate!Accept
  <2>4. QED BY <2>3 DEF Gate!GateNext
<1>3. CASE first[h] # "none"
  BY <1>1, <1>3 DEF Resolve, IInv, TypeOK, Gate!gateVars
<1>4. QED BY <1>2, <1>3

\* The broadcast's steps: an end without a client, or a raise, decides "ask";
\* the others leave the call held.
LEMMA CastRefines ==
    ASSUME IInv, NEW h \in Calls, SendReturns(h)
    PROVE  Gate!GateNext \/ UNCHANGED Gate!gateVars
<1> USE DEF InFlight, Decided
<1> PICK c \in Clients :
        \/ BroadcastRaises(h, c)
        \/ \E ok \in BOOLEAN : BroadcastContinues(h, c, ok) \/ BroadcastEnds(h, c, ok)
  BY DEF SendReturns
<1>1. CASE BroadcastRaises(h, c)
  <2>1. /\ hook[h] = "casting"
        /\ hook' = [hook EXCEPT ![h] = "crashed"]
        /\ reply' = [reply EXCEPT ![h] = "ask"]
        /\ first' = first
    BY <1>1 DEF BroadcastRaises
  <2>2. QED BY <2>1, DecideRefines
<1>2. ASSUME NEW ok \in BOOLEAN, BroadcastContinues(h, c, ok)
      PROVE  UNCHANGED Gate!gateVars
  BY <1>2 DEF BroadcastContinues, Gate!gateVars
<1>3. ASSUME NEW ok \in BOOLEAN, BroadcastEnds(h, c, ok)
      PROVE  Gate!GateNext \/ UNCHANGED Gate!gateVars
  <2>1. CASE clients' = {}
    BY <1>3, <2>1, DecideRefines DEF BroadcastEnds
  <2>2. CASE clients' # {} /\ future[h] \in Decisions
    <3>1. future[h] = first[h] /\ first[h] # "none"
      BY <1>3, <2>2 DEF BroadcastEnds, IInv, CallInv, Decisions
    <3>2. QED BY <1>3, <2>2, <3>1, DecideRefines DEF BroadcastEnds
  <2>3. CASE clients' # {} /\ future[h] \notin Decisions
    <3>1. /\ hook[h] = "casting"
          /\ hook' = [hook EXCEPT ![h] = "waiting"]
          /\ UNCHANGED <<reply, first>>
      BY <1>3, <2>3 DEF BroadcastEnds
    <3>2. [a \in Calls |-> Stage(hook'[a])] = [a \in Calls |-> Stage(hook[a])]
      BY <3>1 DEF Stage, IInv, TypeOK
    <3>3. QED BY <3>1, <3>2 DEF Gate!gateVars
  <2>4. QED BY <2>1, <2>2, <2>3
<1>4. QED BY <1>1, <1>2, <1>3

\* The timer is a Lapse, and what the handler makes of it a Deny.
LEMMA TimerRefines ==
    ASSUME IInv, NEW h \in Calls, TimerFires(h) \/ AwaitTimesOut(h)
    PROVE  Gate!GateNext
<1>1. CASE TimerFires(h)
  <2>1. /\ hook[h] = "waiting"
        /\ hook' = [hook EXCEPT ![h] = "expiring"]
        /\ UNCHANGED <<reply, first>>
    BY <1>1 DEF TimerFires
  <2>2. Stage(hook[h]) = "held" /\ Stage("expiring") = "lapsed"
    BY <2>1 DEF Stage
  <2>3. Gate!Lapse(h)
    BY <2>1, <2>2, StageMoves DEF IInv, Gate!Lapse
  <2>4. QED BY <2>3 DEF Gate!GateNext
<1>2. CASE AwaitTimesOut(h)
  <2>1. /\ hook[h] = "expiring"
        /\ hook' = [hook EXCEPT ![h] = "timedOut"]
        /\ reply' = [reply EXCEPT ![h] = "deny"]
        /\ first' = first
    BY <1>2 DEF AwaitTimesOut
  <2>2. Stage(hook[h]) = "lapsed" /\ Stage("timedOut") = "decided"
    BY <2>1 DEF Stage
  <2>3. Gate!Deny(h)
    BY <2>1, <2>2, StageMoves DEF IInv, Gate!Deny
  <2>4. QED BY <2>3 DEF Gate!GateNext
<1>3. QED BY <1>1, <1>2

\* Every step of the handlers is a step of the gate or leaves it unchanged.
LEMMA StepRefines == IInv /\ [Next]_vars => [Gate!GateNext]_(Gate!gateVars)
<1> SUFFICES ASSUME IInv, [Next]_vars
             PROVE  Gate!GateNext \/ UNCHANGED Gate!gateVars
  OBVIOUS
<1>1. ASSUME UNCHANGED <<hook, reply, first>>
      PROVE  UNCHANGED Gate!gateVars
  BY <1>1 DEF Gate!gateVars
<1>2. ASSUME NEW h \in Calls, HookReturns(h) PROVE Gate!GateNext
  <2>1. first[h] = future[h] /\ first[h] # "none" /\ future[h] \in Decisions
    BY <1>2 DEF HookReturns, IInv, CallInv, Decisions
  <2>2. /\ hook[h] = "waiting" /\ "answered" \in Decided
        /\ hook' = [hook EXCEPT ![h] = "answered"]
        /\ reply' = [reply EXCEPT ![h] = future[h]]
        /\ first' = first
    BY <1>2 DEF HookReturns, Decided
  <2>3. QED BY <2>1, <2>2, DecideRefines
<1>3. ASSUME NEW h \in Calls, TimerFires(h) \/ AwaitTimesOut(h) PROVE Gate!GateNext
  BY <1>3, TimerRefines
<1>4. ASSUME \/ \E c \in Clients : Connect(c) \/ Disconnect(c) \/ Prune(c)
             \/ Expire
             \/ \E p \in Policies : SetPolicy(p)
      PROVE  UNCHANGED <<hook, reply, first>>
  BY <1>4 DEF Connect, Disconnect, Prune, Expire, SetPolicy, otherVars
<1>5. CASE Next
  BY <1>5, <1>1, <1>2, <1>3, <1>4, WaiveRefines, HoldRefines, AcceptRefines, CastRefines DEF Next
<1>6. CASE UNCHANGED vars
  BY <1>6, <1>1 DEF vars
<1>7. QED BY <1>5, <1>6

\* Approvals implements ApprovalGate.
THEOREM Refinement == Spec => ImplementsGate
BY Inductive, InitRefines, StepRefines, PTL DEF Spec, ImplementsGate, Gate!GateSpec
=============================================================================
