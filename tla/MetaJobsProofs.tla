--------------------------- MODULE MetaJobsProofs ---------------------------
(***************************************************************************)
(* Theorems about the jobs of the worker service, for every number of      *)
(* jobs, of pages and of changes.                                          *)
(***************************************************************************)
EXTENDS MetaJobs, TLAPS

\* What the service says of a job now, it has given it.
TruthInv(j) == truth[j] # None => truth[j] \in reached[j]

\* So has it what an answer under way says; a cancel that was accepted counts;
\* and a retry goes on to its fallback with a second job to start only if the
\* first answer was no use.
RequestInv(a) ==
    /\ \A j \in Jobs : req[a].got[j] # None => req[a].got[j] \in reached[j]
    /\ req[a].op \in Ops \ {"idle", "poll"} => req[a].job \in Jobs
    /\ req[a].op = "cancelled" => "cancelled" \in reached[req[a].job]
    /\ req[a].op = "fallback" => started[a] < 2 /\ (started[a] = 1 => lost[a])
    /\ started[a] = 2 => lost[a]

MInv ==
    /\ TypeOK
    /\ \A j \in Jobs : TruthInv(j)
    /\ \A a \in Actors : RequestInv(a)
    /\ PushIsEarned

-----------------------------------------------------------------------------
\* The answer that no request waits for.
LEMMA NothingType == Nothing \in [Jobs -> Statuses] /\ \A j \in Jobs : Nothing[j] = None
BY DEF Nothing, Statuses

LEMMA InvInit == Init => MInv
<1> SUFFICES ASSUME Init PROVE MInv
  OBVIOUS
<1> USE NothingType, MetaJobsAssumption
<1>1. TypeOK
  BY DEF Init, TypeOK, Idle, Ops, Known, Live, Statuses
<1>2. \A j \in Jobs : TruthInv(j)
  BY DEF Init, TruthInv
<1>3. \A a \in Actors : RequestInv(a)
  BY DEF Init, RequestInv, Idle
<1>4. PushIsEarned
  BY DEF Init, PushIsEarned
<1>5. QED BY <1>1, <1>2, <1>3, <1>4 DEF MInv

\* A change at the service only adds to what a job has reached.
LEMMA Change ==
    ASSUME TypeOK, NEW j \in Jobs, NEW s \in Known, Becomes(j, s)
    PROVE  /\ truth' \in [Jobs -> Statuses]
           /\ changes' \in 0..MaxChanges
           /\ reached' \in [Jobs -> SUBSET Known]
           /\ s \in reached'[j] /\ truth'[j] = s
           /\ \A k \in Jobs : reached[k] \subseteq reached'[k]
           /\ \A k \in Jobs \ {j} : truth'[k] = truth[k]
BY MetaJobsAssumption DEF TypeOK, Becomes, Statuses

\* A step that writes one request, starts nothing and pushes nothing.
LEMMA Asks ==
    ASSUME MInv, NEW a \in Actors,
           UNCHANGED <<truth, changes, reached, serverVars, started, lost>>,
           NEW r \in [op : Ops, job : Jobs \cup {None}, got : [Jobs -> Statuses]],
           req' = [req EXCEPT ![a] = r],
           \A j \in Jobs : r.got[j] # None => r.got[j] \in reached[j],
           r.op \in {"idle", "poll"} \/ (r.op \in {"get", "got"} /\ r.job \in Jobs)
    PROVE  MInv'
<1>1. TypeOK /\ req'[a] = r /\ \A b \in Actors \ {a} : req'[b] = req[b]
  BY DEF MInv, TypeOK
<1>2. TypeOK'
  BY <1>1 DEF TypeOK, serverVars
<1>3. \A b \in Actors : RequestInv(b)'
  BY <1>1 DEF MInv, RequestInv, serverVars
<1>4. (\A j \in Jobs : TruthInv(j)') /\ PushIsEarned'
  BY DEF MInv, TruthInv, PushIsEarned, serverVars
<1>5. QED BY <1>2, <1>3, <1>4 DEF MInv

LEMMA WorkStep == ASSUME MInv, NEW j \in Jobs, Work(j) PROVE MInv'
<1>1. PICK s \in Known : Becomes(j, s) /\ told' = [told EXCEPT ![j] = @ /\ s # "completed"]
  BY DEF Work
<1>t. /\ TypeOK /\ UNCHANGED <<cache, shown, req, pushed, silent, started, lost>>
  BY DEF MInv, Work
<1>2. TypeOK'
  BY <1>t, <1>1, Change DEF TypeOK
<1>3. \A k \in Jobs : TruthInv(k)'
  BY <1>t, <1>1, Change DEF MInv, TruthInv
<1>4. \A b \in Actors : RequestInv(b)'
  BY <1>t, <1>1, Change DEF MInv, RequestInv, TypeOK
<1>5. PushIsEarned'
  BY <1>t, <1>1, Change DEF MInv, PushIsEarned
<1>6. QED BY <1>2, <1>3, <1>4, <1>5 DEF MInv

LEMMA AskingStep ==
    ASSUME MInv, NEW a \in Actors, PollTaken(a) \/ GetTaken(a) \/ \E j \in Jobs : Get(a, j)
    PROVE  MInv'
<1> DEFINE Requests == [op : Ops, job : Jobs \cup {None}, got : [Jobs -> Statuses]]
<1>t. TypeOK /\ Idle \in Requests
  BY NothingType DEF MInv, Idle, Ops
<1>u. UNCHANGED <<truth, changes, reached, serverVars, started, lost>>
  BY DEF PollTaken, GetTaken, Get
<1>1. CASE PollTaken(a)
  <2> DEFINE r == [op |-> "poll", job |-> None, got |-> truth]
  <2>1. r \in Requests /\ r.op = "poll"
    BY <1>t DEF TypeOK, Ops
  <2>2. \A j \in Jobs : r.got[j] # None => r.got[j] \in reached[j]
    BY DEF MInv, TruthInv
  <2>3. req' = [req EXCEPT ![a] = r]
    BY <1>1 DEF PollTaken
  <2> HIDE DEF r
  <2>4. QED BY <1>u, <2>1, <2>2, <2>3, Asks
<1>2. CASE GetTaken(a)
  <2>1. CASE req' = [req EXCEPT ![a] = Idle]
    <3>1. Idle.op = "idle" /\ \A j \in Jobs : Idle.got[j] = None
      BY NothingType DEF Idle
    <3>2. QED BY <1>t, <1>u, <2>1, <3>1, Asks
  <2>2. CASE req' = [req EXCEPT ![a] = [op |-> "got", job |-> req[a].job, got |-> truth]]
    <3> DEFINE r == [op |-> "got", job |-> req[a].job, got |-> truth]
    <3>1. req[a].job \in Jobs
      BY <1>2 DEF GetTaken, MInv, RequestInv, Ops
    <3>2. r \in Requests /\ r.op = "got" /\ r.job \in Jobs
      BY <1>t, <3>1 DEF TypeOK, Ops
    <3>3. \A j \in Jobs : r.got[j] # None => r.got[j] \in reached[j]
      BY DEF MInv, TruthInv
    <3>4. req' = [req EXCEPT ![a] = r]
      BY <2>2
    <3> HIDE DEF r
    <3>5. QED BY <1>u, <3>2, <3>3, <3>4, Asks
  <2>3. QED BY <1>2, <2>1, <2>2 DEF GetTaken
<1>3. ASSUME NEW j \in Jobs, Get(a, j) PROVE MInv'
  <2> DEFINE r == For("get", j)
  <2>1. r \in Requests /\ r.op = "get" /\ r.job = j /\ \A k \in Jobs : r.got[k] = None
    BY NothingType DEF For, Ops
  <2>2. req' = [req EXCEPT ![a] = r]
    BY <1>3 DEF Get
  <2> HIDE DEF r
  <2>3. QED BY <1>u, <2>1, <2>2, Asks
<1>4. QED BY <1>1, <1>2, <1>3

\* poll_meta_agy pushes what its answer says, and that was so.
LEMMA PollAppliedStep == ASSUME MInv, NEW a \in Actors, PollApplied(a) PROVE MInv'
<1> DEFINE new == req[a].got
           listed == {j \in Jobs : new[j] # None}
           moved == {j \in listed : cache[j] # None /\ cache[j] # new[j]}
<1>t. /\ TypeOK /\ new \in [Jobs -> Statuses]
      /\ req' = [req EXCEPT ![a] = Idle]
      /\ UNCHANGED <<truth, changes, reached, started, lost>>
  BY DEF MInv, TypeOK, PollApplied
<1>1. \A j \in listed : new[j] \in reached[j] /\ new[j] \in Known
  BY <1>t DEF MInv, RequestInv, Statuses
<1>2. PushUnlessFocused(moved, new)
  BY DEF PollApplied, Before, Listed
<1>3. cache' \in [Jobs -> Statuses]
  BY <1>t DEF PollApplied, Listed, TypeOK
<1>4. shown' \in [Jobs -> Statuses] /\ silent' \in [Jobs -> BOOLEAN]
  BY <1>t, <1>3 DEF PollApplied, TypeOK
<1>5. PICK focus \in SUBSET moved :
        /\ pushed' = [j \in Jobs |->
                         IF /\ j \in moved \ focus
                            /\ new[j] \in {"completed", "needs_attention"}
                         THEN pushed[j] \cup {new[j]}
                         ELSE pushed[j]]
        /\ told' = [j \in Jobs |-> told[j] \/ (j \in moved /\ new[j] = "completed")]
  BY <1>2 DEF PushUnlessFocused
<1>6. pushed' \in [Jobs -> SUBSET Known] /\ told' \in [Jobs -> BOOLEAN]
  BY <1>t, <1>1, <1>5 DEF TypeOK
<1>7. PushIsEarned'
  BY <1>t, <1>1, <1>5 DEF MInv, PushIsEarned
<1>8. TypeOK'
  BY <1>t, <1>3, <1>4, <1>6, NothingType DEF TypeOK, Idle, Ops
<1>9. \A j \in Jobs : TruthInv(j)'
  BY <1>t DEF MInv, TruthInv
<1>10. \A b \in Actors : RequestInv(b)'
  BY <1>t, NothingType DEF MInv, RequestInv, TypeOK, Idle
<1>11. QED BY <1>7, <1>8, <1>9, <1>10 DEF MInv

LEMMA GetAppliedStep == ASSUME MInv, NEW a \in Actors, GetApplied(a) PROVE MInv'
<1>t. /\ TypeOK /\ req[a].job \in Jobs /\ req[a].got \in [Jobs -> Statuses]
      /\ req' = [req EXCEPT ![a] = Idle]
      /\ UNCHANGED <<truth, shown, changes, reached, pushed, started, lost>>
  BY DEF MInv, RequestInv, TypeOK, GetApplied, Ops
<1>1. /\ cache' \in [Jobs -> Statuses] /\ silent' \in [Jobs -> BOOLEAN]
      /\ told' \in [Jobs -> BOOLEAN]
  BY <1>t DEF GetApplied, TypeOK
<1>2. TypeOK'
  BY <1>t, <1>1, NothingType DEF TypeOK, Idle, Ops
<1>3. \A b \in Actors : RequestInv(b)'
  BY <1>t, NothingType DEF MInv, RequestInv, TypeOK, Idle
<1>4. (\A j \in Jobs : TruthInv(j)') /\ PushIsEarned'
  BY <1>t DEF MInv, TruthInv, PushIsEarned
<1>5. QED BY <1>2, <1>3, <1>4 DEF MInv

LEMMA CancelAppliedStep == ASSUME MInv, NEW a \in Actors, CancelApplied(a) PROVE MInv'
<1>t. /\ TypeOK /\ req[a].job \in Jobs /\ "cancelled" \in reached[req[a].job]
      /\ req' = [req EXCEPT ![a] = Idle]
      /\ pushed' = [pushed EXCEPT ![req[a].job] = @ \cup {"cancelled"}]
      /\ Announce(req[a].job, "cancelled")
      /\ UNCHANGED <<truth, changes, reached, started, lost>>
  BY DEF MInv, RequestInv, CancelApplied, Ops
<1>1. "cancelled" \in Known /\ "cancelled" \in Statuses
  BY DEF Known, Statuses
<1>2. TypeOK'
  BY <1>t, <1>1, NothingType DEF TypeOK, Announce, Idle, Ops
<1>3. \A b \in Actors : RequestInv(b)'
  BY <1>t, NothingType DEF MInv, RequestInv, TypeOK, Idle
<1>4. (\A j \in Jobs : TruthInv(j)') /\ PushIsEarned'
  BY <1>t DEF MInv, TruthInv, PushIsEarned, TypeOK
<1>5. QED BY <1>2, <1>3, <1>4 DEF MInv

\* A job the service has just taken counts as running.
LEMMA QueuedRuns == Normal("queued") = "running"
BY Zenon DEF Normal

LEMMA StartAppliedStep == ASSUME MInv, NEW a \in Actors, StartApplied(a) PROVE MInv'
<1>t. /\ TypeOK /\ req[a].job \in Jobs
      /\ req' = [req EXCEPT ![a] = Idle]
      /\ started' = [started EXCEPT ![a] = 0] /\ lost' = [lost EXCEPT ![a] = FALSE]
      /\ Announce(req[a].job, "running")
      /\ UNCHANGED <<truth, changes, reached, pushed>>
  BY QueuedRuns DEF MInv, RequestInv, StartApplied, Ops
<1>1. "running" \in Statuses
  BY DEF Known, Live, Statuses
<1>a. /\ cache' \in [Jobs -> Statuses] /\ shown' \in [Jobs -> Statuses]
      /\ silent' \in [Jobs -> BOOLEAN] /\ told' \in [Jobs -> BOOLEAN]
  BY <1>t, <1>1 DEF TypeOK, Announce
<1>b. started' \in [Actors -> 0..2] /\ lost' \in [Actors -> BOOLEAN]
  BY <1>t DEF TypeOK
<1>2. TypeOK'
  BY <1>t, <1>a, <1>b, NothingType DEF TypeOK, Idle, Ops
<1>3. \A b \in Actors : RequestInv(b)'
  BY <1>t, NothingType DEF MInv, RequestInv, TypeOK, Idle
<1>4. (\A j \in Jobs : TruthInv(j)') /\ PushIsEarned'
  BY <1>t DEF MInv, TruthInv, PushIsEarned
<1>5. QED BY <1>2, <1>3, <1>4 DEF MInv

\* A job that was started, or may be cancelled: what it reached is only added to.
Grows ==
    /\ truth' \in [Jobs -> Statuses] /\ changes' \in 0..MaxChanges
    /\ reached' \in [Jobs -> SUBSET Known]
    /\ \A j \in Jobs : reached[j] \subseteq reached'[j] /\ TruthInv(j)'

\* Only one actor's request, and what it started, is written.
Only(a) ==
    /\ req' \in [Actors -> [op : Ops, job : Jobs \cup {None}, got : [Jobs -> Statuses]]]
    /\ started' \in [Actors -> 0..2] /\ lost' \in [Actors -> BOOLEAN]
    /\ \A b \in Actors \ {a} :
          req'[b] = req[b] /\ started'[b] = started[b] /\ lost'[b] = lost[b]

\* What is left to show of such a step.
LEMMA Requested ==
    ASSUME MInv, NEW a \in Actors, UNCHANGED serverVars, Grows, Only(a), RequestInv(a)'
    PROVE  MInv'
<1>1. TypeOK'
  BY DEF MInv, TypeOK, Grows, Only, serverVars
<1>2. ASSUME NEW b \in Actors \ {a} PROVE RequestInv(b)'
  <2>1. req[b] \in [op : Ops, job : Jobs \cup {None}, got : [Jobs -> Statuses]]
    BY DEF MInv, TypeOK
  <2>2. req'[b] = req[b] /\ started'[b] = started[b] /\ lost'[b] = lost[b]
    BY DEF Only
  <2>3. RequestInv(b)
    BY DEF MInv
  <2>4. \A j \in Jobs : reached[j] \subseteq reached'[j]
    BY DEF Grows
  <2>5. QED BY <2>1, <2>2, <2>3, <2>4 DEF RequestInv
<1>3. (\A j \in Jobs : TruthInv(j)') /\ PushIsEarned'
  BY DEF MInv, PushIsEarned, Grows, serverVars
<1>4. QED BY <1>1, <1>2, <1>3 DEF MInv

LEMMA Started == ASSUME MInv, NEW j \in Jobs, Becomes(j, "running") PROVE Grows
<1>1. TypeOK /\ "running" \in Known
  BY DEF MInv, Known, Live
<1>2. QED BY <1>1, Change DEF MInv, TruthInv, Grows

\* The requests a handler leaves behind: one that is idle, one that names a job.
LEMMA RequestTypes ==
    LET Requests == [op : Ops, job : Jobs \cup {None}, got : [Jobs -> Statuses]]
    IN  /\ Idle \in Requests /\ Idle.op = "idle" /\ \A k \in Jobs : Idle.got[k] = None
        /\ \A op \in {"started", "cancelled", "fallback"}, j \in Jobs :
              /\ For(op, j) \in Requests
              /\ For(op, j).op = op /\ For(op, j).job = j
              /\ \A k \in Jobs : For(op, j).got[k] = None
BY NothingType DEF Idle, For, Ops

LEMMA CancelStep == ASSUME MInv, NEW a \in Actors, NEW j \in Jobs, Cancel(a, j) PROVE MInv'
<1>t. TypeOK /\ req[a] = Idle /\ UNCHANGED <<serverVars, started, lost>>
  BY DEF MInv, Cancel
<1>1. "cancelled" \in reached'[j]
  BY <1>t DEF Cancel, TypeOK
<1>2. Grows
  <2>1. /\ truth' \in [Jobs -> Statuses] /\ changes' \in 0..MaxChanges
        /\ reached' \in [Jobs -> SUBSET Known]
    BY <1>t, MetaJobsAssumption DEF Cancel, TypeOK, Statuses, Known
  <2>2. \A k \in Jobs : reached[k] \subseteq reached'[k]
    BY <1>t DEF Cancel, TypeOK
  <2>3. \A k \in Jobs : TruthInv(k)'
    BY <1>t, <1>1, <2>2 DEF Cancel, MInv, TruthInv, TypeOK
  <2>4. QED BY <2>1, <2>2, <2>3 DEF Grows
<1>3. req' = [req EXCEPT ![a] = For("cancelled", j)] \/ UNCHANGED req
  BY DEF Cancel
<1>4. Only(a)
  <2>1. CASE req' = [req EXCEPT ![a] = For("cancelled", j)]
    BY <1>t, <2>1, RequestTypes DEF Only, TypeOK
  <2>2. CASE UNCHANGED req
    BY <1>t, <2>2 DEF Only, TypeOK
  <2>3. QED BY <1>3, <2>1, <2>2
<1>5. req'[a] = For("cancelled", j) \/ req'[a] = Idle
  BY <1>t, <1>3 DEF TypeOK
<1>6. RequestInv(a)'
  BY <1>t, <1>1, <1>5, RequestTypes DEF RequestInv, MInv
<1>7. QED BY <1>t, <1>2, <1>4, <1>6, Requested

LEMMA SubmitStep == ASSUME MInv, NEW a \in Actors, NEW j \in Jobs, Submit(a, j) PROVE MInv'
<1>t. /\ TypeOK /\ req[a] = Idle /\ UNCHANGED serverVars /\ Becomes(j, "running")
      /\ started' = [started EXCEPT ![a] = 1] /\ lost' = [lost EXCEPT ![a] = FALSE]
      /\ req' = [req EXCEPT ![a] = For("started", j)] \/ UNCHANGED req
  BY DEF MInv, Submit
<1>1. Only(a)
  <2>1. req' \in [Actors -> [op : Ops, job : Jobs \cup {None}, got : [Jobs -> Statuses]]]
    BY <1>t, RequestTypes DEF TypeOK
  <2>2. started' \in [Actors -> 0..2] /\ lost' \in [Actors -> BOOLEAN]
    BY <1>t DEF TypeOK
  <2>3. QED BY <1>t, <2>1, <2>2 DEF Only, TypeOK
<1>2. (req'[a] = For("started", j) \/ req'[a] = Idle) /\ started'[a] = 1
  BY <1>t DEF TypeOK
<1>3. RequestInv(a)'
  BY <1>2, RequestTypes DEF RequestInv
<1>4. QED BY <1>t, <1>1, <1>3, Started, Requested

LEMMA RetryTakenStep ==
    ASSUME MInv, NEW a \in Actors, NEW j \in Jobs, NEW k \in Jobs, RetryTaken(a, j, k)
    PROVE  MInv'
<1>t. /\ TypeOK /\ UNCHANGED serverVars /\ Becomes(k, "running")
      /\ started' = [started EXCEPT ![a] = 1]
      /\ \/ /\ req' = [req EXCEPT ![a] = For("started", k)]
            /\ lost' = [lost EXCEPT ![a] = FALSE]
         \/ /\ req' = [req EXCEPT ![a] = For("fallback", j)]
            /\ lost' = [lost EXCEPT ![a] = TRUE]
  BY DEF MInv, RetryTaken
<1>1. Only(a)
  <2>1. req' \in [Actors -> [op : Ops, job : Jobs \cup {None}, got : [Jobs -> Statuses]]]
    <3>1. CASE req' = [req EXCEPT ![a] = For("started", k)]
      BY <1>t, <3>1, RequestTypes DEF TypeOK
    <3>2. CASE req' = [req EXCEPT ![a] = For("fallback", j)]
      BY <1>t, <3>2, RequestTypes DEF TypeOK
    <3>3. QED BY <1>t, <3>1, <3>2
  <2>2. started' \in [Actors -> 0..2] /\ lost' \in [Actors -> BOOLEAN]
    <3>1. started' \in [Actors -> 0..2]
      BY <1>t DEF TypeOK
    <3>2. lost' = [lost EXCEPT ![a] = FALSE] \/ lost' = [lost EXCEPT ![a] = TRUE]
      BY <1>t
    <3>3. lost' \in [Actors -> BOOLEAN]
      BY <1>t, <3>2 DEF TypeOK
    <3>4. QED BY <3>1, <3>3
  <2>3. QED BY <1>t, <2>1, <2>2 DEF Only, TypeOK
<1>2. /\ started'[a] = 1
      /\ \/ req'[a] = For("started", k)
         \/ req'[a] = For("fallback", j) /\ lost'[a]
  BY <1>t DEF TypeOK
<1>3. RequestInv(a)'
  BY <1>2, RequestTypes DEF RequestInv
<1>4. QED BY <1>t, <1>1, <1>3, Started, Requested

LEMMA RetryNotTakenStep ==
    ASSUME MInv, NEW a \in Actors, NEW j \in Jobs, RetryNotTaken(a, j) PROVE MInv'
<1>t. /\ TypeOK /\ UNCHANGED <<truth, changes, reached, serverVars>>
      /\ req' = [req EXCEPT ![a] = For("fallback", j)]
      /\ started' = [started EXCEPT ![a] = 0] /\ lost' = [lost EXCEPT ![a] = FALSE]
  BY DEF MInv, RetryNotTaken
<1>1. Grows
  BY <1>t DEF MInv, TypeOK, TruthInv, Grows
<1>2. Only(a)
  <2>1. req' \in [Actors -> [op : Ops, job : Jobs \cup {None}, got : [Jobs -> Statuses]]]
    BY <1>t, RequestTypes DEF TypeOK
  <2>2. started' \in [Actors -> 0..2] /\ lost' \in [Actors -> BOOLEAN]
    BY <1>t DEF TypeOK
  <2>3. QED BY <1>t, <2>1, <2>2 DEF Only, TypeOK
<1>3. req'[a] = For("fallback", j) /\ started'[a] = 0
  BY <1>t DEF TypeOK
<1>4. RequestInv(a)'
  BY <1>3, RequestTypes DEF RequestInv
<1>5. QED BY <1>t, <1>1, <1>2, <1>4, Requested

\* The fallback starts a second job only where the first answer was no use.
LEMMA FallbackStep == ASSUME MInv, NEW a \in Actors, Fallback(a) PROVE MInv'
<1>t. /\ TypeOK /\ UNCHANGED <<serverVars, lost>>
      /\ started[a] \in 0..1 /\ (started[a] = 1 => lost[a])
  BY DEF MInv, TypeOK, RequestInv, Fallback
<1>1. CASE req' = [req EXCEPT ![a] = Idle] /\ UNCHANGED <<truth, changes, reached, started>>
  <2>1. Grows
    BY <1>1 DEF MInv, TypeOK, TruthInv, Grows
  <2>2. Only(a)
    BY <1>t, <1>1, RequestTypes DEF Only, TypeOK
  <2>3. req'[a] = Idle /\ started'[a] = started[a]
    BY <1>t, <1>1 DEF TypeOK
  <2>4. RequestInv(a)'
    BY <1>t, <2>3, RequestTypes DEF RequestInv
  <2>5. QED BY <1>t, <2>1, <2>2, <2>4, Requested
<1>2. ASSUME NEW k \in Jobs, Starts(a, k),
             \/ req' = [req EXCEPT ![a] = For("started", k)]
             \/ req' = [req EXCEPT ![a] = Idle]
      PROVE  MInv'
  <2>1. /\ Becomes(k, "running") /\ started' = [started EXCEPT ![a] = @ + 1]
        /\ started[a] + 1 \in 0..2 /\ (started[a] + 1 = 2 => lost[a])
    BY <1>t, <1>2 DEF Starts
  <2>2. Only(a)
    <3>1. req' \in [Actors -> [op : Ops, job : Jobs \cup {None}, got : [Jobs -> Statuses]]]
      <4>1. CASE req' = [req EXCEPT ![a] = For("started", k)]
        BY <1>t, <4>1, RequestTypes DEF TypeOK
      <4>2. CASE req' = [req EXCEPT ![a] = Idle]
        BY <1>t, <4>2, RequestTypes DEF TypeOK
      <4>3. QED BY <1>2, <4>1, <4>2
    <3>2. started' \in [Actors -> 0..2] /\ lost' \in [Actors -> BOOLEAN]
      BY <1>t, <1>2, <2>1 DEF TypeOK
    <3>3. QED BY <1>t, <1>2, <2>1, <3>1, <3>2 DEF Only, TypeOK
  <2>3. /\ req'[a] = For("started", k) \/ req'[a] = Idle
        /\ started'[a] = 2 => lost'[a]
    BY <1>t, <1>2, <2>1 DEF TypeOK
  <2>4. RequestInv(a)'
    BY <2>3, RequestTypes DEF RequestInv
  <2>5. QED BY <1>t, <2>1, <2>2, <2>4, Started, Requested
<1>3. QED BY <1>1, <1>2 DEF Fallback

LEMMA InvNext == MInv /\ [Next]_vars => MInv'
<1> SUFFICES ASSUME MInv, [Next]_vars PROVE MInv'
  OBVIOUS
<1>1. CASE UNCHANGED vars
  <2>1. TypeOK'
    BY <1>1 DEF MInv, TypeOK, vars
  <2>2. (\A j \in Jobs : TruthInv(j)') /\ (\A a \in Actors : RequestInv(a)') /\ PushIsEarned'
    BY <1>1 DEF MInv, TruthInv, RequestInv, PushIsEarned, vars
  <2>3. QED BY <2>1, <2>2 DEF MInv
<1>2. ASSUME NEW j \in Jobs, Work(j) PROVE MInv'
  BY <1>2, WorkStep
<1>3. ASSUME NEW a \in Actors, PollTaken(a) PROVE MInv'
  BY <1>3, AskingStep
<1>4. ASSUME NEW a \in Actors, Applied(a) PROVE MInv'
  BY <1>4, PollAppliedStep, GetAppliedStep, CancelAppliedStep, StartAppliedStep DEF Applied
<1>5. ASSUME NEW a \in Actors, Answered(a) PROVE MInv'
  BY <1>5, AskingStep, FallbackStep DEF Answered
<1>6. ASSUME NEW a \in Actors, NEW j \in Jobs, Request(a, j) PROVE MInv'
  BY <1>6, AskingStep, CancelStep, SubmitStep, RetryNotTakenStep, RetryTakenStep DEF Request
<1>7. Phones \subseteq Actors
  BY DEF Actors
<1>8. QED BY <1>1, <1>2, <1>3, <1>4, <1>5, <1>6, <1>7 DEF Next

-----------------------------------------------------------------------------
\* Whatever the service does and however its answers overtake one another, what
\* the server pushes, keeps and has under way refers to things that happened:
\* the invariant behind the two theorems below (poll_meta_agy, get_agent,
\* cancel_agent, submit_meta_job, retry_agent).
THEOREM MetaJobsInvariant == Spec => []MInv
BY InvInit, InvNext, PTL DEF Spec

\* The caches, answers and histories stay within their types: cancel_agent,
\* get_agent and a retry always name a job, and no request starts three.
THEOREM MetaJobsTypes == Spec => []TypeOK
<1>1. MInv => TypeOK
  BY DEF MInv
<1>2. QED BY <1>1, MetaJobsInvariant, PTL

\* poll_meta_agy and cancel_agent never push a status that the service did not
\* give, or accept as a cancel, even when the answer is stale when applied.
THEOREM PushesAreEarned == Spec => []PushIsEarned
<1>1. MInv => PushIsEarned
  BY DEF MInv
<1>2. QED BY <1>1, MetaJobsInvariant, PTL

\* A tap on retry (retry_job, then get_job and submit_job) starts a second job
\* only when the service took the first request and its answer was no use.
THEOREM OneJob == Spec => []OneJobPerRequest
<1>1. MInv => OneJobPerRequest
  BY DEF MInv, TypeOK, RequestInv, OneJobPerRequest, Actors
<1>2. QED BY <1>1, MetaJobsInvariant, PTL
=============================================================================
