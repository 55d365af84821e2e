------------------------------- MODULE MetaJobs -------------------------------
(***************************************************************************)
(* Jobs of the worker service (meta-AGY) as the server knows them.         *)
(*                                                                         *)
(* The service runs the jobs.  The server keeps the last status it heard   *)
(* of each in _meta_jobs, compares that with every answer to a poll, and   *)
(* pushes what changed.  The watch loop polls, and so does every page that *)
(* asks for the agents; reads, submissions, retries and cancels run beside *)
(* them.  Each is cut where it waits for the service: an answer is taken   *)
(* in one step and applied in a later one, when the cache and the service  *)
(* may both have moved on.                                                 *)
(*                                                                         *)
(* "completed" stands for failed as well: no handler tells the two apart.  *)
(* _meta_job_outputs is left out: it is written and never read.            *)
(***************************************************************************)
EXTENDS Naturals, FiniteSets

CONSTANTS
    Jobs,         \* agent ids of the service
    Phones,       \* pages that make requests, one at a time each
    Watch,        \* the poll of the watch loop
    None,         \* no status: a job that is unknown, or not there yet
    MaxChanges    \* bound: how often the service may change a job

ASSUME MetaJobsAssumption ==
    /\ Watch \notin Phones
    /\ MaxChanges \in Nat

VARIABLES
    truth,    \* the status of each job at the service
    cache,    \* _meta_jobs
    shown,    \* the status the last agent_updated broadcast gave of each job
    req,      \* the request each actor has under way
    changes,  \* how often the service changed a job
    reached,  \* history: every status the service ever gave a job
    pushed,   \* history: what was pushed of each job: attention, its end
    told,     \* history: whether the news that a job completed was dealt with
    silent,   \* history: the cache was last written by a handler that tells nobody
    started,  \* history: jobs the service started for each actor's last request
    lost      \* history: that request was taken and its answer was no use

serverVars == <<cache, shown, pushed, told, silent>>
vars == <<truth, cache, shown, req, changes,
          reached, pushed, told, silent, started, lost>>

Actors == Phones \cup {Watch}
Live == {"running", "needs_attention"}
Known == Live \cup {"completed", "cancelled"}
Statuses == Known \cup {None}

\* idle; an answer to list_jobs or get_job, a job the service started, or an
\* accepted cancel on its way back; get_job not yet answered; a retry that goes
\* on with get_job and submit_job.
Ops == {"idle", "poll", "got", "started", "cancelled", "get", "fallback"}

Nothing == [j \in Jobs |-> None]
Idle == [op |-> "idle", job |-> None, got |-> Nothing]

-----------------------------------------------------------------------------
TypeOK ==
    /\ truth \in [Jobs -> Statuses]
    /\ cache \in [Jobs -> Statuses]
    /\ shown \in [Jobs -> Statuses]
    /\ req \in [Actors -> [op : Ops, job : Jobs \cup {None},
                           got : [Jobs -> Statuses]]]
    /\ changes \in 0..MaxChanges
    /\ reached \in [Jobs -> SUBSET Known]
    /\ pushed \in [Jobs -> SUBSET Known]
    /\ told \in [Jobs -> BOOLEAN]
    /\ silent \in [Jobs -> BOOLEAN]
    /\ started \in [Actors -> 0..2]
    /\ lost \in [Actors -> BOOLEAN]

\* Jobs may have been started elsewhere before the server is.
Init ==
    /\ truth \in [Jobs -> {"running", None}]
    /\ cache = Nothing
    /\ shown = Nothing
    /\ req = [a \in Actors |-> Idle]
    /\ changes = 0
    /\ reached = [j \in Jobs |-> {truth[j]} \ {None}]
    /\ pushed = [j \in Jobs |-> {}]
    /\ told = [j \in Jobs |-> FALSE]
    /\ silent = [j \in Jobs |-> FALSE]
    /\ started = [a \in Actors |-> 0]
    /\ lost = [a \in Actors |-> FALSE]

\* A variant that hands the service's own word through.
Verbatim(raw) == raw

\* normalize_job_status, for the words the service uses here.  A job it has just
\* taken is queued, or anything else that counts as running.
Normal(raw) ==
    CASE raw \in {"queued", "running"} -> "running"
      [] raw \in {"review", "needs_attention"} -> "needs_attention"
      [] raw \in {"done", "completed"} -> "completed"
      [] raw \in {"stopped", "cancelled"} -> "cancelled"

-----------------------------------------------------------------------------
(* The service *)

Becomes(j, s) ==
    /\ changes < MaxChanges
    /\ changes' = changes + 1
    /\ truth' = [truth EXCEPT ![j] = s]
    /\ reached' = [reached EXCEPT ![j] = @ \cup {s}]

\* A worker gets on with a job, stops to ask, ends, or is stopped elsewhere.
Work(j) ==
    /\ truth[j] \in Live
    /\ \E s \in Known \ {truth[j]} :
        /\ Becomes(j, s)
        /\ told' = [told EXCEPT ![j] = @ /\ s # "completed"]
    /\ UNCHANGED <<cache, shown, req, pushed, silent, started, lost>>

\* A request is taken and starts job j, a new one or a retried one.
Starts(a, j) ==
    /\ Becomes(j, "running")
    /\ started' = [started EXCEPT ![a] = @ + 1]

New(j) == truth[j] = None

-----------------------------------------------------------------------------
(* Handlers *)

For(op, j) == [op |-> op, job |-> j, got |-> Nothing]

\* is_client_focused: pages in the foreground may be looking at any of the jobs.
\* The others are pushed.
PushUnlessFocused(moved, new) ==
    \E focus \in SUBSET moved :
        /\ pushed' = [j \in Jobs |->
                         IF /\ j \in moved \ focus
                            /\ new[j] \in {"completed", "needs_attention"}
                         THEN pushed[j] \cup {new[j]}
                         ELSE pushed[j]]
        /\ told' = [j \in Jobs |-> told[j] \/ (j \in moved /\ new[j] = "completed")]

\* agent_updated for one job, after the cache took status s for it.  The push
\* that goes with it is recorded where it could be wrong, for a cancel.
Announce(j, s) ==
    /\ cache' = [cache EXCEPT ![j] = s]
    /\ shown' = [shown EXCEPT ![j] = s]
    /\ silent' = [silent EXCEPT ![j] = FALSE]
    /\ UNCHANGED told

\* list_jobs has an answer.  One that fails is an empty list, which changes
\* nothing when it is applied: the actor stays idle.
PollTaken(a) ==
    /\ req[a] = Idle
    /\ req' = [req EXCEPT ![a] = [op |-> "poll", job |-> None, got |-> truth]]
    /\ UNCHANGED <<truth, changes, reached, serverVars, started, lost>>

\* A variant that stores the answer before it compares.
StoredFirst(new) == [j \in Jobs |-> IF new[j] = None THEN cache[j] ELSE new[j]]

\* What the cache held when the answer came, for the comparison.
Before(new) == cache

\* A variant that stores a job once and keeps what it has (setdefault).
ListedNew(new) == {j \in Jobs : new[j] # None /\ cache[j] = None}

\* The jobs the answer speaks of.
Listed(new) == {j \in Jobs : new[j] # None}

\* poll_meta_agy, from the answer on: compare, push, store, broadcast.
PollApplied(a) ==
    /\ req[a].op = "poll"
    /\ LET new == req[a].got
           prev == Before(new)
           listed == Listed(new)
           moved == {j \in listed : prev[j] # None /\ prev[j] # new[j]}
           first == {j \in listed : prev[j] = None}
       IN  /\ PushUnlessFocused(moved, new)
           /\ cache' = [j \in Jobs |-> IF j \in listed THEN new[j] ELSE cache[j]]
           /\ IF moved \cup first # {}
              THEN /\ shown' = cache'
                   /\ silent' = [j \in Jobs |-> FALSE]
              ELSE UNCHANGED <<shown, silent>>
    /\ req' = [req EXCEPT ![a] = Idle]
    /\ UNCHANGED <<truth, changes, reached, started, lost>>

\* get_agent of a job that is not cached: for a reader, or as the first half of
\* a cancel or of a read of its output.
Get(a, j) ==
    /\ req[a] = Idle
    /\ cache[j] = None
    /\ req' = [req EXCEPT ![a] = For("get", j)]
    /\ UNCHANGED <<truth, changes, reached, serverVars, started, lost>>

\* get_job has an answer, or none: then there is no such agent.
GetTaken(a) ==
    /\ req[a].op = "get"
    /\ \/ /\ truth[req[a].job] # None
          /\ req' = [req EXCEPT ![a] = [op |-> "got", job |-> req[a].job, got |-> truth]]
       \/ req' = [req EXCEPT ![a] = Idle]
    /\ UNCHANGED <<truth, changes, reached, serverVars, started, lost>>

\* get_agent stores the answer, whatever the cache has come to hold meanwhile,
\* and tells nobody.
GetApplied(a) ==
    /\ req[a].op = "got"
    /\ LET j == req[a].job
           s == req[a].got[j]
       IN  /\ cache' = [cache EXCEPT ![j] = s]
           /\ silent' = [silent EXCEPT ![j] = shown[j] # s]
           /\ told' = [told EXCEPT ![j] = @ \/ s = "completed"]
           /\ req' = [req EXCEPT ![a] = Idle]
    /\ UNCHANGED <<truth, shown, changes, reached, pushed, started, lost>>

\* A variant that takes every answer for an accepted one.
CancelUnchecked(a, j) ==
    /\ req[a] = Idle
    /\ cache[j] # None
    /\ req' = [req EXCEPT ![a] = For("cancelled", j)]
    /\ UNCHANGED <<truth, changes, reached, serverVars, started, lost>>

\* cancel_agent of a cached job: cancel_job is accepted, and done at once or
\* (202) later or never.  A refusal and a lost answer change nothing here.
Cancel(a, j) ==
    /\ req[a] = Idle
    /\ cache[j] # None
    /\ truth[j] \in Live
    /\ changes < MaxChanges
    /\ changes' = changes + 1
    /\ truth' \in {truth, [truth EXCEPT ![j] = "cancelled"]}
    /\ reached' = [reached EXCEPT ![j] = @ \cup {"cancelled"}]
    /\ \/ req' = [req EXCEPT ![a] = For("cancelled", j)]
       \/ UNCHANGED req
    /\ UNCHANGED <<serverVars, started, lost>>

\* cancel_agent, from the accepting answer on.
CancelApplied(a) ==
    /\ req[a].op = "cancelled"
    /\ Announce(req[a].job, "cancelled")
    /\ pushed' = [pushed EXCEPT ![req[a].job] = @ \cup {"cancelled"}]
    /\ req' = [req EXCEPT ![a] = Idle]
    /\ UNCHANGED <<truth, changes, reached, started, lost>>

\* submit_meta_job: taken; the answer may be lost, which the page reads as a 502.
Submit(a, j) ==
    /\ req[a] = Idle
    /\ New(j)
    /\ Becomes(j, "running")
    /\ started' = [started EXCEPT ![a] = 1]
    /\ lost' = [lost EXCEPT ![a] = FALSE]
    /\ \/ req' = [req EXCEPT ![a] = For("started", j)]
       \/ UNCHANGED req
    /\ UNCHANGED <<serverVars>>

\* A variant that knows no success but 200.
RetryTakenOnly200(a, j, k) ==
    /\ req[a] = Idle
    /\ truth[j] # None
    /\ New(k) \/ (k = j /\ truth[j] \notin Live)
    /\ Becomes(k, "running")
    /\ started' = [started EXCEPT ![a] = 1]
    /\ lost' = [lost EXCEPT ![a] = FALSE]
    /\ \E op \in {"started", "fallback"} :
        req' = [req EXCEPT ![a] = For(op, IF op = "started" THEN k ELSE j)]
    /\ UNCHANGED <<serverVars>>

\* retry_job: the service takes the retry, as the same job again or a new one.
RetryTaken(a, j, k) ==
    /\ req[a] = Idle
    /\ truth[j] # None
    /\ New(k) \/ (k = j /\ truth[j] \notin Live)
    /\ Becomes(k, "running")
    /\ started' = [started EXCEPT ![a] = 1]
    /\ \/ /\ req' = [req EXCEPT ![a] = For("started", k)]
          /\ lost' = [lost EXCEPT ![a] = FALSE]
       \/ /\ req' = [req EXCEPT ![a] = For("fallback", j)]
          /\ lost' = [lost EXCEPT ![a] = TRUE]
    /\ UNCHANGED <<serverVars>>

\* retry_job: not taken, so it goes on as a submission of the same task.
RetryNotTaken(a, j) ==
    /\ req[a] = Idle
    /\ truth[j] # None
    /\ req' = [req EXCEPT ![a] = For("fallback", j)]
    /\ started' = [started EXCEPT ![a] = 0]
    /\ lost' = [lost EXCEPT ![a] = FALSE]
    /\ UNCHANGED <<truth, changes, reached, serverVars>>

\* The fallback: get_job, then submit_job; either may fail.
Fallback(a) ==
    /\ req[a].op = "fallback"
    /\ \/ /\ req' = [req EXCEPT ![a] = Idle]
          /\ UNCHANGED <<truth, changes, reached, started>>
       \/ \E k \in Jobs :
            /\ New(k)
            /\ Starts(a, k)
            /\ \/ req' = [req EXCEPT ![a] = For("started", k)]
               \/ req' = [req EXCEPT ![a] = Idle]
    /\ UNCHANGED <<serverVars, lost>>

\* submit_meta_job and retry_agent, from the answer on.
StartApplied(a) ==
    /\ req[a].op = "started"
    /\ Announce(req[a].job, Normal("queued"))
    /\ req' = [req EXCEPT ![a] = Idle]
    /\ started' = [started EXCEPT ![a] = 0]
    /\ lost' = [lost EXCEPT ![a] = FALSE]
    /\ UNCHANGED <<truth, changes, reached, pushed>>

-----------------------------------------------------------------------------
Applied(a) == PollApplied(a) \/ GetApplied(a) \/ CancelApplied(a) \/ StartApplied(a)

Request(a, j) ==
    \/ Get(a, j)
    \/ Cancel(a, j)
    \/ Submit(a, j)
    \/ RetryNotTaken(a, j)
    \/ \E k \in Jobs : RetryTaken(a, j, k)

Answered(a) == GetTaken(a) \/ Fallback(a)

Next ==
    \/ \E j \in Jobs : Work(j)
    \/ \E a \in Actors : PollTaken(a) \/ Applied(a)
    \/ \E a \in Phones : Answered(a) \/ \E j \in Jobs : Request(a, j)

Spec == Init /\ [][Next]_vars

\* The watch loop polls for ever and httpx bounds every request; that the
\* service answers the watch loop again and again is assumed of it.
Fairness ==
    /\ WF_vars(PollTaken(Watch))
    /\ \A a \in Actors : WF_vars(Applied(a))

FairSpec == Spec /\ Fairness

-----------------------------------------------------------------------------
(* Properties *)

\* A push never announces what did not happen: a status is pushed for a job
\* only if the service gave it that status, or accepted the cancel.
PushIsEarned == \A j \in Jobs : pushed[j] \subseteq reached[j]

\* One tap on submit or retry starts one job: a second one only when the
\* service took the first request and its answer was lost or unreadable.
OneJobPerRequest == \A a \in Phones : started[a] > 1 => lost[a]

\* A completion is not missed: while the server still believes a job unfinished
\* that has completed, the news is on its way.  It is pushed, or withheld because
\* a page in the foreground shows the job, or a read of that very job overtook
\* the poll, or the job is retried first.
CompletionIsPushed ==
    \A j \in Jobs :
        (cache[j] \in Live /\ truth[j] = "completed")
            ~> (told[j] \/ truth[j] # "completed")

\* The cache and the pages know every job as it is, apart from what get_agent
\* wrote and never announced.
InStep ==
    \A j \in Jobs :
        truth[j] # None =>
            /\ cache[j] = truth[j]
            /\ shown[j] = truth[j] \/ silent[j]

\* However answers overtake one another, the watch loop repairs the cache and
\* the pages once the service is at rest (MaxChanges makes it rest).
PagesCatchUp == <>[]InStep
=============================================================================
