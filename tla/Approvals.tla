------------------------------ MODULE Approvals ------------------------------
(***************************************************************************)
(* The tool-approval gate of agy-remote: what happens between the moment   *)
(* agy's PreToolUse hook posts a tool call to the server and the moment    *)
(* the hook reads a decision.                                              *)
(*                                                                         *)
(* The server is one asyncio thread, so a handler is atomic between two    *)
(* awaits.  The awaits that matter are the `send_json` calls inside        *)
(* `broadcast` (they yield under backpressure) and the wait on the         *)
(* approval's future.  Everything that may run during them is an action    *)
(* of its own here: clients come, go and are pruned, answers arrive from   *)
(* any surface, the policy changes, other hook calls are served.  The      *)
(* wait ends in two steps: its future is settled or its timer fires, and   *)
(* the event loop resumes the handler some callbacks later.                *)
(*                                                                         *)
(* One value of Calls is one hook call and also its approval id (the       *)
(* server mints a fresh uuid per call).  `policy` is that of the           *)
(* conversation the calls belong to.  Nothing here reads which client      *)
(* looks at that conversation: that only decides about push messages.      *)
(***************************************************************************)
EXTENDS Naturals, FiniteSets

CONSTANTS
    Calls,             \* hook calls, and the approval ids minted for them
    Clients,           \* WebSocket clients (phones and browsers)
    AnsweredHistory    \* SessionManager._answered_history

ASSUME CallsAssumption == IsFiniteSet(Calls)
ASSUME ClientsAssumption == IsFiniteSet(Clients)
ASSUME HistoryAssumption == AnsweredHistory \in Nat \ {0}

VARIABLES
    open,      \* the sockets whose WebSocket handler is running
    clients,   \* _connected_clients, the set every broadcast iterates
    policy,    \* what get_approval_policy answers
    hook,      \* where each hook_pre_tool handler stands
    toSend,    \* the clients a handler's broadcast has not yet sent to
    size,      \* the size of _connected_clients when that iteration began
    failed,    \* that broadcast's to_remove
    status,    \* status of each entry of _pending_approvals, "absent" if none
    stamp,     \* insertion order of _pending_approvals
    future,    \* _approval_futures: "absent", "open", "cancelled" by the
               \* timer, or the decision it holds
    reply,     \* the decision the hook process received
    first      \* history: the first answer resolve_approval accepted

connVars == <<open, clients, policy>>
castVars == <<toSend, size, failed>>
vars == <<open, clients, policy, hook, toSend, size, failed,
          status, stamp, future, reply, first>>

Decisions == {"allow", "always", "deny", "force_ask"}
Tools     == {"ask_question", "read_only", "other"}
Policies  == {"ask_all", "auto_reads", "auto_all"}

\* "expiring": the timer has cancelled the wait, the handler has yet to resume.
InFlight == {"casting", "waiting", "expiring"}
Decided  == {"autoAllowed", "asked", "crashed", "answered", "timedOut"}

-----------------------------------------------------------------------------
(* The pending map *)

\* A variant that counts every entry as answered.
AnyEntry(st) == {a \in Calls : st[a] # "absent"}
Answered(st) == {a \in Calls : st[a] \in {"allowed", "denied"}}

\* _forget_old_answers: of the answered entries, in the map's insertion order,
\* only the last AnsweredHistory stay.
ForgetOldAnswers(st) ==
    LET Newer(a) == {b \in Answered(st) : stamp[b] >= stamp[a]}
    IN  [a \in Calls |-> IF /\ a \in Answered(st)
                            /\ Cardinality(Newer(a)) > AnsweredHistory
                         THEN "absent" ELSE st[a]]

\* What an answer makes of the call's future: only an open one is settled.
\* In the variant a later answer settles it again.
SettledAgain(fut, d) == d
Settled(fut, d) == IF fut = "open" THEN d ELSE fut

StatusOf(d) == IF d \in {"allow", "always"} THEN "allowed" ELSE "denied"

-----------------------------------------------------------------------------
TypeOK ==
    /\ open \in SUBSET Clients
    /\ clients \in SUBSET open
    /\ policy \in Policies
    /\ hook \in [Calls -> {"idle"} \cup InFlight \cup Decided]
    /\ toSend \in [Calls -> SUBSET Clients]
    /\ size \in [Calls -> Nat]
    /\ failed \in [Calls -> SUBSET Clients]
    /\ status \in [Calls -> {"absent", "pending", "allowed", "denied"}]
    /\ stamp \in [Calls -> Nat]
    /\ future \in [Calls -> {"absent", "open", "cancelled"} \cup Decisions]
    /\ reply \in [Calls -> {"none", "ask"} \cup Decisions]
    /\ first \in [Calls -> {"none"} \cup Decisions]

Init ==
    /\ open = {}
    /\ clients = {}
    /\ policy = "ask_all"
    /\ hook = [h \in Calls |-> "idle"]
    /\ toSend = [h \in Calls |-> {}]
    /\ size = [h \in Calls |-> 0]
    /\ failed = [h \in Calls |-> {}]
    /\ status = [h \in Calls |-> "absent"]
    /\ stamp = [h \in Calls |-> 0]
    /\ future = [h \in Calls |-> "absent"]
    /\ reply = [h \in Calls |-> "none"]
    /\ first = [h \in Calls |-> "none"]

-----------------------------------------------------------------------------
(* A hook call arrives: hook_pre_tool up to its first await on a phone.    *)

AutoAllows(t) ==
    /\ t # "ask_question"
    /\ \/ policy = "auto_all"
       \/ policy = "auto_reads" /\ t = "read_only"

\* request_approval answers from the policy; nothing is registered.
HookAutoAllowed(h, t) ==
    /\ hook[h] = "idle"
    /\ AutoAllows(t)
    /\ hook' = [hook EXCEPT ![h] = "autoAllowed"]
    /\ reply' = [reply EXCEPT ![h] = "allow"]
    /\ UNCHANGED <<connVars, castVars, status, stamp, future, first>>

\* Nobody is connected: "ask" hands the decision back to agy's own terminal.
HookNobodyWatching(h, t) ==
    /\ hook[h] = "idle"
    /\ ~AutoAllows(t)
    /\ clients = {}
    /\ hook' = [hook EXCEPT ![h] = "asked"]
    /\ reply' = [reply EXCEPT ![h] = "ask"]
    /\ UNCHANGED <<connVars, castVars, status, stamp, future, first>>

\* register_approval, up to the first send of its broadcast.
HookHeld(h, t) ==
    /\ hook[h] = "idle"
    /\ ~AutoAllows(t)
    /\ clients # {}
    /\ hook' = [hook EXCEPT ![h] = "casting"]
    /\ toSend' = [toSend EXCEPT ![h] = clients]
    /\ size' = [size EXCEPT ![h] = Cardinality(clients)]
    /\ failed' = [failed EXCEPT ![h] = {}]
    /\ future' = [future EXCEPT ![h] = "open"]
    /\ stamp' = [stamp EXCEPT ![h] = 1 + Cardinality({a \in Calls : stamp[a] # 0})]
    /\ status' = ForgetOldAnswers([status EXCEPT ![h] = "pending"])
    /\ UNCHANGED <<connVars, reply, first>>

-----------------------------------------------------------------------------
(* The broadcast of the approval_request: the send to c returns or raises, *)
(* and the iteration over _connected_clients takes its next step.          *)

FailedNow(h, c, ok) == IF ok THEN failed[h] ELSE failed[h] \cup {c}
Remaining(h, c) == (toSend[h] \ {c}) \cap clients

\* The locals of a broadcast that is over.
CastOver(h) ==
    /\ toSend' = [toSend EXCEPT ![h] = {}]
    /\ size' = [size EXCEPT ![h] = 0]
    /\ failed' = [failed EXCEPT ![h] = {}]

\* The set changed size under the iteration: RuntimeError leaves the handler
\* (HTTP 500, which the hook process turns into "ask") before anything pops
\* the approval it had just registered.
BroadcastRaises(h, c) ==
    /\ hook[h] = "casting"
    /\ c \in toSend[h]
    /\ Cardinality(clients) # size[h]
    /\ hook' = [hook EXCEPT ![h] = "crashed"]
    /\ reply' = [reply EXCEPT ![h] = "ask"]
    /\ CastOver(h)
    /\ UNCHANGED <<connVars, status, stamp, future, first>>

BroadcastContinues(h, c, ok) ==
    /\ hook[h] = "casting"
    /\ c \in toSend[h]
    /\ Cardinality(clients) = size[h]
    /\ Remaining(h, c) # {}
    /\ toSend' = [toSend EXCEPT ![h] = @ \ {c}]
    /\ failed' = [failed EXCEPT ![h] = FailedNow(h, c, ok)]
    /\ UNCHANGED <<connVars, hook, size, status, stamp, future, reply, first>>

\* The last send: the failed sockets are pruned, and request_approval looks
\* whether anybody is left before it waits.  A future that was settled during
\* the broadcast is not waited for: its await returns without yielding.
BroadcastEnds(h, c, ok) ==
    /\ hook[h] = "casting"
    /\ c \in toSend[h]
    /\ Cardinality(clients) = size[h]
    /\ Remaining(h, c) = {}
    /\ clients' = clients \ FailedNow(h, c, ok)
    /\ CastOver(h)
    /\ IF clients' = {}
       THEN /\ status' = [status EXCEPT ![h] = "absent"]
            /\ hook' = [hook EXCEPT ![h] = "asked"]
            /\ reply' = [reply EXCEPT ![h] = "ask"]
       ELSE /\ IF future[h] \in Decisions
               THEN /\ hook' = [hook EXCEPT ![h] = "answered"]
                    /\ reply' = [reply EXCEPT ![h] = future[h]]
               ELSE /\ hook' = [hook EXCEPT ![h] = "waiting"]
                    /\ UNCHANGED reply
            /\ UNCHANGED status
    /\ UNCHANGED <<open, policy, stamp, future, first>>

-----------------------------------------------------------------------------
(* await_approval *)

HookReturns(h) ==
    /\ hook[h] = "waiting"
    /\ future[h] \in Decisions
    /\ hook' = [hook EXCEPT ![h] = "answered"]
    /\ reply' = [reply EXCEPT ![h] = future[h]]
    /\ UNCHANGED <<connVars, castVars, status, stamp, future, first>>

\* wait_for's timer cancels the handler's task at any time before that.  An
\* open future is cancelled with it; of a settled one the handler no longer
\* hears.  The entry stays in the pending map until the handler runs.
TimerFires(h) ==
    /\ hook[h] = "waiting"
    /\ hook' = [hook EXCEPT ![h] = "expiring"]
    /\ future' = [future EXCEPT ![h] = IF @ = "open" THEN "cancelled" ELSE @]
    /\ UNCHANGED <<connVars, castVars, status, stamp, reply, first>>

\* A variant that leaves the entry in the pending map.
AwaitTimesOutKeeps(h) ==
    /\ hook[h] = "expiring"
    /\ hook' = [hook EXCEPT ![h] = "timedOut"]
    /\ reply' = [reply EXCEPT ![h] = "deny"]
    /\ future' = [future EXCEPT ![h] = "absent"]
    /\ UNCHANGED <<connVars, castVars, status, stamp, first>>

\* A variant that expects the entry to be listed still.
AwaitTimesOutIfListed(h) ==
    /\ hook[h] = "expiring"
    /\ status[h] # "absent"
    /\ hook' = [hook EXCEPT ![h] = "timedOut"]
    /\ reply' = [reply EXCEPT ![h] = "deny"]
    /\ status' = [status EXCEPT ![h] = "absent"]
    /\ future' = [future EXCEPT ![h] = "absent"]
    /\ UNCHANGED <<connVars, castVars, stamp, first>>

\* The handler resumes with the TimeoutError.
AwaitTimesOut(h) ==
    /\ hook[h] = "expiring"
    /\ hook' = [hook EXCEPT ![h] = "timedOut"]
    /\ reply' = [reply EXCEPT ![h] = "deny"]
    /\ status' = [status EXCEPT ![h] = "absent"]
    /\ future' = [future EXCEPT ![h] = "absent"]
    /\ UNCHANGED <<connVars, castVars, stamp, first>>

-----------------------------------------------------------------------------
(* resolve_approval: a tap on a phone, the REST endpoint, the tmux popup.  *)
(* Any surface that ever learned the id may answer, late or twice.         *)

Resolve(h, d) ==
    /\ status[h] # "absent"
    /\ status' = ForgetOldAnswers([status EXCEPT ![h] = StatusOf(d)])
    /\ future' = [future EXCEPT ![h] = Settled(@, d)]
    /\ first' = [first EXCEPT ![h] = IF @ = "none" THEN d ELSE @]
    /\ UNCHANGED <<connVars, castVars, hook, stamp, reply>>

-----------------------------------------------------------------------------
(* Clients and settings *)

otherVars == <<hook, toSend, size, status, stamp, future, reply, first>>

\* register_client
Connect(c) ==
    /\ c \notin open
    /\ open' = open \cup {c}
    /\ clients' = clients \cup {c}
    /\ UNCHANGED <<policy, failed, otherVars>>

\* A variant that leaves the socket to be pruned.
DisconnectKeepsClient(c) ==
    /\ c \in open
    /\ open' = open \ {c}
    /\ failed' = [h \in Calls |-> failed[h] \ {c}]
    /\ UNCHANGED <<clients, policy, otherVars>>

\* unregister_client, when the socket's handler ends or the reaper closes it.
\* A later socket of the same client is a new object to old iterations, which
\* therefore will not prune it.
Disconnect(c) ==
    /\ c \in open
    /\ open' = open \ {c}
    /\ clients' = clients \ {c}
    /\ failed' = [h \in Calls |-> failed[h] \ {c}]
    /\ UNCHANGED <<policy, otherVars>>

\* The end of any other broadcast drops a socket whose send raised, from
\* _connected_clients only: its handler lives on.
Prune(c) ==
    /\ c \in clients
    /\ clients' = clients \ {c}
    /\ UNCHANGED <<open, policy, failed, otherVars>>

\* disconnect_expired_clients
Expire ==
    /\ clients # {}
    /\ clients' = {}
    /\ UNCHANGED <<open, policy, failed, otherVars>>

SetPolicy(p) ==
    /\ policy' = p
    /\ UNCHANGED <<open, clients, failed, otherVars>>

-----------------------------------------------------------------------------
SendReturns(h) ==
    \E c \in Clients :
        \/ BroadcastRaises(h, c)
        \/ \E ok \in BOOLEAN : BroadcastContinues(h, c, ok) \/ BroadcastEnds(h, c, ok)

Next ==
    \/ \E h \in Calls, t \in Tools :
          HookAutoAllowed(h, t) \/ HookNobodyWatching(h, t) \/ HookHeld(h, t)
    \/ \E h \in Calls :
          SendReturns(h) \/ HookReturns(h) \/ TimerFires(h) \/ AwaitTimesOut(h)
    \/ \E h \in Calls, d \in Decisions : Resolve(h, d)
    \/ \E c \in Clients : Connect(c) \/ Disconnect(c) \/ Prune(c)
    \/ Expire
    \/ \E p \in Policies : SetPolicy(p)

Spec == Init /\ [][Next]_vars

\* The event loop runs a handler whose await is over, every send ends (the
\* socket drains or dies) and wait_for's timer fires.  No person is assumed
\* to answer and no client to stay.
Fairness ==
    \A h \in Calls :
        /\ WF_vars(SendReturns(h)) /\ WF_vars(HookReturns(h))
        /\ WF_vars(TimerFires(h)) /\ WF_vars(AwaitTimesOut(h))

FairSpec == Spec /\ Fairness

-----------------------------------------------------------------------------
(* Properties *)

\* The first answer resolve_approval accepted is the decision, whatever later
\* or crossing answers say: a hook that came back with an answer brings that
\* one, and agy is never told another.  Only the timer may overrule it: an
\* answer accepted while the wait is being cancelled is lost to a denial, and
\* the entry is gone with it, so nobody can answer that call any more.
DecidedByFirstAnswer ==
    \A h \in Calls :
        /\ hook[h] = "answered" => first[h] # "none" /\ reply[h] = first[h]
        /\ reply[h] \in Decisions /\ hook[h] # "autoAllowed" =>
              \/ reply[h] = first[h]
              \/ hook[h] = "timedOut" /\ reply[h] = "deny" /\ status[h] = "absent"

\* Nothing runs without consent: the hook is told "allow" (or "always") only
\* by the auto-accept policy or by somebody's first answer.
AllowNeedsConsent ==
    \A h \in Calls :
        reply[h] \in {"allow", "always"} => hook[h] = "autoAllowed" \/ first[h] = reply[h]

\* A hook that is held and unanswered is in the pending list, so a client that
\* reconnects finds it: the purge of answered entries, other calls' deaths and
\* the pruning of sockets never take it away.
HeldIsListed ==
    \A h \in Calls :
        hook[h] \in InFlight /\ first[h] = "none" => status[h] = "pending"

\* An entry that stays "pending" with no hook behind it comes from a broadcast
\* that raised, and from nothing else.
OnlyACrashOrphans ==
    \A h \in Calls : status[h] = "pending" => hook[h] \in InFlight \cup {"crashed"}

\* How one call's handler, its entry in the pending map, its future and the
\* answers accepted for it hang together: the inductive form of the four
\* properties above.  Until the timer fires, a handler in flight has its
\* future, open exactly while nobody answered; after it, an unanswered call is
\* still listed though its future is cancelled; a call decided without a wait
\* or by the timer left no entry behind (save for a crash).
CallInv(h) ==
    /\ hook[h] = "idle" =>
          first[h] = "none" /\ reply[h] = "none"
    /\ hook[h] \in {"idle", "autoAllowed", "asked", "timedOut"} => status[h] = "absent"
    /\ hook[h] \in InFlight =>
          /\ reply[h] = "none"
          /\ first[h] = "none" => status[h] = "pending"
          /\ first[h] # "none" => status[h] # "pending"
    /\ hook[h] \in {"casting", "waiting"} =>
          future[h] = IF first[h] = "none" THEN "open" ELSE first[h]
    /\ hook[h] = "answered" =>
          reply[h] = first[h] /\ first[h] # "none" /\ status[h] # "pending"
    /\ hook[h] = "timedOut" => reply[h] = "deny"
    /\ hook[h] = "autoAllowed" => reply[h] = "allow"
    /\ hook[h] \in {"asked", "crashed"} => reply[h] = "ask"

IInv == TypeOK /\ \A h \in Calls : CallInv(h)

\* _forget_old_answers keeps the answered entries within their bound after
\* every step, whatever the order of the answers.
HistoryBounded == Cardinality(Answered(status)) <= AnsweredHistory

\* Every hook call that reached the server is decided: neither a dead socket
\* nor a phone nobody looks at can hold agy for ever.
EveryCallIsDecided ==
    \A h \in Calls : hook[h] \in InFlight ~> hook[h] \in Decided

\* The gate as agy sees it: where a handler stands, seen from outside.
Stage(x) ==
    CASE x = "idle"                     -> "idle"
      [] x \in {"casting", "waiting"}   -> "held"
      [] x = "expiring"                 -> "lapsed"
      [] OTHER                          -> "decided"

Gate == INSTANCE ApprovalGate WITH
    Answers <- Decisions,
    gate    <- [h \in Calls |-> Stage(hook[h])],
    answer  <- first,
    verdict <- reply

\* The handlers, with every interleaving of broadcasts, answers, timeouts and
\* clients, implement the abstract gate.
ImplementsGate == Gate!GateSpec

\* get_active_pending_approvals: "Every approval still waiting".
EveryPendingIsWaiting ==
    \A h \in Calls : status[h] = "pending" => hook[h] \in InFlight
=============================================================================
