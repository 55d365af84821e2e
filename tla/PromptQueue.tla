---------------------------- MODULE PromptQueue ----------------------------
(***************************************************************************)
(* The prompt queue: what becomes of a prompt a human sends from a phone   *)
(* while the agent of that conversation may be in the middle of a turn.    *)
(*                                                                         *)
(* The server cannot see turns.  is_conversation_busy infers them from     *)
(* pending approvals and from transcript steps inside the busy window, and *)
(* the agent runs on in its own process meanwhile.  Each handler below is  *)
(* atomic: between looking at the queue and typing there is no await, the  *)
(* broadcasts come after.                                                  *)
(***************************************************************************)
EXTENDS Naturals, Sequences, FiniteSets, SequencesExt

CONSTANTS
    Convs,            \* conversations
    Prompts,          \* the prompts humans send; a value is also its queue id
    MaxList           \* bound: length of the list a reorder request carries

ASSUME ListAssumption == MaxList \in Nat

VARIABLES
    turn,     \* the agent of each conversation: what it is really doing
    recent,   \* whether _last_activity lies inside the busy window
    gate,     \* the conversation's entries in _pending_approvals
    pane,     \* what get_supervisor finds, and whether it takes input
    queue,    \* _prompt_queues
    home,     \* history: the conversation each prompt was sent to
    fate      \* history: what became of each prompt

agentVars == <<turn, recent, gate>>
queueVars == <<turn, recent, gate, pane, queue, home, fate>>

\* Before its first step a turn is "prompted" if a prompt from a phone began it
\* and "begun" if the desktop or agent mail did.
Turns == {"idle", "prompted", "begun", "running"}

\* "held": a hook call is waiting.  "orphan": a pending entry nobody waits on.
Gates == {"none", "held", "orphan"}

\* "none": no supervisor.  "dead": one that is registered and no longer runs;
\* nothing unregisters the supervisor of a spawned session.
Panes == {"none", "live", "dead"}

\* "dropped": the supervisor refused it and the caller was told "tmux".
\* "announced": no supervisor, so the clients were told and nobody typed it.
Final == {"typed", "dropped", "announced", "cancelled"}
Fates == {"unsent", "queued"} \cup Final

-----------------------------------------------------------------------------
QueueTypeOK ==
    /\ turn \in [Convs -> Turns]
    /\ recent \in [Convs -> BOOLEAN]
    /\ gate \in [Convs -> Gates]
    /\ pane \in [Convs -> Panes]
    /\ queue \in [Convs -> Seq(Prompts)]
    /\ home \in [Prompts -> Convs]
    /\ fate \in [Prompts -> Fates]

QueueInit ==
    /\ turn = [c \in Convs |-> "idle"]
    /\ recent = [c \in Convs |-> FALSE]
    /\ gate = [c \in Convs |-> "none"]
    /\ pane \in [Convs -> {"none", "live"}]
    /\ queue = [c \in Convs |-> <<>>]
    /\ home \in [Prompts -> Convs]
    /\ fate = [p \in Prompts |-> "unsent"]

\* A variant that calls a conversation busy while prompts wait for it.
BusyWhileQueued(c) == gate[c] # "none" \/ recent[c] \/ queue[c] # <<>>

\* is_conversation_busy
Busy(c) == gate[c] # "none" \/ recent[c]

-----------------------------------------------------------------------------
(* Prompts *)

\* backend.send_prompt.  What inject_input returns is ignored.
SendPrompt(p, c) ==
    /\ fate' = [fate EXCEPT ![p] = CASE pane[c] = "live" -> "typed"
                                     [] pane[c] = "dead" -> "dropped"
                                     [] pane[c] = "none" -> "announced"]
    /\ turn' = [turn EXCEPT ![c] = IF pane[c] = "live" /\ @ = "idle" THEN "prompted" ELSE @]

\* submit_prompt: the agent looks busy and somebody can type later.
Queue(p) ==
    /\ fate[p] = "unsent"
    /\ Busy(home[p])
    /\ pane[home[p]] # "none"
    /\ queue' = [queue EXCEPT ![home[p]] = Append(@, p)]
    /\ fate' = [fate EXCEPT ![p] = "queued"]
    /\ UNCHANGED <<agentVars, pane, home>>

\* submit_prompt otherwise: straight to the backend.
SendNow(p) ==
    /\ fate[p] = "unsent"
    /\ ~(Busy(home[p]) /\ pane[home[p]] # "none")
    /\ SendPrompt(p, home[p])
    /\ UNCHANGED <<recent, gate, pane, queue, home>>

\* deliver_due_prompts, for one conversation: the head goes in.
Deliver(c) ==
    /\ queue[c] # <<>>
    /\ ~Busy(c)
    /\ pane[c] # "none"
    /\ queue' = [queue EXCEPT ![c] = Tail(@)]
    /\ SendPrompt(Head(queue[c]), c)
    /\ UNCHANGED <<recent, gate, pane, home>>

\* cancel_queued_prompt: the first entry with that id, in any queue.
Cancel(p) ==
    \E c \in Convs :
        /\ Contains(queue[c], p)
        /\ queue' = [queue EXCEPT ![c] = RemoveFirst(@, p)]
        /\ fate' = [fate EXCEPT ![p] = "cancelled"]
        /\ UNCHANGED <<agentVars, pane, home>>

\* What q holds at the positions in S, in its order.
Nth(S, n) == CHOOSE i \in S : Cardinality({j \in S : j <= i}) = n
At(q, S) == [n \in 1 .. Cardinality(S) |-> q[Nth(S, n)]]

\* reorder_queued_prompts: the client's list first, each entry once and only
\* if it is still queued, then what the list did not name, in its old order.
\* Variants: ids the queue no longer holds are taken over; repeats are kept;
\* an unknown id leaves a gap.
ListedAll(q, ids) == DOMAIN ids
AllOf(ids) == DOMAIN ids
ReorderedWithGaps(q, ids) == [i \in DOMAIN ids |-> IF Contains(q, ids[i]) THEN ids[i] ELSE "none"]

Listed(q, ids) == {i \in DOMAIN ids : Contains(q, ids[i])}
FirstsOf(ids) == {i \in DOMAIN ids : \A j \in DOMAIN ids : j < i => ids[j] # ids[i]}
Unlisted(q, ids) == {i \in DOMAIN q : ~Contains(ids, q[i])}
Reordered(q, ids) == At(ids, Listed(q, ids) \cap FirstsOf(ids)) \o At(q, Unlisted(q, ids))

Reorder(c, ids) ==
    /\ queue[c] # <<>>
    /\ queue' = [queue EXCEPT ![c] = Reordered(@, ids)]
    /\ UNCHANGED <<agentVars, pane, home, fate>>

-----------------------------------------------------------------------------
(* The agent, its terminal, its approvals: outside the queue *)

\* A human at the desktop, or agent mail (poll_inboxes types it without a look
\* at the queue), starts a turn.
OtherPrompt(c) ==
    /\ turn[c] = "idle"
    /\ pane[c] = "live"
    /\ turn' = [turn EXCEPT ![c] = "begun"]
    /\ UNCHANGED <<recent, gate, pane, queue, home, fate>>

\* note_conversation_activity, when the backend's tick sees new steps
Step(c) ==
    /\ turn[c] # "idle"
    /\ gate[c] # "held"
    /\ turn' = [turn EXCEPT ![c] = "running"]
    /\ recent' = [recent EXCEPT ![c] = TRUE]
    /\ UNCHANGED <<gate, pane, queue, home, fate>>

TurnEnds(c) ==
    /\ turn[c] # "idle"
    /\ gate[c] # "held"
    /\ turn' = [turn EXCEPT ![c] = "idle"]
    /\ UNCHANGED <<recent, gate, pane, queue, home, fate>>

\* Thirty seconds without a step.
WindowLapses(c) ==
    /\ recent[c]
    /\ recent' = [recent EXCEPT ![c] = FALSE]
    /\ UNCHANGED <<turn, gate, pane, queue, home, fate>>

\* A hook call of this conversation is held, answered or timed out, or dies
\* and leaves its entry behind (BroadcastRaises in Approvals).
GateOpens(c) ==
    /\ turn[c] = "running"
    /\ gate[c] = "none"
    /\ gate' = [gate EXCEPT ![c] = "held"]
    /\ UNCHANGED <<turn, recent, pane, queue, home, fate>>

GateCloses(c) ==
    /\ gate[c] = "held"
    /\ gate' = [gate EXCEPT ![c] = "none"]
    /\ UNCHANGED <<turn, recent, pane, queue, home, fate>>

GateOrphaned(c) ==
    /\ gate[c] = "held"
    /\ gate' = [gate EXCEPT ![c] = "orphan"]
    /\ UNCHANGED <<turn, recent, pane, queue, home, fate>>

\* Somebody answers the entry left behind; another call may be held beside it.
OrphanAnswered(c) ==
    /\ gate[c] = "orphan"
    /\ \/ gate' = [gate EXCEPT ![c] = "none"]
       \/ turn[c] = "running" /\ gate' = [gate EXCEPT ![c] = "held"]
    /\ UNCHANGED <<turn, recent, pane, queue, home, fate>>

\* kill_session, or the terminal goes away by itself, with its agent.  The
\* supervisor of a spawned session stays registered; another is not found.
PaneDies(c, kept) ==
    /\ pane[c] = "live"
    /\ pane' = [pane EXCEPT ![c] = IF kept THEN "dead" ELSE "none"]
    /\ turn' = [turn EXCEPT ![c] = "idle"]
    /\ UNCHANGED <<recent, gate, queue, home, fate>>

PaneReturns(c) ==
    /\ pane[c] # "live"
    /\ pane' = [pane EXCEPT ![c] = "live"]
    /\ UNCHANGED <<agentVars, queue, home, fate>>

QueueNext ==
    \/ \E p \in Prompts : Queue(p) \/ SendNow(p) \/ Cancel(p)
    \/ \E c \in Convs :
          \/ Deliver(c)
          \/ \E ids \in BoundedSeq(Prompts, MaxList) : Reorder(c, ids)
          \/ OtherPrompt(c) \/ Step(c) \/ TurnEnds(c) \/ WindowLapses(c)
          \/ GateOpens(c) \/ GateCloses(c) \/ GateOrphaned(c) \/ OrphanAnswered(c)
          \/ PaneReturns(c) \/ \E kept \in BOOLEAN : PaneDies(c, kept)

QueueSpec == QueueInit /\ [][QueueNext]_queueVars

\* The watch loop delivers what is due, the busy window runs out once no step
\* comes, and a held hook call is answered or times out (EveryCallIsDecided in
\* Approvals).  No turn is assumed to end and nobody to cancel anything.
QueueFairness ==
    \A c \in Convs :
        WF_queueVars(Deliver(c)) /\ WF_queueVars(WindowLapses(c)) /\ WF_queueVars(GateCloses(c) \/ GateOrphaned(c))

QueueFairSpec == QueueSpec /\ QueueFairness

-----------------------------------------------------------------------------
(* Properties *)

Places(p) == {place \in UNION {{c} \X DOMAIN queue[c] : c \in Convs} :
                 queue[place[1]][place[2]] = p}

\* A prompt the server said it queued is in exactly one place of exactly one
\* queue, its conversation's, until it is delivered or cancelled: no list a
\* client sends to reorder a queue (stale, partial, with repeats) loses one or
\* doubles one, and none waits in a queue after its delivery or cancellation.
QueuedOnce ==
    \A p \in Prompts :
        /\ Cardinality(Places(p)) = (IF fate[p] = "queued" THEN 1 ELSE 0)
        /\ \A place \in Places(p) : place[1] = home[p]

\* A prompt has one end: what was cancelled is never typed, what was typed is
\* not typed again.
OneFate == [][\A p \in Prompts : fate[p] \in Final => fate'[p] = fate[p]]_queueVars

\* post_prompt: "prompt queued and will be delivered when it finishes."  Once
\* the agent stays idle and can be reached, a queued prompt leaves the queue,
\* unless a pending entry nobody waits on keeps the conversation busy for good.
QueuedPromptMoves ==
    \A p \in Prompts :
        fate[p] = "queued"
        ~> \/ fate[p] # "queued"
           \/ turn[home[p]] # "idle"
           \/ pane[home[p]] = "none"
           \/ gate[home[p]] = "orphan"
=============================================================================
