------------------------------ MODULE Sessions ------------------------------
(***************************************************************************)
(* Which terminal a prompt, a key or a screen request reaches, and whose    *)
(* screen every phone is sent.                                             *)
(*                                                                         *)
(* A server drives a session of its own (the pty or the tmux session it     *)
(* started, or a tmux session it adopted) and every session the spawner    *)
(* started for a phone.  The spawned ones are in a registry; the own one   *)
(* sits in a single global slot, which each adoption takes over.           *)
(* Terminals die without notice and nothing is ever taken out of the        *)
(* registry.  A conversation belongs to the agent that began it; the server *)
(* learns of it by looking at an agent's open files, or from a hook call,  *)
(* and neither tells it which terminal that agent is in.                   *)
(*                                                                         *)
(* tmux itself, git and the agents are outside; each tmux command is a     *)
(* step, so other users of the same tmux server come in between.           *)
(***************************************************************************)
EXTENDS Naturals, Sequences, SequencesExt

CONSTANTS
    Own,         \* the server's own session
    Names,       \* names of spawned sessions; also their tmux names and ids
    Convs,       \* conversations
    None

ASSUME SessionsAssumption ==
    /\ Own \notin Names
    /\ None \notin Names \cup Convs \cup {Own}
    /\ (Names \cup {Own}) \cap Convs = {}

VARIABLES
    desk,        \* how this server was started
    alive,       \* terminals that exist
    talk,        \* the conversation the agent of each terminal has begun
    known,       \* conversations with a transcript
    foreign,     \* tmux sessions with a spawn's name that others started
    slot,        \* tmux_instance
    mirror,      \* mgr.terminal
    cfgSession,  \* cfg.tmux_session
    sessions,    \* _sessions, in the order of the dict
    bound,       \* the conversation_id of each record
    supervised,  \* supervised_conversation_id
    active,      \* active_conversation_id
    used,        \* working directories that exist
    spawn,       \* the spawner's task
    fate         \* history: what became of each spawn

agents == <<alive, talk, known, foreign>>
slots == <<slot, mirror, cfgSession>>
registry == <<sessions, bound>>
views == <<supervised, active>>
spawner == <<used, spawn, fate>>
vars == <<desk, agents, slots, registry, views, spawner>>

Panes == Names \cup {Own}

\* "pty": run.  "tmux": run --tmux.  "attach": attach, to a session somebody
\* started, or with --wait to one that may have to be started.
Desks == {"pty", "tmux", "attach"}

Stages == {"idle", "cloning", "looking", "creating", "waiting", "reporting", "failing"}
Fates == {"none", "running", "created", "failed"}

-----------------------------------------------------------------------------
TypeOK ==
    /\ desk \in Desks
    /\ alive \subseteq Panes
    /\ talk \in [Panes -> Convs \cup {None}]
    /\ known \subseteq Convs
    /\ foreign \subseteq Names
    /\ slot \in Panes \cup {None}
    /\ mirror \in Panes \cup {None}
    /\ cfgSession \in Panes \cup {None}
    /\ sessions \in Seq(Names) /\ IsInjective(sessions)
    /\ bound \in [Names -> Convs \cup {None}]
    /\ supervised \in Convs \cup {None}
    /\ active \in Convs \cup {None}
    /\ used \subseteq Names
    /\ spawn \in [at : Stages, name : Names \cup {None}]
    /\ fate \in [Names -> Fates]

\* A conversation older than the server is as one whose agent has ended.
Init ==
    /\ desk \in Desks
    /\ known = {}
    /\ active = None
    /\ supervised = None
    /\ alive \in (IF desk = "attach" THEN {{}, {Own}} ELSE {{Own}})
    /\ talk = [p \in Panes |-> None]
    /\ slot = IF Own \in alive /\ desk # "pty" THEN Own ELSE None
    /\ mirror = IF Own \in alive /\ desk # "tmux" THEN Own ELSE None
    /\ cfgSession = IF desk = "attach" THEN Own ELSE None
    /\ sessions = <<>>
    /\ bound = [n \in Names |-> None]
    /\ foreign = {}
    /\ used = {}
    /\ spawn = [at |-> "idle", name |-> None]
    /\ fate = [n \in Names |-> "none"]

-----------------------------------------------------------------------------
(* Routing *)

Registered(k) == Contains(sessions, k)
Holding(c) == SelectSeq(sessions, LAMBDA n : bound[n] = c)
First(s) == IF s = <<>> THEN None ELSE Head(s)

\* get_session: by id, tmux name or conversation; without a key, the session of
\* the active conversation, else the first.
GetSession(k) ==
    CASE k # None /\ Registered(k) -> k
      [] k # None /\ ~Registered(k) -> First(Holding(k))
      [] k = None /\ active # None /\ Holding(active) # <<>> -> Head(Holding(active))
      [] OTHER -> First(IF active = None THEN Holding(None) \o sessions ELSE sessions)

\* A key that may fall back to what the server drives without a name.
MayFallBack(k) == k \in {None, active, supervised}

\* get_tmux_supervisor, then get_pty_supervisor.
Global == IF slot \in alive THEN slot
          ELSE IF desk = "pty" /\ Own \in alive THEN Own ELSE None

GetSupervisor(k) ==
    IF GetSession(k) # None THEN GetSession(k)
    ELSE IF MayFallBack(k) THEN Global ELSE None

GetScreenMirror(k) ==
    IF GetSession(k) # None THEN GetSession(k)
    ELSE IF MayFallBack(k) THEN mirror ELSE None

\* send_prompt of the backend, and _press_key: with no supervisor for the key,
\* the first asks what is active and the second nothing at all.
PromptTo(c) ==
    IF GetSupervisor(c) # None THEN GetSupervisor(c)
    ELSE IF active \in {None, c} THEN Global ELSE None

PressKeyTo(c) == IF GetSupervisor(c) # None THEN GetSupervisor(c) ELSE Global

\* What broadcast_terminal and init send: one screen for every phone, whatever
\* each of them looks at.
LiveScreen == mirror

\* What an adoption takes over.  The variant leaves the screen.
TakesSlotOnly(p) == slot' = p /\ cfgSession' = p /\ UNCHANGED mirror
TakesOver(p) == slot' = p /\ cfgSession' = p /\ mirror' = p

-----------------------------------------------------------------------------
(* Agents, conversations, phones *)

\* An agent writes the first line of its transcript.
Begin(p, c) ==
    /\ p \in alive \ foreign
    /\ talk[p] = None
    /\ c \notin known
    /\ talk' = [talk EXCEPT ![p] = c]
    /\ known' = known \cup {c}
    /\ UNCHANGED <<desk, alive, foreign, slots, registry, views, spawner>>

Ends(p) ==
    /\ alive' = alive \ {p}
    /\ talk' = [talk EXCEPT ![p] = None]
    /\ foreign' = foreign \ {p}

\* A run ends with its own agent, and so does its server.
Dies(p) ==
    /\ p \in alive
    /\ p = Own => desk = "attach"
    /\ Ends(p)
    /\ UNCHANGED <<desk, known, slots, registry, views, spawner>>

\* kill_session.  The registry keeps the session.
Kill(k) ==
    /\ GetSupervisor(k) \in alive
    /\ GetSupervisor(k) = Own => desk = "attach"
    /\ Ends(GetSupervisor(k))
    /\ UNCHANGED <<desk, known, slots, registry, views, spawner>>

\* Somebody else starts a tmux session under that name; a bound: not any more
\* once the spawn of that name has ended.
Foreign(n) ==
    /\ n \notin alive
    /\ fate[n] \in {"none", "running"}
    /\ alive' = alive \cup {n}
    /\ foreign' = foreign \cup {n}
    /\ UNCHANGED <<desk, talk, known, slots, registry, views, spawner>>

\* switch_conversation, by a phone, or by follow_latest while none is supervised.
Switch(c) ==
    /\ c \in known
    /\ active' = c
    /\ UNCHANGED <<desk, agents, slots, registry, supervised, spawner>>

\* A variant that takes the session for its conversation.
DiscoveredName == IF slot \in alive /\ talk[slot] # None THEN slot ELSE None

\* _discover_supervised_conversation: the pty first, then the slot.
Discovered ==
    IF desk = "pty" /\ Own \in alive /\ talk[Own] # None THEN talk[Own]
    ELSE IF slot \in alive THEN talk[slot] ELSE None

\* bind_supervised_conversation: the first record without a conversation takes
\* this one, whoever's it is; the view goes there if it is a new one.
BindTo(c) ==
    /\ bound' = IF Holding(None) = <<>> THEN bound
                ELSE [bound EXCEPT ![Head(Holding(None))] = c]
    /\ supervised' = c
    /\ active' = IF supervised = c THEN active ELSE c
    /\ UNCHANGED <<desk, agents, slots, sessions, spawner>>

\* By the tick, as long as nothing is bound.
Discover ==
    /\ supervised = None
    /\ Discovered # None
    /\ BindTo(Discovered)

\* By every hook call: an agent asks leave to use a tool.
HookCalls(p) ==
    /\ p \in alive
    /\ talk[p] # None
    /\ BindTo(talk[p])

\* A variant that looks for the session the server was started for.
OwnMissing == Own \notin alive

\* What was adopted last is gone, or was forgotten.
Missing == cfgSession \notin alive

\* ensure_session, for the first client to arrive: the own session is found or
\* started, or that fails.
Arrive ==
    /\ desk = "attach"
    /\ Missing
    /\ \/ /\ alive' = alive \cup {Own}
          /\ TakesOver(Own)
       \/ /\ Own \notin alive
          /\ cfgSession' = None
          /\ UNCHANGED <<alive, slot, mirror>>
    /\ UNCHANGED <<desk, talk, known, foreign, registry, views, spawner>>

-----------------------------------------------------------------------------
(* The spawner *)

\* A variant that does not refuse a second request.
AlwaysFree == TRUE

\* spawning
Free == spawn.at = "idle"

At(stage) == spawn' = [spawn EXCEPT !.at = stage]

\* unique_workdir
Unused(n) == n \notin used

\* create and _plan: a name whose working directory does not exist.
Create(n, agentClones) ==
    /\ Free
    /\ Unused(n)
    /\ used' = used \cup {n}
    /\ spawn' = [at |-> IF agentClones THEN "looking" ELSE "cloning", name |-> n]
    /\ fate' = [fate EXCEPT ![n] = "running"]
    /\ UNCHANGED <<desk, agents, slots, registry, views>>

\* _clone: git fails, or runs out of time, or the broadcast before it raises.
Clone ==
    /\ spawn.at = "cloning"
    /\ \/ At("looking")
       \/ At("failing")
    /\ UNCHANGED <<desk, agents, slots, registry, views, used, fate>>

\* _start_tmux, has_session: a live session by this name is somebody else's.
NameIsFree(n) == n \notin alive

\* The broadcast of "starting" may raise too.
Look ==
    /\ spawn.at = "looking"
    /\ \/ NameIsFree(spawn.name) /\ At("creating")
       \/ At("failing")
    /\ UNCHANGED <<desk, agents, slots, registry, views, used, fate>>

\* start_detached looks again, and takes a session it finds for its own; then
\* _adopt, without a suspension: register_session and the slot.
CreateAndAdopt ==
    /\ spawn.at = "creating"
    /\ alive' = alive \cup {spawn.name}
    /\ TakesOver(spawn.name)
    /\ sessions' = Append(sessions, spawn.name)
    /\ At("waiting")
    /\ UNCHANGED <<desk, talk, known, foreign, bound, views, used, fate>>

CreateFails ==
    /\ spawn.at = "creating"
    /\ spawn.name \notin alive
    /\ At("failing")
    /\ UNCHANGED <<desk, agents, slots, registry, views, used, fate>>

\* _wait_for_ready: the screen is quiet and the seed is typed, or the wait ends,
\* or a poll finds the terminal gone.
Wait ==
    /\ spawn.at = "waiting"
    /\ \/ At("reporting")
       \/ spawn.name \notin alive /\ At("failing")
    /\ UNCHANGED <<desk, agents, slots, registry, views, used, fate>>

Finish(f) ==
    /\ spawn' = [at |-> "idle", name |-> None]
    /\ fate' = [fate EXCEPT ![spawn.name] = f]
    /\ UNCHANGED <<desk, agents, slots, registry, views, used>>

\* The broadcast of session_created.
Report == spawn.at = "reporting" /\ Finish("created")

ReportRaises ==
    /\ spawn.at = "reporting"
    /\ At("failing")
    /\ UNCHANGED <<desk, agents, slots, registry, views, used, fate>>

\* The broadcast of "failed", which may raise as well; the task ends all the same.
Fail == spawn.at = "failing" /\ Finish("failed")

SpawnStep ==
    Clone \/ Look \/ CreateAndAdopt \/ CreateFails \/ Wait \/ Report \/ ReportRaises \/ Fail

Next ==
    \/ \E p \in Panes : Dies(p) \/ HookCalls(p) \/ \E c \in Convs : Begin(p, c)
    \/ \E k \in Names \cup Convs \cup {None} : Kill(k)
    \/ \E n \in Names : Foreign(n) \/ \E b \in BOOLEAN : Create(n, b)
    \/ \E c \in Convs : Switch(c)
    \/ Discover \/ Arrive \/ SpawnStep

Spec == Init /\ [][Next]_vars

\* The event loop runs the spawner's task; git and the wait have timeouts.
FairSpec == Spec /\ WF_vars(SpawnStep)

-----------------------------------------------------------------------------
(* Properties *)

\* A screen that is asked for is the one that is driven: whatever a request
\* names (a session, a conversation, nothing), get_screen_mirror and _press_key
\* answer it with the same terminal, if what each finds exists.  This is the
\* screen served on request; the one phones are sent unasked is the next.
AskedScreenIsDriven ==
    \A k \in Names \cup Convs \cup {None} :
        (GetScreenMirror(k) \in alive /\ PressKeyTo(k) \in alive) =>
            GetScreenMirror(k) = PressKeyTo(k)

Latest == IF sessions = <<>> THEN None ELSE Last(sessions)
Ours == alive \ foreign

\* The screen every phone is sent live is the terminal its key buttons reach,
\* which name nothing, as long as these keys go to no registered session or to
\* the one adopted last: deaths, kills, bindings and a session started for a
\* client that arrives never tear the two apart.  A view on any other session
\* does, in the code as well.  Strangers' sessions are left out.
LiveScreenIsDriven ==
    (GetSession(None) \in {None, Latest} /\ {LiveScreen, PressKeyTo(None)} \subseteq Ours) =>
        LiveScreen = PressKeyTo(None)

\* Every spawn the server accepted comes to an end and makes room for another,
\* whatever fails on the way.
SpawnEnds == \A n \in Names : fate[n] = "running" ~> fate[n] # "running"

\* CHANGELOG: "Prompts sent to a specific conversation ID will no longer inject
\* keystrokes into a supervisor running a different active session."  A prompt
\* for the conversation of one live agent is not typed into another.
PromptReachesItsAgent ==
    \A p \in alive : talk[p] # None => PromptTo(talk[p]) \notin alive \ {p}
=============================================================================
