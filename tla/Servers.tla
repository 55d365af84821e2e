------------------------------- MODULE Servers -------------------------------
(***************************************************************************)
(* Several agy-remote processes on one host, and the hooks that look for   *)
(* them.                                                                   *)
(*                                                                         *)
(* They share two kinds of files and no lock.  The runtime state file names *)
(* one live server, the one that agents started by hand answer to.  Each   *)
(* server also registers itself in a file named by its port.  A file       *)
(* outlives the process that wrote it, so a reader asks whether the pid in *)
(* it is alive.  Every look, every truncation, every write and every       *)
(* unlink is a step of its own where another process can get between.      *)
(*                                                                         *)
(* A process and its pid are the same value: pids are not reused.  A       *)
(* registration is written in one step here; for the state file, the empty *)
(* file between O_TRUNC and the write is visible.                          *)
(***************************************************************************)
EXTENDS Naturals

CONSTANTS
    Servers,     \* processes, each started at most once
    MaxPort,     \* bound: the ports are 1..MaxPort
    Nobody,      \* an absent file, a free port, no pid
    Torn,        \* a file that was truncated and is not yet written
    Garbled      \* two writers of different length wrote the same file

ASSUME ServersAssumption ==
    /\ MaxPort \in Nat \ {0}
    /\ Servers \cap {Nobody, Torn, Garbled} = {}
    /\ Nobody # Torn /\ Nobody # Garbled /\ Torn # Garbled

VARIABLES
    pc,       \* where each process is in its life
    mode,     \* the command it was started with
    port,     \* cfg.port
    adopted,  \* whether cfg.tmux_session_id names the session with the agent
    seen,     \* whose file its last look found, while it acts on that
    state,    \* the runtime state file: the pid in it
    open,     \* the writers that have the present state file open
    reg,      \* the registration of each port
    holder,   \* who listens on each port
    lone,     \* history: no other server has been alive since this one started
    hook      \* one PreToolUse hook on its way to a server

fileVars == <<state, open, reg>>
cfgVars == <<mode, port, adopted>>
vars == <<pc, cfgVars, seen, fileVars, holder, lone, hook>>

Ports == 1..MaxPort

\* "run" starts an agent of its own and serves from a daemon thread; "attach"
\* adopts a tmux session at the start or when a phone arrives; serve is an
\* attach that never adopts.
Modes == {"run", "attach"}

Ended == {"new", "gone", "crashed"}
Steps == {"preflight", "wiring", "look", "truncate", "write", "register",
          "bind", "up", "clear", "unlinkState", "withdraw", "unlinkReg"}

Registration == [pid : Servers, session : BOOLEAN]
NoReg == [pid |-> Nobody, session |-> FALSE]

HookSteps == {"idle", "registry", "state", "token", "post"}
NoHook == [at |-> "idle", dest |-> 0, tok |-> Nobody, for |-> Nobody]

Alive(s) == pc[s] \notin Ended

-----------------------------------------------------------------------------
TypeOK ==
    /\ pc \in [Servers -> Ended \cup Steps]
    /\ mode \in [Servers -> Modes]
    /\ port \in [Servers -> Ports \cup {0}]
    /\ adopted \in [Servers -> BOOLEAN]
    /\ seen \in [Servers -> Servers \cup {Nobody}]
    /\ state \in Servers \cup {Nobody, Torn, Garbled}
    /\ open \subseteq Servers
    /\ reg \in [Ports -> Registration \cup {NoReg}]
    /\ holder \in [Ports -> Servers \cup {Nobody}]
    /\ lone \in [Servers -> BOOLEAN]
    /\ hook \in [at : HookSteps, dest : Ports \cup {0},
                 tok : Servers \cup {Nobody}, for : Servers \cup {Nobody}]

Init ==
    /\ pc = [s \in Servers |-> "new"]
    /\ mode = [s \in Servers |-> "attach"]
    /\ port = [s \in Servers |-> 0]
    /\ adopted = [s \in Servers |-> FALSE]
    /\ seen = [s \in Servers |-> Nobody]
    /\ state = Nobody
    /\ open = {}
    /\ reg = [p \in Ports |-> NoReg]
    /\ holder = [p \in Ports |-> Nobody]
    /\ lone = [s \in Servers |-> FALSE]
    /\ hook = NoHook

-----------------------------------------------------------------------------
(* Helpers *)

\* A reader's test of the pid in a file.
Answers(pid) == pid \in Servers /\ Alive(pid)

Goes(s, step) == pc' = [pc EXCEPT ![s] = step]

\* A variant that takes a dead process's file for a live owner's.
AnyOwner(s, pid) == pid \in Servers /\ pid # s

\* runtime_state_owner: another live server, going by the pid in the file.
OwnedByOther(s, pid) == pid # s /\ Answers(pid)

\* A variant that does not see that the text is no JSON.
AsRead(file) == file

\* read_runtime_state: a torn or garbled file reads as none.
PidIn(file) == IF file \in Servers THEN file ELSE Nobody

\* What a process forgets when it ends.
Forgets(s) ==
    /\ mode' = [mode EXCEPT ![s] = "attach"]
    /\ port' = [port EXCEPT ![s] = 0]
    /\ adopted' = [adopted EXCEPT ![s] = FALSE]
    /\ seen' = [seen EXCEPT ![s] = Nobody]
    /\ lone' = [lone EXCEPT ![s] = FALSE]

\* A hook is followed for as long as its server is alone and up.
ForgetsHook(s) == hook' = IF hook.for = s THEN NoHook ELSE hook

-----------------------------------------------------------------------------
(* Starting *)

\* run, attach, serve.
Start(s) ==
    /\ pc[s] = "new"
    /\ \E m \in Modes : mode' = [mode EXCEPT ![s] = m]
    /\ Goes(s, "preflight")
    /\ lone' = [t \in Servers |-> t = s /\ \A u \in Servers \ {s} : ~Alive(u)]
    /\ hook' = NoHook
    /\ UNCHANGED <<port, adopted, seen, fileVars, holder>>

\* _preflight_port_or_exit: the wanted port if it is free, else the next free
\* one or no server.
Preflight(s) ==
    /\ pc[s] = "preflight"
    /\ \E want \in Ports :
        LET free == {p \in Ports : p >= want /\ holder[p] = Nobody}
        IN  \/ /\ \E p \in free :
                    /\ \A q \in free : p <= q
                    /\ port' = [port EXCEPT ![s] = p]
               /\ Goes(s, "wiring")
               /\ UNCHANGED <<mode, adopted, seen, lone, hook>>
            \/ /\ holder[want] # Nobody
               /\ Goes(s, "gone")
               /\ Forgets(s)
               /\ ForgetsHook(s)
    /\ UNCHANGED <<fileVars, holder>>

\* publish_server_registration: the file of the port, whoever wrote it before.
Publishes(s, session) ==
    reg' = [reg EXCEPT ![port[s]] = [pid |-> s, session |-> session]]

\* TLS, hook wiring, the second-instance warning.  attach may adopt here, and
\* registers the session before the server listens.
Wire(s) ==
    /\ pc[s] = "wiring"
    /\ Goes(s, "look")
    /\ \/ UNCHANGED <<reg, adopted>>
       \/ /\ mode[s] = "attach"
          /\ adopted' = [adopted EXCEPT ![s] = TRUE]
          /\ Publishes(s, TRUE)
    /\ UNCHANGED <<mode, port, seen, state, open, holder, lone, hook>>

\* write_runtime_state: does another live server own the file?
LookState(s) ==
    /\ pc[s] = "look"
    /\ IF OwnedByOther(s, PidIn(state))
       THEN /\ Goes(s, "register")
            /\ UNCHANGED seen
       ELSE /\ Goes(s, "truncate")
            /\ seen' = [seen EXCEPT ![s] = PidIn(state)]
    /\ UNCHANGED <<cfgVars, fileVars, holder, lone, hook>>

TruncateState(s) ==
    /\ pc[s] = "truncate"
    /\ state' = Torn
    /\ open' = open \cup {s}
    /\ seen' = [seen EXCEPT ![s] = Nobody]
    /\ Goes(s, "write")
    /\ UNCHANGED <<cfgVars, reg, holder, lone, hook>>

\* The write goes to the file that was opened, which may have been unlinked
\* since; over another writer's longer text it leaves no JSON.
WriteState(s) ==
    /\ pc[s] = "write"
    /\ IF s \notin open THEN UNCHANGED state
       ELSE state' \in IF state = Torn THEN {s} ELSE {s, Garbled}
    /\ open' = open \ {s}
    /\ Goes(s, "register")
    /\ UNCHANGED <<cfgVars, seen, reg, holder, lone, hook>>

\* The rest of the lifespan's start.
Register(s) ==
    /\ pc[s] = "register"
    /\ Publishes(s, adopted[s])
    /\ Goes(s, "bind")
    /\ UNCHANGED <<cfgVars, seen, state, open, holder, lone, hook>>

\* uvicorn binds after the lifespan has started; when it cannot, the lifespan
\* ends again and the process with it.
Bind(s) ==
    /\ pc[s] = "bind"
    /\ IF holder[port[s]] = Nobody
       THEN /\ holder' = [holder EXCEPT ![port[s]] = s]
            /\ Goes(s, "up")
       ELSE /\ Goes(s, "clear")
            /\ UNCHANGED holder
    /\ UNCHANGED <<cfgVars, seen, fileVars, lone, hook>>

\* _adopt_when_a_phone_arrives: a session is started and adopted, the first
\* time or because the last one is gone.
AdoptLater(s) ==
    /\ pc[s] = "up"
    /\ mode[s] = "attach"
    /\ adopted' = [adopted EXCEPT ![s] = TRUE]
    /\ Publishes(s, TRUE)
    /\ UNCHANGED <<pc, mode, port, seen, state, open, holder, lone, hook>>

-----------------------------------------------------------------------------
(* Ending *)

\* uvicorn stops listening, then ends the lifespan.  The thread of a run is a
\* daemon: when its agent exits the process does, and no lifespan ends.
Leave(s) ==
    /\ pc[s] = "up"
    /\ mode[s] = "attach"
    /\ holder' = [holder EXCEPT ![port[s]] = Nobody]
    /\ Goes(s, "clear")
    /\ ForgetsHook(s)
    /\ UNCHANGED <<cfgVars, seen, fileVars, lone>>

\* A variant that clears whatever is there.
MayClearAny(s) == TRUE

\* clear_runtime_state: only another pid in a readable file holds it back.
MayClear(s) == PidIn(state) \in {s, Nobody}

LookClear(s) ==
    /\ pc[s] = "clear"
    /\ IF MayClear(s)
       THEN /\ Goes(s, "unlinkState")
            /\ seen' = [seen EXCEPT ![s] = PidIn(state)]
       ELSE /\ Goes(s, "withdraw")
            /\ UNCHANGED seen
    /\ UNCHANGED <<cfgVars, fileVars, holder, lone, hook>>

UnlinkState(s) ==
    /\ pc[s] = "unlinkState"
    /\ state' = Nobody
    /\ open' = {}
    /\ seen' = [seen EXCEPT ![s] = Nobody]
    /\ Goes(s, "withdraw")
    /\ UNCHANGED <<cfgVars, reg, holder, lone, hook>>

\* A variant that knows its registration only as it first wrote it.
OwnUnadopted(s) == reg[port[s]] = [pid |-> s, session |-> FALSE]

\* withdraw_server_registration: our own pid is in it.
OwnRegistration(s) == reg[port[s]].pid = s

LookWithdraw(s) ==
    /\ pc[s] = "withdraw"
    /\ IF OwnRegistration(s)
       THEN /\ Goes(s, "unlinkReg")
            /\ seen' = [seen EXCEPT ![s] = reg[port[s]].pid]
            /\ UNCHANGED <<mode, port, adopted, lone, hook>>
       ELSE /\ Goes(s, "gone")
            /\ Forgets(s)
            /\ ForgetsHook(s)
    /\ UNCHANGED <<fileVars, holder>>

UnlinkReg(s) ==
    /\ pc[s] = "unlinkReg"
    /\ reg' = [reg EXCEPT ![port[s]] = NoReg]
    /\ Goes(s, "gone")
    /\ Forgets(s)
    /\ ForgetsHook(s)
    /\ UNCHANGED <<state, open, holder>>

\* The process is killed, or a run's agent exits: the files stay.
Crash(s) ==
    /\ Alive(s)
    /\ Goes(s, "crashed")
    /\ Forgets(s)
    /\ ForgetsHook(s)
    /\ holder' = [p \in Ports |-> IF holder[p] = s THEN Nobody ELSE holder[p]]
    /\ open' = open \ {s}
    /\ UNCHANGED <<state, reg>>

-----------------------------------------------------------------------------
(* The hook *)

\* Hooks of a server that is alone and up; of others the properties say nothing.
LoneUp(s) == pc[s] = "up" /\ lone[s]

\* resolve_server_endpoint, in an agent a run started: AGY_REMOTE_URL.
HookOfChild(s) ==
    /\ hook.at = "idle"
    /\ LoneUp(s)
    /\ mode[s] = "run"
    /\ hook' = [at |-> "token", dest |-> port[s], tok |-> Nobody, for |-> s]
    /\ UNCHANGED <<pc, cfgVars, seen, fileVars, holder, lone>>

\* In a pane of the tmux session the server adopted.
HookOfPane(s) ==
    /\ hook.at = "idle"
    /\ LoneUp(s)
    /\ adopted[s]
    /\ hook' = [NoHook EXCEPT !.at = "registry", !.for = s]
    /\ UNCHANGED <<pc, cfgVars, seen, fileVars, holder, lone>>

\* In a terminal of its own.
HookByHand(s) ==
    /\ hook.at = "idle"
    /\ LoneUp(s)
    /\ hook' = [NoHook EXCEPT !.at = "state", !.for = s]
    /\ UNCHANGED <<pc, cfgVars, seen, fileVars, holder, lone>>

\* find_server_for_tmux_session: the first file that names the session and a
\* live pid; token and port come from the same file.
LookRegistry ==
    /\ hook.at = "registry"
    /\ LET mine == {p \in Ports : reg[p].session /\ Answers(reg[p].pid)}
       IN  \/ /\ mine = {}
              /\ hook' = [hook EXCEPT !.at = "state"]
           \/ \E p \in mine :
                /\ \A q \in mine : p <= q
                /\ hook' = [hook EXCEPT !.at = "post", !.dest = p, !.tok = reg[p].pid]
    /\ UNCHANGED <<pc, cfgVars, seen, fileVars, holder, lone>>

\* live_runtime_state, for the endpoint: else a guess at the first port, with
\* no token.
LookLiveState ==
    /\ hook.at = "state"
    /\ hook' = IF Answers(state)
               THEN [hook EXCEPT !.at = "post", !.dest = port[state], !.tok = state]
               ELSE [hook EXCEPT !.at = "post", !.dest = 1]
    /\ UNCHANGED <<pc, cfgVars, seen, fileVars, holder, lone>>

\* _hook_token: the token of the published server, else the host's stored one.
LookToken ==
    /\ hook.at = "token"
    /\ hook' = [hook EXCEPT !.at = "post", !.tok = IF Answers(state) THEN state ELSE Nobody]
    /\ UNCHANGED <<pc, cfgVars, seen, fileVars, holder, lone>>

\* run_pre_tool_hook posts: refused, unauthorized and unreachable are all "ask".
Post ==
    /\ hook.at = "post"
    /\ hook' = NoHook
    /\ UNCHANGED <<pc, cfgVars, seen, fileVars, holder, lone>>

-----------------------------------------------------------------------------
Starting(s) ==
    \/ Start(s) \/ Preflight(s) \/ Wire(s) \/ LookState(s)
    \/ TruncateState(s) \/ WriteState(s) \/ Register(s) \/ Bind(s) \/ AdoptLater(s)

Ending(s) ==
    \/ Leave(s) \/ LookClear(s) \/ UnlinkState(s) \/ LookWithdraw(s) \/ UnlinkReg(s)
    \/ Crash(s)

Looks == LookRegistry \/ LookLiveState \/ LookToken \/ Post

Next ==
    \/ \E s \in Servers :
        Starting(s) \/ Ending(s) \/ HookOfChild(s) \/ HookOfPane(s) \/ HookByHand(s)
    \/ Looks

Spec == Init /\ [][Next]_vars

-----------------------------------------------------------------------------
(* Properties *)

\* No process truncates the state file of a live server that it saw own it, and
\* none unlinks the state file or the registration of one that it saw there.
\* What is lost is lost between a look and an act.
NoKnowingTheft ==
    [][\A s, t \in Servers :
        (s # t /\ Alive(s)) =>
            /\ (state = s /\ state' # s /\ pc'[t] # pc[t]) => seen[t] # s
            /\ \A p \in Ports :
                (reg[p].pid = s /\ reg'[p] = NoReg /\ pc'[t] # pc[t]) => seen[t] # s]_vars

\* A server that ended in order has left nothing behind that names it, whoever
\* else was starting or ending at the time.
CleanLeave ==
    \A s \in Servers :
        pc[s] = "gone" => /\ state # s
                          /\ \A p \in Ports : reg[p].pid # s

\* Whatever earlier servers left behind, clean or crashed: as long as one server
\* is alone and up, a hook of its agent, of its session or of an agent started
\* by hand posts to its port, with its token.
HookReachesLoneServer ==
    hook.at = "post" =>
        /\ holder[hook.dest] = hook.for
        /\ hook.tok = hook.for
=============================================================================
