---------------------------- MODULE ServersProofs ----------------------------
(***************************************************************************)
(* Theorems about several servers on one host, for every number of         *)
(* processes and of ports.                                                 *)
(***************************************************************************)
EXTENDS Servers, TLAPS

\* Where a process may be while the state file names it.
Owning == {"register", "bind", "up", "clear", "unlinkState", "crashed"}

\* Where it may be while a registration names it.
Registered == Steps \ {"preflight", "wiring"}

\* A file names a process only where that process wrote it and has not yet
\* looked at it to withdraw it; and what a process saw in the file it is about
\* to change was its own, nothing, or a process that had ended.
ServerInv(s) ==
    /\ state = s => pc[s] \in Owning
    /\ \A p \in Ports :
          reg[p].pid = s => pc[s] = "crashed" \/ (pc[s] \in Registered /\ port[s] = p)
    /\ s \in open => pc[s] = "write"
    /\ pc[s] \in Steps \ {"preflight"} => port[s] \in Ports
    /\ pc[s] = "truncate" =>
          seen[s] \in {s, Nobody} \/ (seen[s] \in Servers /\ pc[seen[s]] \in {"gone",
     "crashed"})
    /\ pc[s] = "write" => seen[s] = Nobody
    /\ pc[s] = "unlinkState" => seen[s] \in {s, Nobody}
    /\ pc[s] = "unlinkReg" => seen[s] = s

\* A server that has been alone since it started owns the state file.
LoneInv(s) ==
    lone[s] =>
        /\ Alive(s)
        /\ \A u \in Servers \ {s} : ~Alive(u)
        /\ pc[s] = "write" => state = Torn /\ s \in open
        /\ pc[s] \in {"register", "bind", "up"} => state = s
        /\ pc[s] = "up" => holder[port[s]] = s

HookInv ==
    /\ hook.at = "idle" => hook = NoHook
    /\ hook.at # "idle" => hook.for \in Servers /\ LoneUp(hook.for)
    /\ hook.at = "token" => hook.dest = port[hook.for]
    /\ hook.at = "post" => holder[hook.dest] = hook.for /\ hook.tok = hook.for

SInv ==
    /\ TypeOK
    /\ \A s \in Servers : ServerInv(s)
    /\ \A s \in Servers : LoneInv(s)
    /\ HookInv

-----------------------------------------------------------------------------
LEMMA InvInit == Init => SInv
<1> SUFFICES ASSUME Init PROVE SInv
  OBVIOUS
<1> USE ServersAssumption
<1>1. TypeOK
  BY DEF Init, TypeOK, Ended, Steps, Modes, Registration, NoReg, HookSteps, NoHook
<1>2. ASSUME NEW s \in Servers PROVE ServerInv(s) /\ LoneInv(s)
  BY <1>2 DEF Init, ServerInv, LoneInv, Owning, Steps, NoReg
<1>3. HookInv
  BY DEF Init, HookInv, NoHook
<1>4. QED BY <1>1, <1>2, <1>3 DEF SInv

\* A step of the program counter.
LEMMA StepTaken ==
    ASSUME TypeOK, NEW s \in Servers, NEW step \in Ended \cup Steps, Goes(s, step)
    PROVE  /\ pc' \in [Servers -> Ended \cup Steps]
           /\ pc'[s] = step
           /\ \A t \in Servers \ {s} : pc'[t] = pc[t]
BY DEF TypeOK, Goes

\* A process that ends forgets what it kept.
LEMMA Forgotten ==
    ASSUME TypeOK, NEW s \in Servers, Forgets(s), ForgetsHook(s)
    PROVE  /\ mode' \in [Servers -> Modes]
           /\ port' \in [Servers -> Ports \cup {0}]
           /\ adopted' \in [Servers -> BOOLEAN]
           /\ seen' \in [Servers -> Servers \cup {Nobody}]
           /\ lone' \in [Servers -> BOOLEAN]
           /\ hook' \in [at : HookSteps, dest : Ports \cup {0},
                         tok : Servers \cup {Nobody}, for : Servers \cup {Nobody}]
           /\ \A t \in Servers \ {s} : port'[t] = port[t] /\ seen'[t] = seen[t]
BY DEF TypeOK, Forgets, ForgetsHook, Modes, NoHook, HookSteps

\* A process is not disturbed by another's step that changes no file, unless a
\* process that had ended comes back.
LEMMA Undisturbed ==
    ASSUME SInv, NEW t \in Servers, UNCHANGED fileVars,
           pc'[t] = pc[t], port'[t] = port[t], seen'[t] = seen[t],
           \A u \in Servers : pc[u] \in {"gone", "crashed"} => pc'[u] = pc[u]
    PROVE  ServerInv(t)'
BY DEF SInv, ServerInv, fileVars

LEMMA StartStep ==
    ASSUME SInv, NEW s \in Servers, Start(s)
    PROVE  SInv'
<1> USE ServersAssumption
<1>1. TypeOK'
  BY DEF SInv, Start, Goes, Modes, cfgVars, fileVars, TypeOK, Ended, Steps, Registration,
     NoReg, HookSteps, NoHook, Ports, LoneUp
<1>2. ASSUME NEW t \in Servers PROVE ServerInv(t)'
  <2>1. /\ pc[s] = "new" /\ Goes(s, "preflight")
        /\ UNCHANGED <<port, seen, fileVars>> /\ TypeOK
    BY DEF SInv, Start
  <2>2. CASE t = s
    BY <2>1, <2>2, StepTaken DEF SInv, ServerInv, Owning, Registered, Steps, fileVars
  <2>3. CASE t # s
    BY <2>1, <2>3, StepTaken, Undisturbed DEF Steps
  <2>4. QED BY <2>2, <2>3
<1>3. ASSUME NEW t \in Servers PROVE LoneInv(t)'
  BY <1>1 DEF SInv, ServerInv, LoneInv, Start, Goes, Modes, cfgVars, fileVars, TypeOK, Ended,
     Steps, Registration, NoReg, HookSteps, NoHook, Alive, Owning
<1>4. HookInv'
  BY <1>1 DEF SInv, ServerInv, LoneInv, HookInv, LoneUp, Start, Goes, Modes, cfgVars, fileVars,
     TypeOK, Ended, Steps, Registration, NoReg, HookSteps, NoHook, Alive
<1>5. QED BY <1>1, <1>2, <1>3, <1>4 DEF SInv

LEMMA PreflightStep ==
    ASSUME SInv, NEW s \in Servers, Preflight(s)
    PROVE  SInv'
<1> USE ServersAssumption
<1>t. TypeOK /\ pc[s] = "preflight" /\ UNCHANGED <<fileVars, holder>>
  BY DEF SInv, Preflight
<1>1. ASSUME NEW p \in Ports, port' = [port EXCEPT ![s] = p], Goes(s, "wiring"),
             UNCHANGED <<mode, adopted, seen, lone, hook>>
      PROVE  SInv'
  <2>1. TypeOK'
    BY <1>t, <1>1, StepTaken DEF TypeOK, Steps, fileVars
  <2>2. ASSUME NEW t \in Servers PROVE ServerInv(t)'
    BY <1>t, <1>1, <2>1, StepTaken DEF SInv, ServerInv, Steps, fileVars, Owning, Registered, TypeOK
  <2>3. ASSUME NEW t \in Servers PROVE LoneInv(t)'
    BY <1>t, <1>1, StepTaken DEF SInv, LoneInv, Steps, fileVars, Alive, Ended, TypeOK
  <2>4. HookInv'
    BY <1>t, <1>1, StepTaken DEF SInv, HookInv, LoneUp, Steps, TypeOK
  <2>5. QED BY <2>1, <2>2, <2>3, <2>4 DEF SInv
<1>2. ASSUME Goes(s, "gone"), Forgets(s), ForgetsHook(s) PROVE SInv'
  <2>1. TypeOK'
    BY <1>t, <1>2, StepTaken, Forgotten DEF TypeOK, Ended, fileVars
  <2>2. ASSUME NEW t \in Servers PROVE ServerInv(t)'
    <3>1. CASE t = s
      BY <1>t, <1>2, <3>1, StepTaken DEF SInv, ServerInv, Ended, Steps, fileVars, Owning, Registered
    <3>2. CASE t # s
      BY <1>t, <1>2, <3>2, StepTaken, Forgotten, Undisturbed DEF Ended
    <3>3. QED BY <3>1, <3>2
  <2>3. ASSUME NEW t \in Servers PROVE LoneInv(t)'
    BY <1>t, <1>2, StepTaken DEF SInv, LoneInv, Forgets, Ended, fileVars, Alive, TypeOK
  <2>4. HookInv'
    BY <1>t, <1>2, StepTaken
       DEF SInv, HookInv, LoneUp, Forgets, ForgetsHook, NoHook, Ended, TypeOK
  <2>5. QED BY <2>1, <2>2, <2>3, <2>4 DEF SInv
<1>3. QED BY <1>1, <1>2 DEF Preflight

LEMMA WireStep ==
    ASSUME SInv, NEW s \in Servers, Wire(s)
    PROVE  SInv'
<1> USE ServersAssumption
<1>0. reg' \in [Ports -> Registration \cup {NoReg}]
  <2>1. TypeOK /\ port[s] \in Ports
    BY DEF SInv, ServerInv, Wire, Steps
  <2>2. CASE UNCHANGED reg
    BY <2>1, <2>2 DEF TypeOK
  <2>3. CASE Publishes(s, TRUE)
    BY <2>1, <2>3 DEF TypeOK, Publishes, Registration
  <2>4. QED BY <2>2, <2>3 DEF Wire
<1>1. TypeOK'
  BY <1>0, StepTaken DEF SInv, Wire, Goes, Publishes, cfgVars, fileVars, TypeOK, Ended, Steps, Modes,
     Registration, NoReg, HookSteps, NoHook, Ports, LoneUp
<1>2. ASSUME NEW t \in Servers PROVE ServerInv(t)'
  <2>t. /\ TypeOK /\ pc[s] = "wiring" /\ Goes(s, "look") /\ port[s] \in Ports
        /\ UNCHANGED <<port, seen, state, open>>
    BY DEF SInv, ServerInv, Wire, Steps
  <2>1. CASE UNCHANGED reg
    <3>1. CASE t = s
      BY <2>t, <2>1, <3>1, StepTaken DEF SInv, ServerInv, Owning, Registered, Steps
    <3>2. CASE t # s
      BY <2>t, <2>1, <3>2, StepTaken, Undisturbed DEF Steps, fileVars
    <3>3. QED BY <3>1, <3>2
  <2>2. CASE Publishes(s, TRUE)
    <3>1. /\ reg'[port[s]].pid = s
          /\ \A p \in Ports \ {port[s]} : reg'[p] = reg[p]
      BY <2>t, <2>2 DEF TypeOK, Publishes
    <3>2. CASE t = s
      BY <2>t, <3>1, <3>2, StepTaken DEF SInv, ServerInv, Owning, Registered, Steps
    <3>3. CASE t # s
      BY <2>t, <3>1, <3>3, StepTaken DEF SInv, ServerInv, Steps
    <3>4. QED BY <3>2, <3>3
  <2>3. QED BY <2>1, <2>2 DEF Wire
<1>3. ASSUME NEW t \in Servers PROVE LoneInv(t)'
  BY <1>1 DEF SInv, ServerInv, LoneInv, Wire, Goes, Publishes, cfgVars, fileVars, TypeOK,
     Ended, Steps, Modes, Registration, NoReg, HookSteps, NoHook, Alive, Owning
<1>4. HookInv'
  BY <1>1 DEF SInv, ServerInv, LoneInv, HookInv, LoneUp, Wire, Goes, Publishes, cfgVars,
     fileVars, TypeOK, Ended, Steps, Modes, Registration, NoReg, HookSteps, NoHook, Alive
<1>5. QED BY <1>1, <1>2, <1>3, <1>4 DEF SInv

LEMMA LookStateStep ==
    ASSUME SInv, NEW s \in Servers, LookState(s)
    PROVE  SInv'
<1> USE ServersAssumption
<1>0. seen' \in [Servers -> Servers \cup {Nobody}]
  BY DEF SInv, LookState, PidIn, TypeOK
<1>1. TypeOK'
  BY <1>0, StepTaken DEF SInv, LookState, Goes, OwnedByOther, Answers, PidIn, cfgVars, fileVars, TypeOK, Ended,
     Steps, Modes, Registration, NoReg, HookSteps, NoHook, Ports, LoneUp
<1>2. ASSUME NEW t \in Servers PROVE ServerInv(t)'
  <2>1. CASE OwnedByOther(s, PidIn(state))
    BY <1>1, <2>1, StepTaken
       DEF SInv, ServerInv, LookState, TypeOK, fileVars, cfgVars, Owning, Registered, Steps
  <2>2. CASE ~OwnedByOther(s, PidIn(state))
    <3>1. /\ seen'[s] = PidIn(state) /\ Goes(s, "truncate")
          /\ \A u \in Servers \ {s} : seen'[u] = seen[u]
      BY <2>2 DEF SInv, LookState, TypeOK
    <3>2. \/ seen'[s] \in {s, Nobody}
          \/ seen'[s] \in Servers /\ seen'[s] # s /\ pc[seen'[s]] = "crashed"
      BY <2>2, <3>1 DEF SInv, ServerInv, OwnedByOther, Answers, Alive, PidIn, Owning, Ended
    <3>3. QED
      BY <1>1, <3>1, <3>2, StepTaken
         DEF SInv, ServerInv, LookState, TypeOK, fileVars, cfgVars, Owning, Registered, Steps
  <2>3. QED BY <2>1, <2>2
<1>3. ASSUME NEW t \in Servers PROVE LoneInv(t)'
  BY <1>1 DEF SInv, ServerInv, LoneInv, LookState, Goes, OwnedByOther, Answers, PidIn, cfgVars,
     fileVars, TypeOK, Ended, Steps, Modes, Registration, NoReg, HookSteps, NoHook, Alive,
     Owning
<1>4. HookInv'
  BY <1>1 DEF SInv, ServerInv, LoneInv, HookInv, LoneUp, LookState, Goes, OwnedByOther,
     Answers, PidIn, cfgVars, fileVars, TypeOK, Ended, Steps, Modes, Registration, NoReg,
     HookSteps, NoHook, Alive
<1>5. QED BY <1>1, <1>2, <1>3, <1>4 DEF SInv

LEMMA TruncateStateStep ==
    ASSUME SInv, NEW s \in Servers, TruncateState(s)
    PROVE  SInv'
<1> USE ServersAssumption
<1>1. TypeOK'
  BY DEF SInv, TruncateState, Goes, cfgVars, fileVars, TypeOK, Ended, Steps, Modes,
     Registration, NoReg, HookSteps, NoHook, Ports, LoneUp
<1>2. ASSUME NEW t \in Servers PROVE ServerInv(t)'
  BY <1>1 DEF SInv, ServerInv, TruncateState, Goes, cfgVars, fileVars, TypeOK, Ended, Steps,
     Modes, Registration, NoReg, HookSteps, NoHook, Owning, Registered, Ports, Alive
<1>3. ASSUME NEW t \in Servers PROVE LoneInv(t)'
  BY <1>1 DEF SInv, ServerInv, LoneInv, TruncateState, Goes, cfgVars, fileVars, TypeOK, Ended,
     Steps, Modes, Registration, NoReg, HookSteps, NoHook, Alive, Owning
<1>4. HookInv'
  BY <1>1 DEF SInv, ServerInv, LoneInv, HookInv, LoneUp, TruncateState, Goes, cfgVars,
     fileVars, TypeOK, Ended, Steps, Modes, Registration, NoReg, HookSteps, NoHook, Alive
<1>5. QED BY <1>1, <1>2, <1>3, <1>4 DEF SInv

LEMMA WriteStateStep ==
    ASSUME SInv, NEW s \in Servers, WriteState(s)
    PROVE  SInv'
<1> USE ServersAssumption
<1>1. TypeOK'
  BY DEF SInv, WriteState, Goes, cfgVars, fileVars, TypeOK, Ended, Steps, Modes, Registration,
     NoReg, HookSteps, NoHook, Ports, LoneUp
<1>2. ASSUME NEW t \in Servers PROVE ServerInv(t)'
  BY <1>1 DEF SInv, ServerInv, WriteState, Goes, cfgVars, fileVars, TypeOK, Ended, Steps,
     Modes, Registration, NoReg, HookSteps, NoHook, Owning, Registered, Ports, Alive
<1>3. ASSUME NEW t \in Servers PROVE LoneInv(t)'
  BY <1>1 DEF SInv, ServerInv, LoneInv, WriteState, Goes, cfgVars, fileVars, TypeOK, Ended,
     Steps, Modes, Registration, NoReg, HookSteps, NoHook, Alive, Owning
<1>4. HookInv'
  BY <1>1 DEF SInv, ServerInv, LoneInv, HookInv, LoneUp, WriteState, Goes, cfgVars, fileVars,
     TypeOK, Ended, Steps, Modes, Registration, NoReg, HookSteps, NoHook, Alive
<1>5. QED BY <1>1, <1>2, <1>3, <1>4 DEF SInv

LEMMA RegisterStep ==
    ASSUME SInv, NEW s \in Servers, Register(s)
    PROVE  SInv'
<1> USE ServersAssumption
<1>1. TypeOK'
  BY DEF SInv, Register, Goes, Publishes, cfgVars, fileVars, TypeOK, Ended, Steps, Modes,
     Registration, NoReg, HookSteps, NoHook, Ports, LoneUp
<1>2. ASSUME NEW t \in Servers PROVE ServerInv(t)'
  BY <1>1 DEF SInv, ServerInv, Register, Goes, Publishes, cfgVars, fileVars, TypeOK, Ended,
     Steps, Modes, Registration, NoReg, HookSteps, NoHook, Owning, Registered, Ports, Alive
<1>3. ASSUME NEW t \in Servers PROVE LoneInv(t)'
  BY <1>1 DEF SInv, ServerInv, LoneInv, Register, Goes, Publishes, cfgVars, fileVars, TypeOK,
     Ended, Steps, Modes, Registration, NoReg, HookSteps, NoHook, Alive, Owning
<1>4. HookInv'
  BY <1>1 DEF SInv, ServerInv, LoneInv, HookInv, LoneUp, Register, Goes, Publishes, cfgVars,
     fileVars, TypeOK, Ended, Steps, Modes, Registration, NoReg, HookSteps, NoHook, Alive
<1>5. QED BY <1>1, <1>2, <1>3, <1>4 DEF SInv

LEMMA BindStep ==
    ASSUME SInv, NEW s \in Servers, Bind(s)
    PROVE  SInv'
<1> USE ServersAssumption
<1>0. holder' \in [Ports -> Servers \cup {Nobody}]
  BY DEF SInv, Bind, TypeOK
<1>1. TypeOK'
  BY <1>0, StepTaken DEF SInv, Bind, Goes, cfgVars, fileVars, TypeOK, Ended, Steps, Modes, Registration, NoReg,
     HookSteps, NoHook, Ports, LoneUp
<1>2. ASSUME NEW t \in Servers PROVE ServerInv(t)'
  BY <1>1 DEF SInv, ServerInv, Bind, Goes, cfgVars, fileVars, TypeOK, Ended, Steps, Modes,
     Registration, NoReg, HookSteps, NoHook, Owning, Registered, Ports, Alive
<1>3. ASSUME NEW t \in Servers PROVE LoneInv(t)'
  BY <1>1 DEF SInv, ServerInv, LoneInv, Bind, Goes, cfgVars, fileVars, TypeOK, Ended, Steps,
     Modes, Registration, NoReg, HookSteps, NoHook, Alive, Owning
<1>4. HookInv'
  BY <1>1 DEF SInv, ServerInv, LoneInv, HookInv, LoneUp, Bind, Goes, cfgVars, fileVars, TypeOK,
     Ended, Steps, Modes, Registration, NoReg, HookSteps, NoHook, Alive
<1>5. QED BY <1>1, <1>2, <1>3, <1>4 DEF SInv

LEMMA AdoptLaterStep ==
    ASSUME SInv, NEW s \in Servers, AdoptLater(s)
    PROVE  SInv'
<1> USE ServersAssumption
<1>1. TypeOK'
  BY DEF SInv, AdoptLater, Publishes, cfgVars, fileVars, TypeOK, Ended, Steps, Modes,
     Registration, NoReg, HookSteps, NoHook, Ports, LoneUp
<1>2. ASSUME NEW t \in Servers PROVE ServerInv(t)'
  BY <1>1 DEF SInv, ServerInv, AdoptLater, Publishes, cfgVars, fileVars, TypeOK, Ended, Steps,
     Modes, Registration, NoReg, HookSteps, NoHook, Owning, Registered, Ports, Alive
<1>3. ASSUME NEW t \in Servers PROVE LoneInv(t)'
  BY <1>1 DEF SInv, ServerInv, LoneInv, AdoptLater, Publishes, cfgVars, fileVars, TypeOK,
     Ended, Steps, Modes, Registration, NoReg, HookSteps, NoHook, Alive, Owning
<1>4. HookInv'
  BY <1>1 DEF SInv, ServerInv, LoneInv, HookInv, LoneUp, AdoptLater, Publishes, cfgVars,
     fileVars, TypeOK, Ended, Steps, Modes, Registration, NoReg, HookSteps, NoHook, Alive
<1>5. QED BY <1>1, <1>2, <1>3, <1>4 DEF SInv

LEMMA LeaveStep ==
    ASSUME SInv, NEW s \in Servers, Leave(s)
    PROVE  SInv'
<1> USE ServersAssumption
<1>1. TypeOK'
  BY DEF SInv, Leave, Goes, ForgetsHook, cfgVars, fileVars, TypeOK, Ended, Steps, Modes,
     Registration, NoReg, HookSteps, NoHook, Ports, LoneUp
<1>2. ASSUME NEW t \in Servers PROVE ServerInv(t)'
  BY <1>1 DEF SInv, ServerInv, Leave, Goes, ForgetsHook, cfgVars, fileVars, TypeOK, Ended,
     Steps, Modes, Registration, NoReg, HookSteps, NoHook, Owning, Registered, Ports, Alive
<1>3. ASSUME NEW t \in Servers PROVE LoneInv(t)'
  BY <1>1 DEF SInv, ServerInv, LoneInv, Leave, Goes, ForgetsHook, cfgVars, fileVars, TypeOK,
     Ended, Steps, Modes, Registration, NoReg, HookSteps, NoHook, Alive, Owning
<1>4. HookInv'
  BY <1>1 DEF SInv, ServerInv, LoneInv, HookInv, LoneUp, Leave, Goes, ForgetsHook, cfgVars,
     fileVars, TypeOK, Ended, Steps, Modes, Registration, NoReg, HookSteps, NoHook, Alive
<1>5. QED BY <1>1, <1>2, <1>3, <1>4 DEF SInv

LEMMA LookClearStep ==
    ASSUME SInv, NEW s \in Servers, LookClear(s)
    PROVE  SInv'
<1> USE ServersAssumption
<1>0. seen' \in [Servers -> Servers \cup {Nobody}]
  BY DEF SInv, LookClear, PidIn, TypeOK
<1>1. TypeOK'
  BY <1>0, StepTaken DEF SInv, LookClear, Goes, MayClear, PidIn, cfgVars, fileVars, TypeOK, Ended, Steps,
     Modes, Registration, NoReg, HookSteps, NoHook, Ports, LoneUp
<1>2. ASSUME NEW t \in Servers PROVE ServerInv(t)'
  BY <1>1 DEF SInv, ServerInv, LookClear, Goes, MayClear, PidIn, cfgVars, fileVars, TypeOK,
     Ended, Steps, Modes, Registration, NoReg, HookSteps, NoHook, Owning, Registered, Ports,
     Alive
<1>3. ASSUME NEW t \in Servers PROVE LoneInv(t)'
  BY <1>1 DEF SInv, ServerInv, LoneInv, LookClear, Goes, MayClear, PidIn, cfgVars, fileVars,
     TypeOK, Ended, Steps, Modes, Registration, NoReg, HookSteps, NoHook, Alive, Owning
<1>4. HookInv'
  BY <1>1 DEF SInv, ServerInv, LoneInv, HookInv, LoneUp, LookClear, Goes, MayClear, PidIn,
     cfgVars, fileVars, TypeOK, Ended, Steps, Modes, Registration, NoReg, HookSteps, NoHook,
     Alive
<1>5. QED BY <1>1, <1>2, <1>3, <1>4 DEF SInv

LEMMA UnlinkStateStep ==
    ASSUME SInv, NEW s \in Servers, UnlinkState(s)
    PROVE  SInv'
<1> USE ServersAssumption
<1>1. TypeOK'
  BY DEF SInv, UnlinkState, Goes, cfgVars, fileVars, TypeOK, Ended, Steps, Modes, Registration,
     NoReg, HookSteps, NoHook, Ports, LoneUp
<1>2. ASSUME NEW t \in Servers PROVE ServerInv(t)'
  BY <1>1 DEF SInv, ServerInv, UnlinkState, Goes, cfgVars, fileVars, TypeOK, Ended, Steps,
     Modes, Registration, NoReg, HookSteps, NoHook, Owning, Registered, Ports, Alive
<1>3. ASSUME NEW t \in Servers PROVE LoneInv(t)'
  BY <1>1 DEF SInv, ServerInv, LoneInv, UnlinkState, Goes, cfgVars, fileVars, TypeOK, Ended,
     Steps, Modes, Registration, NoReg, HookSteps, NoHook, Alive, Owning
<1>4. HookInv'
  BY <1>1 DEF SInv, ServerInv, LoneInv, HookInv, LoneUp, UnlinkState, Goes, cfgVars, fileVars,
     TypeOK, Ended, Steps, Modes, Registration, NoReg, HookSteps, NoHook, Alive
<1>5. QED BY <1>1, <1>2, <1>3, <1>4 DEF SInv

LEMMA LookWithdrawStep ==
    ASSUME SInv, NEW s \in Servers, LookWithdraw(s)
    PROVE  SInv'
<1> USE ServersAssumption
<1>1. TypeOK'
  <2>1. CASE OwnRegistration(s)
    <3>1. /\ TypeOK /\ Goes(s, "unlinkReg") /\ seen' = [seen EXCEPT ![s] = s]
          /\ UNCHANGED <<mode, port, adopted, lone, hook, fileVars, holder>>
      BY <2>1 DEF SInv, LookWithdraw, OwnRegistration
    <3>2. QED BY <3>1, StepTaken DEF TypeOK, Steps, fileVars
  <2>2. CASE ~OwnRegistration(s)
    BY <2>2, StepTaken, Forgotten DEF SInv, LookWithdraw, TypeOK, Ended, fileVars
  <2>3. QED BY <2>1, <2>2
<1>2. ASSUME NEW t \in Servers PROVE ServerInv(t)'
  <2>t. TypeOK /\ pc[s] = "withdraw" /\ UNCHANGED fileVars
    BY DEF SInv, LookWithdraw
  <2>1. CASE OwnRegistration(s)
    <3>1. /\ Goes(s, "unlinkReg") /\ seen' = [seen EXCEPT ![s] = s] /\ UNCHANGED port
      BY <2>1 DEF LookWithdraw, OwnRegistration
    <3>2. CASE t = s
      BY <2>t, <3>1, <3>2, StepTaken
         DEF SInv, ServerInv, Owning, Registered, Steps, TypeOK, fileVars
    <3>3. CASE t # s
      BY <2>t, <3>1, <3>3, StepTaken, Undisturbed DEF Steps, TypeOK
    <3>4. QED BY <3>2, <3>3
  <2>2. CASE ~OwnRegistration(s)
    <3>1. Goes(s, "gone") /\ Forgets(s) /\ ForgetsHook(s)
      BY <2>2 DEF LookWithdraw
    <3>2. CASE t = s
      BY <2>t, <2>2, <3>1, <3>2, StepTaken
         DEF SInv, ServerInv, OwnRegistration, Ended, Owning, Registered, Steps, fileVars
    <3>3. CASE t # s
      BY <2>t, <3>1, <3>3, StepTaken, Forgotten, Undisturbed DEF Ended
    <3>4. QED BY <3>2, <3>3
  <2>3. QED BY <2>1, <2>2
<1>3. ASSUME NEW t \in Servers PROVE LoneInv(t)'
  BY <1>1 DEF SInv, ServerInv, LoneInv, LookWithdraw, Goes, OwnRegistration, Forgets,
     ForgetsHook, cfgVars, fileVars, TypeOK, Ended, Steps, Modes, Registration, NoReg,
     HookSteps, NoHook, Alive, Owning
<1>4. HookInv'
  BY <1>1 DEF SInv, ServerInv, LoneInv, HookInv, LoneUp, LookWithdraw, Goes, OwnRegistration,
     Forgets, ForgetsHook, cfgVars, fileVars, TypeOK, Ended, Steps, Modes, Registration, NoReg,
     HookSteps, NoHook, Alive
<1>5. QED BY <1>1, <1>2, <1>3, <1>4 DEF SInv

LEMMA UnlinkRegStep ==
    ASSUME SInv, NEW s \in Servers, UnlinkReg(s)
    PROVE  SInv'
<1> USE ServersAssumption
<1>1. TypeOK'
  BY DEF SInv, UnlinkReg, Goes, Forgets, ForgetsHook, cfgVars, fileVars, TypeOK, Ended, Steps,
     Modes, Registration, NoReg, HookSteps, NoHook, Ports, LoneUp
<1>2. ASSUME NEW t \in Servers PROVE ServerInv(t)'
  <2>t. /\ TypeOK /\ pc[s] = "unlinkReg" /\ port[s] \in Ports /\ UNCHANGED <<state, open>>
        /\ Goes(s, "gone") /\ Forgets(s) /\ ForgetsHook(s)
    BY DEF SInv, ServerInv, UnlinkReg, Steps
  <2>1. /\ reg'[port[s]] = NoReg
        /\ \A p \in Ports \ {port[s]} : reg'[p] = reg[p]
    BY <2>t DEF TypeOK, UnlinkReg
  <2>2. NoReg.pid \notin Servers
    BY DEF NoReg
  <2>3. CASE t = s
    BY <2>t, <2>1, <2>2, <2>3, StepTaken DEF SInv, ServerInv, Ended, Owning, Registered, Steps
  <2>4. CASE t # s
    BY <2>t, <2>1, <2>2, <2>4, StepTaken, Forgotten DEF SInv, ServerInv, Ended
  <2>5. QED BY <2>3, <2>4
<1>3. ASSUME NEW t \in Servers PROVE LoneInv(t)'
  BY <1>1 DEF SInv, ServerInv, LoneInv, UnlinkReg, Goes, Forgets, ForgetsHook, cfgVars,
     fileVars, TypeOK, Ended, Steps, Modes, Registration, NoReg, HookSteps, NoHook, Alive,
     Owning
<1>4. HookInv'
  BY <1>1 DEF SInv, ServerInv, LoneInv, HookInv, LoneUp, UnlinkReg, Goes, Forgets, ForgetsHook,
     cfgVars, fileVars, TypeOK, Ended, Steps, Modes, Registration, NoReg, HookSteps, NoHook,
     Alive
<1>5. QED BY <1>1, <1>2, <1>3, <1>4 DEF SInv

LEMMA CrashStep ==
    ASSUME SInv, NEW s \in Servers, Crash(s)
    PROVE  SInv'
<1> USE ServersAssumption
<1>1. TypeOK'
  BY DEF SInv, Crash, Goes, Forgets, ForgetsHook, cfgVars, fileVars, TypeOK, Ended, Steps,
     Modes, Registration, NoReg, HookSteps, NoHook, Ports, LoneUp
<1>2. ASSUME NEW t \in Servers PROVE ServerInv(t)'
  BY <1>1 DEF SInv, ServerInv, Crash, Goes, Forgets, ForgetsHook, cfgVars, fileVars, TypeOK,
     Ended, Steps, Modes, Registration, NoReg, HookSteps, NoHook, Owning, Registered, Ports,
     Alive
<1>3. ASSUME NEW t \in Servers PROVE LoneInv(t)'
  BY <1>1 DEF SInv, ServerInv, LoneInv, Crash, Goes, Forgets, ForgetsHook, cfgVars, fileVars,
     TypeOK, Ended, Steps, Modes, Registration, NoReg, HookSteps, NoHook, Alive, Owning
<1>4. HookInv'
  BY <1>1 DEF SInv, ServerInv, LoneInv, HookInv, LoneUp, Crash, Goes, Forgets, ForgetsHook,
     cfgVars, fileVars, TypeOK, Ended, Steps, Modes, Registration, NoReg, HookSteps, NoHook,
     Alive
<1>5. QED BY <1>1, <1>2, <1>3, <1>4 DEF SInv

\* A step of the hook alone disturbs no process.
LEMMA HookMoves ==
    ASSUME SInv, UNCHANGED <<pc, cfgVars, seen, fileVars, holder, lone>>,
           hook' \in [at : HookSteps, dest : Ports \cup {0},
                      tok : Servers \cup {Nobody}, for : Servers \cup {Nobody}],
           HookInv'
    PROVE  SInv'
<1>1. TypeOK'
  BY DEF SInv, TypeOK, cfgVars, fileVars
<1>2. ASSUME NEW t \in Servers PROVE ServerInv(t)' /\ LoneInv(t)'
  BY DEF SInv, ServerInv, LoneInv, Alive, cfgVars, fileVars
<1>3. QED BY <1>1, <1>2 DEF SInv

LEMMA HookStarts ==
    ASSUME SInv, NEW s \in Servers, HookOfChild(s) \/ HookOfPane(s) \/ HookByHand(s)
    PROVE  SInv'
<1> USE DEF HookSteps
<1>0. TypeOK /\ NoHook \in [at : HookSteps, dest : Ports \cup {0},
                           tok : Servers \cup {Nobody}, for : Servers \cup {Nobody}]
  BY DEF SInv, NoHook
<1>t. LoneUp(s) /\ UNCHANGED <<pc, cfgVars, seen, fileVars, holder, lone>>
  BY DEF SInv, HookOfChild, HookOfPane, HookByHand
<1>1. /\ hook'.at \in {"token", "registry", "state"} /\ hook'.for = s
      /\ hook'.at = "token" => hook'.dest = port[s]
      /\ hook' \in [at : HookSteps, dest : Ports \cup {0},
                    tok : Servers \cup {Nobody}, for : Servers \cup {Nobody}]
  <2> DEFINE HookType == [at : HookSteps, dest : Ports \cup {0},
                          tok : Servers \cup {Nobody}, for : Servers \cup {Nobody}]
  <2>1. CASE HookOfChild(s)
    BY <1>0, <1>t, <2>1 DEF TypeOK, HookOfChild
  <2>2. ASSUME NEW step \in {"registry", "state"}, hook' = [NoHook EXCEPT !.at = step, !.for = s]
        PROVE  hook' \in HookType /\ hook'.at = step /\ hook'.for = s
    <3> DEFINE h == [NoHook EXCEPT !.at = step]
    <3>1. h \in HookType /\ h.at = step
      BY <1>0
    <3> HIDE DEF h
    <3>2. hook' = [h EXCEPT !.for = s]
      BY <1>0, <2>2 DEF h, NoHook
    <3>3. QED BY <3>1, <3>2
  <2>3. CASE HookOfPane(s)
    BY <2>2, <2>3 DEF HookOfPane
  <2>4. CASE HookByHand(s)
    BY <2>2, <2>4 DEF HookByHand
  <2>5. QED BY <2>1, <2>3, <2>4
<1>2. HookInv'
  BY <1>0, <1>t, <1>1 DEF HookInv, LoneUp, cfgVars
<1>3. QED BY <1>t, <1>1, <1>2, HookMoves

\* A hook that is not idle belongs to a server that is alone and up, and that
\* server owns the state file.
LEMMA HooksServer ==
    ASSUME SInv, hook.at # "idle"
    PROVE  /\ hook.for \in Servers /\ LoneUp(hook.for) /\ Answers(state)
           /\ state = hook.for /\ holder[port[state]] = state /\ port[state] \in Ports
           /\ \A u \in Servers : Alive(u) => u = hook.for
BY DEF SInv, HookInv, ServerInv, LoneInv, LoneUp, Answers, Alive, Ended, Steps

\* The registrations of live processes are those of the one server there is.
LEMMA LookRegistryStep ==
    ASSUME SInv, LookRegistry
    PROVE  SInv'
<1> USE DEF HookSteps
<1> DEFINE mine == {p \in Ports : reg[p].session /\ Answers(reg[p].pid)}
<1>t. /\ TypeOK /\ hook.at = "registry"
      /\ UNCHANGED <<pc, cfgVars, seen, fileVars, holder, lone>>
  BY DEF SInv, LookRegistry
<1>1. /\ hook.for \in Servers /\ LoneUp(hook.for) /\ holder[port[hook.for]] = hook.for
      /\ \A u \in Servers : Alive(u) => u = hook.for
  BY <1>t, HooksServer
<1>2. CASE hook' = [hook EXCEPT !.at = "state"]
  <2>1. HookInv'
    BY <1>t, <1>1, <1>2 DEF TypeOK, HookInv, LoneUp, cfgVars
  <2>2. QED BY <1>t, <1>2, <2>1, HookMoves DEF TypeOK
<1>3. ASSUME NEW p \in mine, hook' = [hook EXCEPT !.at = "post", !.dest = p, !.tok = reg[p].pid]
      PROVE  SInv'
  <2>1. reg[p].pid = hook.for
    BY <1>1 DEF Answers
  <2>2. port[hook.for] = p
    BY <1>1, <2>1 DEF SInv, ServerInv, LoneUp
  <2>3. HookInv'
    BY <1>t, <1>1, <1>3, <2>1, <2>2 DEF TypeOK, HookInv, LoneUp, cfgVars
  <2>4. QED BY <1>t, <1>1, <1>3, <2>1, <2>3, HookMoves DEF TypeOK
<1>4. QED BY <1>2, <1>3 DEF LookRegistry

LEMMA LookLiveStateStep ==
    ASSUME SInv, LookLiveState
    PROVE  SInv'
<1> USE DEF HookSteps
<1>t. /\ TypeOK /\ hook.at = "state"
      /\ UNCHANGED <<pc, cfgVars, seen, fileVars, holder, lone>>
  BY DEF SInv, LookLiveState
<1>1. hook' = [hook EXCEPT !.at = "post", !.dest = port[state], !.tok = state]
  BY <1>t, HooksServer DEF LookLiveState
<1>2. HookInv'
  BY <1>t, <1>1, HooksServer DEF TypeOK, HookInv, LoneUp, cfgVars
<1>3. QED BY <1>t, <1>1, <1>2, HooksServer, HookMoves DEF TypeOK

LEMMA LookTokenStep ==
    ASSUME SInv, LookToken
    PROVE  SInv'
<1> USE DEF HookSteps
<1>t. /\ TypeOK /\ hook.at = "token" /\ hook.dest = port[hook.for]
      /\ UNCHANGED <<pc, cfgVars, seen, fileVars, holder, lone>>
  BY DEF SInv, HookInv, LookToken
<1>1. hook' = [hook EXCEPT !.at = "post", !.tok = state]
  BY <1>t, HooksServer DEF LookToken
<1>2. HookInv'
  BY <1>t, <1>1, HooksServer DEF TypeOK, HookInv, LoneUp, cfgVars
<1>3. QED BY <1>t, <1>1, <1>2, HooksServer, HookMoves DEF TypeOK

LEMMA PostStep ==
    ASSUME SInv, Post
    PROVE  SInv'
<1>1. UNCHANGED <<pc, cfgVars, seen, fileVars, holder, lone>> /\ hook' = NoHook
  BY DEF Post
<1>2. QED BY <1>1, HookMoves DEF HookInv, NoHook, HookSteps

\* One lemma per action makes the invariant inductive.
LEMMA InvNext == SInv /\ [Next]_vars => SInv'
<1> SUFFICES ASSUME SInv, [Next]_vars PROVE SInv'
  OBVIOUS
<1>1. CASE UNCHANGED vars
  BY <1>1 DEF vars, cfgVars, fileVars, SInv, TypeOK, ServerInv, LoneInv, HookInv, LoneUp, Alive
<1>2. ASSUME NEW s \in Servers, Starting(s) PROVE SInv'
  BY <1>2, StartStep, PreflightStep, WireStep, LookStateStep, TruncateStateStep,
     WriteStateStep, RegisterStep, BindStep, AdoptLaterStep DEF Starting
<1>3. ASSUME NEW s \in Servers, Ending(s) PROVE SInv'
  BY <1>3, LeaveStep, LookClearStep, UnlinkStateStep, LookWithdrawStep, UnlinkRegStep,
     CrashStep DEF Ending
<1>4. ASSUME NEW s \in Servers, HookOfChild(s) \/ HookOfPane(s) \/ HookByHand(s) PROVE SInv'
  BY <1>4, HookStarts
<1>5. CASE Looks
  BY <1>5, LookRegistryStep, LookLiveStateStep, LookTokenStep, PostStep DEF Looks
<1>6. QED BY <1>1, <1>2, <1>3, <1>4, <1>5 DEF Next

\* The inductive invariant of the shared files.
THEOREM ServersInvariant == Spec => []SInv
<1>1. SInv /\ [Next]_vars => SInv'
  BY InvNext
<1>2. QED BY InvInit, <1>1, PTL DEF Spec

\* Type correctness of Servers.
THEOREM ServersTypes == Spec => []TypeOK
<1>1. SInv => TypeOK
  BY DEF SInv
<1>2. QED BY ServersInvariant, <1>1, PTL

\* A server that ended in order (clear_runtime_state,
\* withdraw_server_registration) left no file that names it.
THEOREM LeavesNothing == Spec => []CleanLeave
<1>1. SInv => CleanLeave
  BY DEF SInv, ServerInv, CleanLeave, Owning, Registered, Steps
<1>2. QED BY ServersInvariant, <1>1, PTL

\* resolve_server_endpoint and _hook_token bring a hook to the one server there
\* is, whatever files earlier servers left.
THEOREM HookArrives == Spec => []HookReachesLoneServer
<1>1. SInv => HookReachesLoneServer
  BY DEF SInv, HookInv, HookReachesLoneServer
<1>2. QED BY ServersInvariant, <1>1, PTL
\* A process moves no program counter but its own.
LEMMA OwnCounter ==
    ASSUME TypeOK, NEW u \in Servers, Starting(u) \/ Ending(u), NEW t \in Servers, t # u
    PROVE  pc'[t] = pc[t]
<1>1. ASSUME NEW step, Goes(u, step) PROVE pc'[t] = pc[t]
  BY <1>1 DEF Goes, TypeOK
<1>2. CASE Start(u) \/ Preflight(u) \/ Wire(u) \/ LookState(u)
  BY <1>1, <1>2 DEF Start, Preflight, Wire, LookState
<1>3. CASE TruncateState(u) \/ WriteState(u) \/ Register(u) \/ Bind(u) \/ AdoptLater(u)
  BY <1>1, <1>3 DEF TruncateState, WriteState, Register, Bind, AdoptLater
<1>4. CASE Leave(u) \/ LookClear(u) \/ UnlinkState(u)
  BY <1>1, <1>4 DEF Leave, LookClear, UnlinkState
<1>5. CASE LookWithdraw(u) \/ UnlinkReg(u) \/ Crash(u)
  BY <1>1, <1>5 DEF LookWithdraw, UnlinkReg, Crash
<1>6. QED BY <1>2, <1>3, <1>4, <1>5 DEF Starting, Ending

\* No look that write_runtime_state, clear_runtime_state or
\* withdraw_server_registration takes shows another live server's pid and is
\* followed by the act all the same.
THEOREM NobodyStealsKnowingly == Spec => NoKnowingTheft
<1> DEFINE Spared(s, t) ==
        /\ (state = s /\ state' # s /\ pc'[t] # pc[t]) => seen[t] # s
        /\ \A p \in Ports :
             (reg[p].pid = s /\ reg'[p] = NoReg /\ pc'[t] # pc[t]) => seen[t] # s
<1>1. ASSUME SInv, [Next]_vars, NEW s \in Servers, NEW t \in Servers, s # t, Alive(s)
      PROVE  Spared(s, t)
  <2> USE ServersAssumption
  <2>1. TypeOK /\ ServerInv(t)
    BY <1>1 DEF SInv
  <2>2. CASE pc'[t] = pc[t]
    BY <2>2
  <2>3. CASE pc[t] \in {"truncate", "write", "unlinkState", "unlinkReg"}
    BY <1>1, <2>1, <2>3 DEF ServerInv, Alive, Ended
  <2>4. CASE UNCHANGED <<state, reg>>
    BY <1>1, <2>1, <2>4 DEF TypeOK, NoReg, Registration
  <2>5. ASSUME NEW u \in Servers, UNCHANGED state, Publishes(u, TRUE) \/ Publishes(u, adopted[u])
        PROVE  Spared(s, t)
    BY <1>1, <2>1, <2>5 DEF Publishes, TypeOK, NoReg
  <2>6. ASSUME NEW u \in Servers, Starting(u) \/ Ending(u), pc'[t] # pc[t]
        PROVE  Spared(s, t)
    <3>1. CASE t = u
      BY <2>3, <2>4, <2>5, <2>6, <3>1
         DEF Starting, Ending, Start, Preflight, Wire, LookState, TruncateState, WriteState,
             Register, Bind, AdoptLater, Leave, LookClear, UnlinkState, LookWithdraw, UnlinkReg,
             Crash, fileVars
    <3>2. CASE t # u
      BY <2>1, <2>6, <3>2, OwnCounter
    <3>3. QED BY <3>1, <3>2
  <2>7. CASE UNCHANGED pc
    BY <2>7
  <2>8. QED
    BY <1>1, <2>2, <2>6, <2>7
       DEF Next, Looks, HookOfChild, HookOfPane, HookByHand, LookRegistry, LookLiveState,
           LookToken, Post, vars
<1> DEFINE Step == \A s, t \in Servers : (s # t /\ Alive(s)) => Spared(s, t)
<1>2. SInv /\ [Next]_vars => [Step]_vars
  BY <1>1
<1>3. Spec => [][Step]_vars
  BY ServersInvariant, <1>2, PTL DEF Spec
<1>4. QED BY <1>3 DEF NoKnowingTheft
=============================================================================
