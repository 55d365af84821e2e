---------------------------- MODULE SessionsProofs ----------------------------
(***************************************************************************)
(* Theorems about the sessions of a server, for every set of names and of  *)
(* conversations and every way a server is started.                        *)
(***************************************************************************)
EXTENDS Sessions, TLAPS

\* The slot and the mirror are taken over together.  Until then only what the
\* server was started for is in them: a run shows its agent's terminal and
\* types into it without a slot, run --tmux has a slot and no mirror.
SlotInv ==
    \/ slot = mirror
    \/ slot = None /\ mirror = Own /\ desk = "pty"
    \/ slot = Own /\ mirror = None /\ desk = "tmux"

\* What is registered was spawned under that name, which is used up; a spawn
\* under way is of a name, and not registered until it creates its session.
SpawnInv ==
    /\ \A i \in DOMAIN sessions : sessions[i] \in used
    /\ spawn.at # "idle" => spawn.name \in Names \cap used
    /\ spawn.at \in {"cloning", "looking", "creating"} => ~Registered(spawn.name)

\* While the session adopted last lives, nothing has taken the slot from it: a
\* client's arrival finds it there, and its name is never created again.
LiveInv ==
    Latest # None /\ Latest \in Ours => slot = Latest /\ mirror = Latest /\ cfgSession = Latest

SInv == TypeOK /\ SlotInv /\ SpawnInv /\ LiveInv

-----------------------------------------------------------------------------
LEMMA InvInit == Init => SInv
<1> SUFFICES ASSUME Init PROVE SInv
  OBVIOUS
<1>1. sessions = <<>> /\ DOMAIN sessions = {}
  BY DEF Init
<1>2. sessions \in Seq(Names) /\ IsInjective(sessions)
  BY <1>1 DEF IsInjective
<1>3. TypeOK
  BY <1>2 DEF Init, TypeOK, Desks, Panes, Stages, Fates
<1>4. SlotInv
  BY DEF Init, SlotInv, Desks
<1>5. SpawnInv
  BY <1>1 DEF Init, SpawnInv
<1>6. LiveInv
  BY <1>1 DEF LiveInv, Latest
<1>7. QED BY <1>3, <1>4, <1>5, <1>6 DEF SInv

\* What was adopted last is a spawned session, never the server's own.
LEMMA LatestIsSpawned ==
    ASSUME sessions \in Seq(Names)
    PROVE  Latest \in Names \cup {None} /\ Latest # Own
<1>1. CASE sessions = <<>>
  BY <1>1, SessionsAssumption DEF Latest
<1>2. CASE sessions # <<>>
  <2>1. Last(sessions) \in Names
    BY <1>2 DEF Last
  <2>2. QED BY <1>2, <2>1, SessionsAssumption DEF Latest
<1>3. QED BY <1>1, <1>2

\* Nothing is adopted, and no session of the spawner's comes to life.
LEMMA LatestKept ==
    ASSUME SInv, UNCHANGED <<slots, sessions>>, Ours' \subseteq Ours \cup {Own}
    PROVE  LiveInv'
<1>1. Latest' = Latest
  BY DEF Latest
<1>2. Latest # Own
  BY LatestIsSpawned DEF SInv, TypeOK
<1>3. QED BY <1>1, <1>2 DEF SInv, LiveInv, slots

\* Terminals come and go, agents begin conversations; the registry, the slot
\* and the spawner are left alone.
LEMMA AgentsStep ==
    ASSUME SInv, UNCHANGED <<desk, slots, registry, views, spawner>>,
           alive' \subseteq Panes, known' \subseteq Convs,
           talk' \in [Panes -> Convs \cup {None}],
           foreign' \subseteq Names,
           Ours' \subseteq Ours \cup {Own}
    PROVE  SInv'
<1> USE DEF slots, registry, views, spawner
<1>1. TypeOK'
  BY DEF SInv, TypeOK
<1>2. SlotInv' /\ SpawnInv'
  BY DEF SInv, SlotInv, SpawnInv, Registered
<1>3. LiveInv'
  BY LatestKept
<1>4. QED BY <1>1, <1>2, <1>3 DEF SInv

LEMMA EndsStep ==
    ASSUME SInv, NEW p, Ends(p), UNCHANGED <<desk, known, slots, registry, views, spawner>>
    PROVE  SInv'
<1>1. /\ alive' \subseteq Panes /\ known' \subseteq Convs
      /\ foreign' \subseteq Names
  BY DEF Ends, SInv, TypeOK
<1>2. talk' \in [Panes -> Convs \cup {None}]
  BY DEF Ends, SInv, TypeOK
<1>3. Ours' \subseteq Ours
  BY DEF Ends, Ours
<1>4. QED BY <1>1, <1>2, <1>3, AgentsStep

LEMMA BeginStep == ASSUME SInv, NEW p \in Panes, NEW c \in Convs, Begin(p, c) PROVE SInv'
<1>1. /\ UNCHANGED <<desk, slots, registry, views, spawner, alive, foreign>>
      /\ known' \subseteq Convs
      /\ talk' \in [Panes -> Convs \cup {None}]
  BY DEF Begin, SInv, TypeOK
<1>2. QED BY <1>1, AgentsStep DEF SInv, TypeOK, Ours

\* Somebody else's session is not one of ours.
LEMMA ForeignStep == ASSUME SInv, NEW n \in Names, Foreign(n) PROVE SInv'
<1>1. /\ UNCHANGED <<desk, slots, registry, views, spawner, talk, known>>
      /\ alive' = alive \cup {n} /\ foreign' = foreign \cup {n}
  BY DEF Foreign
<1>2. alive' \subseteq Panes /\ foreign' \subseteq Names /\ Ours' \subseteq Ours
  BY <1>1 DEF SInv, TypeOK, Ours, Panes
<1>3. QED BY <1>1, <1>2, AgentsStep DEF SInv, TypeOK

\* Only the views and the records' conversations change.
LEMMA ViewsStep ==
    ASSUME SInv, UNCHANGED <<desk, agents, slots, sessions, spawner>>,
           bound' \in [Names -> Convs \cup {None}],
           supervised' \in Convs \cup {None}, active' \in Convs \cup {None}
    PROVE  SInv'
<1> USE DEF agents, slots, spawner
<1>1. TypeOK'
  BY DEF SInv, TypeOK
<1>2. SlotInv' /\ SpawnInv'
  BY DEF SInv, SlotInv, SpawnInv, Registered
<1>3. LiveInv'
  BY LatestKept DEF Ours
<1>4. QED BY <1>1, <1>2, <1>3 DEF SInv

LEMMA BindStep == ASSUME SInv, NEW c \in Convs, BindTo(c) PROVE SInv'
<1>1. bound' \in [Names -> Convs \cup {None}]
  BY DEF BindTo, SInv, TypeOK
<1>2. supervised' \in Convs \cup {None} /\ active' \in Convs \cup {None}
  BY DEF BindTo, SInv, TypeOK
<1>3. QED BY <1>1, <1>2, ViewsStep DEF BindTo

LEMMA DiscoverStep == ASSUME SInv, Discover PROVE SInv'
<1>1. Discovered \in Convs
  BY DEF Discover, Discovered, SInv, TypeOK, Panes
<1>2. QED BY <1>1, BindStep DEF Discover

LEMMA HookStep == ASSUME SInv, NEW p \in Panes, HookCalls(p) PROVE SInv'
<1>1. talk[p] \in Convs
  BY DEF HookCalls, SInv, TypeOK
<1>2. QED BY <1>1, BindStep DEF HookCalls

LEMMA SwitchStep == ASSUME SInv, NEW c \in Convs, Switch(c) PROVE SInv'
<1>1. UNCHANGED <<desk, agents, slots, sessions, spawner, bound, supervised>> /\ active' = c
  BY DEF Switch, registry
<1>2. QED BY <1>1, ViewsStep DEF SInv, TypeOK

LEMMA ArriveStep == ASSUME SInv, Arrive PROVE SInv'
<1>1. UNCHANGED <<desk, talk, known, foreign, registry, views, spawner>>
  BY DEF Arrive
<1>l. LiveInv'
  <2>1. Latest' = Latest /\ Latest # Own
    BY <1>1, LatestIsSpawned DEF Latest, registry, SInv, TypeOK
  <2>2. Latest \in Ours' => Latest \in Ours
    BY <1>1, <2>1 DEF Arrive, Ours
  <2>3. Latest \in Ours => Latest = None
    BY DEF SInv, LiveInv, Arrive, Missing, Ours
  <2>4. QED BY <2>1, <2>2, <2>3 DEF LiveInv
<1>2. CASE alive' = alive \cup {Own} /\ TakesOver(Own)
  <2>1. TypeOK'
    BY <1>1, <1>2 DEF SInv, TypeOK, TakesOver, Panes, registry, views, spawner
  <2>2. SlotInv' /\ SpawnInv'
    BY <1>1, <1>2 DEF SInv, SlotInv, SpawnInv, Registered, TakesOver, registry, spawner
  <2>3. QED BY <1>l, <2>1, <2>2 DEF SInv
<1>3. CASE cfgSession' = None /\ UNCHANGED <<alive, slot, mirror>>
  <2>1. TypeOK'
    BY <1>1, <1>3 DEF SInv, TypeOK, registry, views, spawner
  <2>2. SlotInv' /\ SpawnInv'
    BY <1>1, <1>3 DEF SInv, SlotInv, SpawnInv, Registered, registry, spawner
  <2>3. QED BY <1>l, <2>1, <2>2 DEF SInv
<1>4. QED BY <1>2, <1>3 DEF Arrive

-----------------------------------------------------------------------------
(* The spawner *)

\* A name is taken that no session was ever registered under.
LEMMA CreateStep ==
    ASSUME SInv, NEW n \in Names, NEW agentClones, Create(n, agentClones) PROVE SInv'
<1>t. /\ UNCHANGED <<desk, agents, slots, registry, views>>
      /\ used' = used \cup {n} /\ n \notin used
      /\ spawn' = [at |-> IF agentClones THEN "looking" ELSE "cloning", name |-> n]
      /\ fate' = [fate EXCEPT ![n] = "running"]
  BY DEF Create, Unused
<1>1. /\ spawn'.name = n /\ spawn'.at \in {"looking", "cloning"}
      /\ spawn' \in [at : Stages, name : Names \cup {None}]
  BY <1>t DEF Stages
<1>2. fate' \in [Names -> Fates] /\ used' \subseteq Names
  BY <1>t DEF SInv, TypeOK, Fates
<1>3. TypeOK'
  BY <1>t, <1>1, <1>2 DEF SInv, TypeOK, agents, slots, registry, views
<1>4. ~Registered(n)
  BY <1>t DEF SInv, SpawnInv, TypeOK, Registered, Contains
<1>5. SpawnInv'
  BY <1>t, <1>1, <1>4 DEF SInv, SpawnInv, Registered, registry
<1>6. SlotInv'
  BY <1>t DEF SInv, SlotInv, slots
<1>7. LiveInv'
  BY <1>t, LatestKept DEF Ours, agents, registry
<1>8. QED BY <1>3, <1>5, <1>6, <1>7 DEF SInv

\* A stage ends without a session.
LEMMA StageStep ==
    ASSUME SInv, UNCHANGED <<desk, agents, slots, registry, views, used>>,
           spawn.at # "idle",
           fate' \in [Names -> Fates],
           spawn' \in [at : Stages, name : Names \cup {None}],
           \/ spawn'.at = "idle"
           \/ spawn'.name = spawn.name /\ spawn'.at \in {"waiting", "reporting", "failing"}
           \/ /\ spawn'.name = spawn.name /\ spawn'.at \in {"looking", "creating"}
              /\ spawn.at \in {"cloning", "looking", "creating"}
    PROVE  SInv'
<1>1. TypeOK'
  BY DEF SInv, TypeOK, agents, slots, registry, views
<1>2. SpawnInv'
  BY DEF SInv, SpawnInv, Registered, registry
<1>3. SlotInv'
  BY DEF SInv, SlotInv, slots
<1>4. LiveInv'
  BY LatestKept DEF Ours, agents, registry
<1>5. QED BY <1>1, <1>2, <1>3, <1>4 DEF SInv

LEMMA AtStage ==
    ASSUME SInv, NEW stage \in Stages, At(stage)
    PROVE  /\ spawn' \in [at : Stages, name : Names \cup {None}]
           /\ spawn'.at = stage /\ spawn'.name = spawn.name
BY DEF At, SInv, TypeOK

\* start_detached makes the session, or takes a stranger's of that name, and it
\* is registered once.
LEMMA AdoptStep == ASSUME SInv, CreateAndAdopt PROVE SInv'
<1> DEFINE n == spawn.name
<1>t. /\ spawn.at = "creating" /\ alive' = alive \cup {n} /\ TakesOver(n)
      /\ sessions' = Append(sessions, n) /\ At("waiting")
      /\ UNCHANGED <<desk, talk, known, foreign, bound, views, used, fate>>
  BY DEF CreateAndAdopt
<1>1. n \in Names /\ ~Registered(n) /\ sessions \in Seq(Names) /\ IsInjective(sessions)
  BY <1>t DEF SInv, SpawnInv, TypeOK
<1>2. /\ spawn' \in [at : Stages, name : Names \cup {None}]
      /\ spawn'.at = "waiting" /\ spawn'.name = n
  BY <1>t, AtStage DEF Stages
<1> HIDE DEF n
<1>3. sessions' \in Seq(Names) /\ IsInjective(sessions')
  BY <1>t, <1>1 DEF IsInjective, Registered, Contains
<1>4. TypeOK'
  BY <1>t, <1>1, <1>2, <1>3 DEF SInv, TypeOK, TakesOver, Panes, views
<1>5. n \in used
  BY <1>t DEF n, SInv, SpawnInv
<1>6. \A i \in DOMAIN sessions' : sessions'[i] \in used
  BY <1>t, <1>1, <1>5 DEF SInv, SpawnInv
<1>7. SpawnInv'
  BY <1>t, <1>1, <1>2, <1>5, <1>6 DEF SpawnInv
<1>8. SlotInv'
  BY <1>t DEF SlotInv, TakesOver
<1>9. LiveInv'
  <2>1. Len(sessions') = Len(sessions) + 1 /\ sessions'[Len(sessions) + 1] = n /\ sessions' # <<>>
    BY <1>t, <1>1
  <2>2. Latest' = n
    BY <2>1 DEF Latest, Last
  <2>3. QED BY <1>t, <2>2 DEF LiveInv, TakesOver
<1>10. QED BY <1>4, <1>7, <1>8, <1>9 DEF SInv

LEMMA SpawnerStep == ASSUME SInv, SpawnStep PROVE SInv'
<1> USE DEF Stages
<1>1. fate \in [Names -> Fates]
  BY DEF SInv, TypeOK
<1>2. CASE Clone \/ Wait \/ CreateFails \/ ReportRaises
  <2>1. /\ UNCHANGED <<desk, agents, slots, registry, views, used, fate>>
        /\ spawn.at \in {"cloning", "waiting", "creating", "reporting"}
    BY <1>2 DEF Clone, Wait, CreateFails, ReportRaises
  <2>2. \/ spawn.at = "cloning" /\ At("looking")
        \/ At("reporting")
        \/ At("failing")
    BY <1>2 DEF Clone, Wait, CreateFails, ReportRaises
  <2>3. QED BY <1>1, <2>1, <2>2, AtStage, StageStep
<1>3. CASE Look
  <2>1. /\ UNCHANGED <<desk, agents, slots, registry, views, used, fate>>
        /\ spawn.at = "looking"
    BY <1>3 DEF Look
  <2>2. At("creating") \/ At("failing")
    BY <1>3 DEF Look
  <2>3. QED BY <1>1, <2>1, <2>2, AtStage, StageStep
<1>4. CASE Report \/ Fail
  <2>1. PICK f \in {"created", "failed"} : spawn.at # "idle" /\ Finish(f)
    BY <1>4 DEF Report, Fail
  <2>2. /\ UNCHANGED <<desk, agents, slots, registry, views, used>>
        /\ spawn' = [at |-> "idle", name |-> None]
        /\ fate' = [fate EXCEPT ![spawn.name] = f]
    BY <2>1 DEF Finish
  <2>3. fate' \in [Names -> Fates]
    BY <1>1, <2>2 DEF Fates
  <2>4. spawn' \in [at : Stages, name : Names \cup {None}] /\ spawn'.at = "idle"
    BY <2>2
  <2>5. QED BY <2>1, <2>2, <2>3, <2>4, StageStep
<1>5. CASE CreateAndAdopt
  BY <1>5, AdoptStep
<1>6. QED BY <1>2, <1>3, <1>4, <1>5 DEF SpawnStep

LEMMA InvNext == SInv /\ [Next]_vars => SInv'
<1> SUFFICES ASSUME SInv, [Next]_vars PROVE SInv'
  OBVIOUS
<1>1. CASE UNCHANGED vars
  <2>1. TypeOK'
    BY <1>1 DEF SInv, TypeOK, vars, agents, slots, registry, views, spawner
  <2>2. SlotInv' /\ SpawnInv' /\ LiveInv'
    BY <1>1 DEF SInv, SlotInv, SpawnInv, Registered, LiveInv, Latest, Ours, vars, agents, slots,
                registry, spawner
  <2>3. QED BY <2>1, <2>2 DEF SInv
<1>2. ASSUME NEW p \in Panes, Dies(p) \/ HookCalls(p) \/ \E c \in Convs : Begin(p, c)
      PROVE  SInv'
  BY <1>2, EndsStep, HookStep, BeginStep DEF Dies
<1>3. ASSUME NEW k \in Names \cup Convs \cup {None}, Kill(k) PROVE SInv'
  BY <1>3, EndsStep DEF Kill
<1>4. ASSUME NEW n \in Names, Foreign(n) \/ \E b \in BOOLEAN : Create(n, b) PROVE SInv'
  BY <1>4, ForeignStep, CreateStep
<1>5. CASE (\E c \in Convs : Switch(c)) \/ Discover \/ Arrive \/ SpawnStep
  BY <1>5, SwitchStep, DiscoverStep, ArriveStep, SpawnerStep
<1>6. QED BY <1>1, <1>2, <1>3, <1>4, <1>5 DEF Next

-----------------------------------------------------------------------------
\* A request that names a session reaches the one whose screen it gets; without
\* one both fall back, and what the two fall back to is the same terminal.
LEMMA ScreenFollowsSlot == SInv => AskedScreenIsDriven
<1> SUFFICES ASSUME SInv, NEW k \in Names \cup Convs \cup {None},
                    GetScreenMirror(k) \in alive, PressKeyTo(k) \in alive
             PROVE  GetScreenMirror(k) = PressKeyTo(k)
  BY DEF AskedScreenIsDriven
<1>1. None \notin alive
  BY SessionsAssumption DEF SInv, TypeOK, Panes
<1>2. CASE GetSession(k) # None
  BY <1>2 DEF GetScreenMirror, PressKeyTo, GetSupervisor
<1>3. CASE GetSession(k) = None
  <2>1. GetScreenMirror(k) = mirror /\ mirror \in alive
    BY <1>1, <1>3 DEF GetScreenMirror
  <2>2. PressKeyTo(k) = Global
    BY <1>3 DEF PressKeyTo, GetSupervisor
  <2>3. slot \in alive => slot = mirror
    BY <1>1, <2>1 DEF SInv, SlotInv
  <2>4. slot \notin alive => mirror = Own /\ desk = "pty"
    BY <1>1, <2>1 DEF SInv, SlotInv
  <2>5. QED BY <1>1, <2>1, <2>2, <2>3, <2>4 DEF Global
<1>4. QED BY <1>2, <1>3

\* Keys without a name go to the session adopted last, which then has the
\* screen, or nowhere in particular, as above.
LEMMA LiveScreenFollowsSlot == SInv => LiveScreenIsDriven
<1> SUFFICES ASSUME SInv, GetSession(None) \in {None, Latest},
                    LiveScreen \in Ours, PressKeyTo(None) \in Ours
             PROVE  LiveScreen = PressKeyTo(None)
  BY DEF LiveScreenIsDriven
<1>1. CASE GetSession(None) = None
  <2>1. LiveScreen = GetScreenMirror(None)
    BY <1>1 DEF LiveScreen, GetScreenMirror, MayFallBack
  <2>2. LiveScreen \in alive /\ PressKeyTo(None) \in alive
    BY DEF Ours
  <2>3. QED BY <2>1, <2>2, ScreenFollowsSlot DEF AskedScreenIsDriven
<1>2. CASE GetSession(None) # None
  <2>1. PressKeyTo(None) = Latest /\ Latest # None
    BY <1>2 DEF PressKeyTo, GetSupervisor
  <2>2. mirror = Latest
    BY <2>1 DEF SInv, LiveInv
  <2>3. QED BY <2>1, <2>2 DEF LiveScreen
<1>3. QED BY <1>1, <1>2

-----------------------------------------------------------------------------
\* Every reachable state has it: what register_session, the spawner thread,
\* the hooks and the transcript watcher do to the registry and the slot, in any
\* order.
THEOREM SessionsInvariant == Spec => []SInv
BY InvInit, InvNext, PTL DEF Spec

\* Registered names stay distinct names, and the routing tables of the
\* session manager hold panes, conversations and stages of a spawn only.
THEOREM SessionsTypes == Spec => []TypeOK
<1>1. SInv => TypeOK
  BY DEF SInv
<1>2. QED BY <1>1, SessionsInvariant, PTL

\* A screen request and a key that name the same thing get the same living
\* terminal (get_screen_mirror, get_supervisor), whatever was spawned, killed,
\* switched to or adopted before.
THEOREM KeysDriveTheAskedScreen == Spec => []AskedScreenIsDriven
BY ScreenFollowsSlot, SessionsInvariant, PTL

\* The screen broadcast_terminal sends every phone is the terminal its key
\* buttons reach, unless these go to a session that was not adopted last.
THEOREM KeysDriveTheLiveScreen == Spec => []LiveScreenIsDriven
BY LiveScreenFollowsSlot, SessionsInvariant, PTL

=============================================================================
