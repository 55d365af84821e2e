------------------------------ MODULE Presence ------------------------------
(***************************************************************************)
(* Who is connected: the sockets the server serves, and how many devices it *)
(* says there are.                                                         *)
(*                                                                         *)
(* A phone may go to sleep and leave a socket that takes what is written to *)
(* it and says nothing, and come back on another.  The server learns of an *)
(* end in four ways that race: the handler's receive raises, a write fails *)
(* in a broadcast, the reaper has heard nothing for too long, the pairing  *)
(* expires.  Each of them forgets a different part of what is kept for the *)
(* socket.                                                                 *)
(*                                                                         *)
(* A broadcast is one step here, its writes and what they find; how one is *)
(* interrupted is in Approvals.                                            *)
(***************************************************************************)
EXTENDS Integers, FiniteSets

CONSTANTS
    Sockets,     \* connections, each made at most once
    Devices,     \* phones
    DeviceOf,    \* the phone at the other end of each connection
    Nobody,
    Limit        \* the reaper's patience, in ticks

ASSUME PresenceAssumption ==
    /\ IsFiniteSet(Sockets) /\ IsFiniteSet(Devices)
    /\ DeviceOf \in [Sockets -> Devices]
    /\ Nobody \notin Devices
    /\ Limit \in Nat \ {0}

VARIABLES
    link,        \* what has become of each connection
    hand,        \* where its handler is
    conn,        \* _connected_clients
    device,      \* _client_devices; Nobody where there is no entry
    focus,       \* the sockets with an entry in _client_focus
    age,         \* ticks since _client_last_seen; -1 where there is no entry
    told,        \* the last count a socket was sent
    reaping,     \* the sockets the reaper found stale and has not removed yet
    expired,     \* pairing_expired
    owed         \* history: a count was not announced, its broadcast raised

books == <<conn, device, focus, age>>
vars == <<link, hand, books, told, reaping, expired, owed>>

\* "up": the phone has been awake since it connected.  "quiet": it sleeps;
\* writes succeed.  "woken": it is back on the connection it slept on.
\* "broken": closed by either side, or lost for good; writes fail and the
\* receive raises.
Links == {"new", "up", "quiet", "woken", "broken"}

Talks(s) == link[s] \in {"up", "woken"}

\* "lost": the registration raised, so that the handler never came to the loop
\* whose end cleans up.
Hands == {"none", "loop", "done", "lost"}

Bound == Cardinality(Devices)

-----------------------------------------------------------------------------
TypeOK ==
    /\ link \in [Sockets -> Links]
    /\ hand \in [Sockets -> Hands]
    /\ conn \subseteq Sockets
    /\ device \in [Sockets -> Devices \cup {Nobody}]
    /\ focus \subseteq Sockets
    /\ age \in [Sockets -> -1 .. Limit + 1]
    /\ told \in [Sockets -> 0 .. Bound]
    /\ reaping \subseteq Sockets
    /\ expired \in BOOLEAN /\ owed \in BOOLEAN

Init ==
    /\ link = [s \in Sockets |-> "new"]
    /\ hand = [s \in Sockets |-> "none"]
    /\ conn = {}
    /\ device = [s \in Sockets |-> Nobody]
    /\ focus = {}
    /\ age = [s \in Sockets |-> -1]
    /\ told = [s \in Sockets |-> 0]
    /\ reaping = {}
    /\ expired = FALSE
    /\ owed = FALSE

-----------------------------------------------------------------------------
(* Helpers *)

\* A variant that counts sockets.
CountSockets(dev) == Cardinality({s \in Sockets : dev[s] # Nobody})

\* announce_peers: devices, not sockets.
Count(dev) == Cardinality({dev[s] : s \in Sockets} \ {Nobody})

\* broadcast: a failed write drops the socket, from the set of clients only.
Reached(clients, links) == {s \in clients : links[s] # "broken"}

\* A variant that leaves the device.
ForgetsSocket(s) ==
    /\ age' = [age EXCEPT ![s] = -1]
    /\ focus' = focus \ {s}
    /\ UNCHANGED device

\* unregister_client, and the reaper's like of it: nothing is kept.
Forgets(s) ==
    /\ device' = [device EXCEPT ![s] = Nobody]
    /\ age' = [age EXCEPT ![s] = -1]
    /\ focus' = focus \ {s}

\* announce_peers to the clients, after the books have changed.
Announces(clients) ==
    /\ conn' = Reached(clients, link')
    /\ told' = [s \in Sockets |-> IF s \in conn' THEN Count(device') ELSE told[s]]
    /\ owed' = FALSE

\* The same with a broadcast that raises.
AnnounceRaises(clients) ==
    /\ conn' = clients
    /\ owed' = TRUE
    /\ UNCHANGED told

-----------------------------------------------------------------------------
(* Phones and the network *)

FallsAsleep(s) ==
    /\ Talks(s)
    /\ link' = [link EXCEPT ![s] = "quiet"]
    /\ UNCHANGED <<hand, books, told, reaping, expired, owed>>

WakesUp(s) ==
    /\ link[s] = "quiet"
    /\ link' = [link EXCEPT ![s] = "woken"]
    /\ UNCHANGED <<hand, books, told, reaping, expired, owed>>

Breaks(s) ==
    /\ Talks(s) \/ link[s] = "quiet"
    /\ link' = [link EXCEPT ![s] = "broken"]
    /\ UNCHANGED <<hand, books, told, reaping, expired, owed>>

-----------------------------------------------------------------------------
(* The handler *)

\* register_client, once the pairing is checked.
Connect(s) ==
    /\ hand[s] = "none"
    /\ ~expired
    /\ device' = [device EXCEPT ![s] = DeviceOf[s]]
    /\ age' = [age EXCEPT ![s] = 0]
    /\ \/ /\ link' = [link EXCEPT ![s] = "up"]
          /\ hand' = [hand EXCEPT ![s] = "loop"]
          /\ Announces(conn \cup {s})
       \/ /\ link' = [link EXCEPT ![s] = "broken"]
          /\ hand' = [hand EXCEPT ![s] = "lost"]
          /\ AnnounceRaises(conn \cup {s})
    /\ UNCHANGED <<focus, reaping, expired>>

\* A frame, focus_state among them.
Frame(s) ==
    /\ Talks(s)
    /\ hand[s] = "loop"
    /\ age' = [age EXCEPT ![s] = 0]
    /\ focus' \in {focus \cup {s}, focus \ {s}}
    /\ UNCHANGED <<link, hand, conn, device, told, reaping, expired, owed>>

\* The receive raises; unregister_client, and the count, of which an exception
\* is suppressed.
Leave(s) ==
    /\ hand[s] = "loop"
    /\ link[s] = "broken"
    /\ hand' = [hand EXCEPT ![s] = "done"]
    /\ Forgets(s)
    /\ UNCHANGED link
    /\ Announces(conn \ {s}) \/ AnnounceRaises(conn \ {s})
    /\ UNCHANGED <<reaping, expired>>

\* Any other broadcast.
Broadcast ==
    /\ conn # Reached(conn, link)
    /\ conn' = Reached(conn, link)
    /\ UNCHANGED <<link, hand, device, focus, age, told, reaping, expired, owed>>

-----------------------------------------------------------------------------
(* The watch loop *)

\* A variant that does not take a frame for a sign of life.
Unheard(s) == age[s] + 1

\* note_client_activity: a phone that is awake is heard in every tick.
Heard(s) == IF Talks(s) THEN 0 ELSE age[s] + 1

Tick ==
    /\ reaping = {}
    /\ \E s \in Sockets : age[s] \in 0 .. Limit
    /\ age' = [s \in Sockets |-> IF age[s] \in 0 .. Limit THEN Heard(s) ELSE age[s]]
    /\ UNCHANGED <<link, hand, conn, device, focus, told, reaping, expired, owed>>

\* reap_stale_clients: the list, then one socket after another, suspended in
\* its close, then the count.
Stale(s) == s \in conn /\ age[s] > Limit

Reap ==
    /\ reaping = {}
    /\ reaping' = {s \in Sockets : Stale(s)}
    /\ reaping' # {}
    /\ UNCHANGED <<link, hand, books, told, expired, owed>>

ReapOne(s) ==
    /\ s \in reaping
    /\ Forgets(s)
    /\ link' = [link EXCEPT ![s] = "broken"]
    /\ IF reaping = {s} THEN Announces(conn \ {s}) \/ AnnounceRaises(conn \ {s})
       ELSE conn' = conn \ {s} /\ UNCHANGED <<told, owed>>
    /\ reaping' = reaping \ {s}
    /\ UNCHANGED <<hand, expired>>

\* disconnect_expired_clients: they are closed, and forgotten as they leave.
Expire ==
    /\ ~expired
    /\ expired' = TRUE
    /\ conn' = {}
    /\ link' = [s \in Sockets |-> IF s \in conn THEN "broken" ELSE link[s]]
    /\ UNCHANGED <<hand, device, focus, age, told, reaping, owed>>

Next ==
    \/ \E s \in Sockets :
          \/ FallsAsleep(s) \/ WakesUp(s) \/ Breaks(s) \/ Connect(s)
          \/ Frame(s) \/ Leave(s) \/ ReapOne(s)
    \/ Broadcast \/ Tick \/ Reap \/ Expire

Spec == Init /\ [][Next]_vars

\* Time passes, the watch loop runs, and a broken connection ends its handler.
Fairness ==
    /\ WF_vars(Tick) /\ WF_vars(Reap)
    /\ \A s \in Sockets : WF_vars(Leave(s)) /\ WF_vars(ReapOne(s))

FairSpec == Spec /\ Fairness

-----------------------------------------------------------------------------
(* Properties *)

\* Nothing is kept for a socket whose handler has ended: no ghost is counted,
\* and none looks at a session so that no push is sent for it.  Only a
\* registration that raised leaves something behind.
EntriesHaveHandlers ==
    \A s \in Sockets :
        (device[s] # Nobody \/ s \in focus \/ age[s] # -1) => hand[s] \in {"loop", "lost"}

\* note_client_activity: a client that talks "is never reaped mid-conversation".
\* The sweep works off a list while phones go on talking: one that woke up in
\* between loses its connection, one that was never asleep does not.
SweepSparesTheAwake ==
    [][\A s \in Sockets : s \in reaping \ reaping' => link[s] # "up"]_vars

Awake(s) == hand[s] = "loop" /\ Talks(s)
TrueCount == Cardinality({device[s] : s \in {t \in Sockets : Awake(t)}})

\* reap_stale_clients: the count must not "ratchet upward with every
\* sleep/reload cycle".  What a phone was told comes to be the number of phones
\* awake, unless an announcement raised or a registration did.
CountSettles ==
    \A s \in Sockets :
        (Awake(s) /\ told[s] # TrueCount)
        ~> (~Awake(s) \/ told[s] = TrueCount \/ owed \/ \E t \in Sockets : hand[t] = "lost")
=============================================================================
