---------------------------- MODULE EventStream ----------------------------
(***************************************************************************)
(* The event stream: how the server keeps the phones' pictures in step     *)
(* with its own.  Every broadcast gets the next sequence number and goes   *)
(* into a bounded outbox; a page that reconnects is sent a snapshot        *)
(* ("init") and then asks for a replay of what it missed since the highest *)
(* number it saw.  The picture followed here is the list of approvals that *)
(* wait for an answer, the part of it that blocks an agent.                *)
(*                                                                         *)
(* A send writes its frame at once and may then wait for the socket to     *)
(* drain; in that wait everything else runs.  A frame written to a         *)
(* connection that is up arrives: a frame lost in flight is one written    *)
(* after the connection went down, which the server cannot tell.           *)
(***************************************************************************)
EXTENDS Naturals, Sequences, FiniteSets, FiniteSetsExt

CONSTANTS
    Pages,        \* the phones' app pages
    Sockets,      \* connections, as the server sees them
    NoSocket,
    Calls,        \* hook calls, and the approval ids minted for them
    OutboxMax,    \* _outbox_max_size
    MaxEvents,    \* bound: events ever broadcast
    MaxCasts,     \* bound: broadcasts under way at once
    RestartBy     \* bound: events broadcast before the restart

ASSUME SizesAssumption == OutboxMax \in Nat \ {0} /\ MaxEvents \in Nat /\ MaxCasts \in Nat /\ RestartBy \in Nat
ASSUME SocketAssumption == NoSocket \notin Sockets
\* A hook call, a connection and the server's own tasks are not one another.
ASSUME OwnerAssumption == Calls \cap Sockets = {} /\ "server" \notin Calls \cup Sockets

VARIABLES
    seq,        \* _event_seq
    outbox,     \* _outbox
    clients,    \* _connected_clients
    casts,      \* the broadcasts under way
    conn,       \* the WebSocket handler of each socket
    call,       \* where each hook call stands
    pending,    \* the approvals that wait for an answer
    answered,   \* those the pending map remembers an answer of
    page,       \* each page: its socket and what it shows
    withdrawn,  \* history: approvals taken back without an event
    events,     \* history: events ever broadcast
    restarted   \* whether the server was restarted; bound: once

callVars == <<call, pending, answered, withdrawn>>
streamVars == <<seq, outbox, events>>
vars == <<streamVars, clients, casts, conn, callVars, page, restarted>>

\* "switched" is session_switched, which carries a list of its own.
Kinds == {"request", "resolved", "switched", "other"}
Event(kind, ids) == [seq |-> seq + 1, kind |-> kind, ids |-> ids]
Events == [seq: 1 .. MaxEvents, kind: Kinds, ids: SUBSET Calls]

\* A broadcast under way.  owner: whose code waits for it to end.  at: the
\* socket whose send it waits for.  known: the sockets it counted or visited.
Casts == [event: Events, owner: Calls \cup Sockets \cup {"server"}, size: Nat,
          known: SUBSET Sockets, todo: SUBSET Sockets, at: Sockets]

\* since: what the page asks to be replayed, 0 if nothing.
Idle == [at |-> "none", since |-> 0, next |-> 0]
Conns == [at: {"none", "welcome", "announce", "reading", "busy", "replaying", "lost"},
          since: Nat, next: Nat]

\* last: lastReceivedSeq.  The rest is history of this connection.  heard: the
\* highest event broadcast to it.  missed: a broadcast raised before it got
\* there.  late: an event came after a later one, or while its replay ran the
\* outbox lost an entry.
Blank == [sock |-> NoSocket, view |-> {}, last |-> 0, heard |-> 0, missed |-> FALSE, late |-> FALSE]
PageStates == [sock: Sockets \cup {NoSocket}, view: SUBSET Calls, last: 0 .. MaxEvents,
               heard: 0 .. MaxEvents, missed: BOOLEAN, late: BOOLEAN]

Up(s) == \E p \in Pages : page[p].sock = s

-----------------------------------------------------------------------------
TypeOK ==
    /\ seq \in 0 .. MaxEvents
    /\ outbox \in Seq(Events) /\ Len(outbox) <= OutboxMax
    /\ clients \in SUBSET Sockets
    /\ casts \in SUBSET Casts
    /\ conn \in [Sockets -> Conns]
    /\ call \in [Calls -> {"new", "casting", "held", "over"}]
    /\ pending \in SUBSET Calls
    /\ answered \in SUBSET Calls
    /\ page \in [Pages -> PageStates]
    /\ withdrawn \in SUBSET Calls
    /\ events \in seq .. MaxEvents
    /\ restarted \in BOOLEAN

Init ==
    /\ seq = 0
    /\ outbox = <<>>
    /\ clients = {}
    /\ casts = {}
    /\ conn = [s \in Sockets |-> Idle]
    /\ call = [a \in Calls |-> "new"]
    /\ pending = {}
    /\ answered = {}
    /\ page = [p \in Pages |-> Blank]
    /\ withdrawn = {}
    /\ events = 0
    /\ restarted = FALSE

-----------------------------------------------------------------------------
(* The page: handleServerEvent *)

Shown(view, e) ==
    CASE e.kind = "request"  -> view \cup e.ids
      [] e.kind = "resolved" -> view \ e.ids
      [] e.kind = "switched" -> e.ids
      [] OTHER               -> view

Larger(m, n) == IF m > n THEN m ELSE n

Received(pg, e) == [pg EXCEPT !.view = Shown(@, e), !.last = Larger(@, e.seq)]

\* Variants: the snapshot is added to what is on the screen; it leaves the
\* approvals to the stream.
Merged(pg) == [pg EXCEPT !.view = @ \cup pending, !.last = Larger(@, seq)]
Bare(pg) == [pg EXCEPT !.view = {}, !.last = Larger(@, seq)]

\* init replaces the picture.
Snapshot(pg) == [pg EXCEPT !.view = pending, !.last = Larger(@, seq)]

\* The pages after a live frame, which a socket that joined under the
\* iteration may get too.
Live(pages, s, e, joined) ==
    [p \in Pages |->
        IF pages[p].sock = s
        THEN [Received(pages[p], e) EXCEPT !.heard = Larger(@, e.seq),
                                           !.late = @ \/ joined \/ e.seq < pages[p].heard]
        ELSE pages[p]]

Missed(pages, socks) ==
    [p \in Pages |-> [pages[p] EXCEPT !.missed = @ \/ pages[p].sock \in socks]]

Overtaken(pages, socks) ==
    [p \in Pages |-> [pages[p] EXCEPT !.late = @ \/ pages[p].sock \in socks]]

\* The page keeps its picture and its last number.
HangUp(socks) ==
    [p \in Pages |-> IF page[p].sock \in socks
                     THEN [Blank EXCEPT !.view = page[p].view, !.last = page[p].last]
                     ELSE page[p]]

-----------------------------------------------------------------------------
(* broadcast *)

\* All iterations go through the set in one order and a socket's writes
\* complete in turn, so none overtakes an older one that waits for a socket
\* still in the set.
InTurn(s, others, members) == \A o \in others : o.at \in members => s \notin o.todo

\* A variant that drops the oldest entry one event late.
RecordedLate(e) == IF Len(outbox) <= OutboxMax THEN Append(outbox, e) ELSE Append(Tail(outbox), e)

Recorded(e) == IF Len(outbox) < OutboxMax THEN Append(outbox, e) ELSE Append(Tail(outbox), e)

\* The synchronous part of a broadcast: number, record, and write to the first
\* socket.  Replays under way iterate the outbox that lost its oldest entry.
Cast(e, owner, members, others, pages) ==
    /\ events < MaxEvents
    /\ events' = events + 1
    /\ Cardinality(others) < MaxCasts
    /\ seq' = e.seq
    /\ outbox' = Recorded(e)
    /\ LET replaying == {s \in Sockets : conn[s].at = "replaying"}
           left == IF Len(outbox) = OutboxMax THEN Overtaken(pages, replaying) ELSE pages
       IN  IF members = {}
           THEN casts' = others /\ page' = left
           ELSE \E s \in members :
                  /\ InTurn(s, others, members)
                  /\ casts' = others \cup
                        {[event |-> e, owner |-> owner, size |-> Cardinality(members),
                          known |-> members, todo |-> members \ {s}, at |-> s]}
                  /\ page' = Live(left, s, e, FALSE)

\* The send is over and the set has kept its size: on to the next socket.  One
\* that joined in the place of another may or may not be met.
CastGoesOn(b) ==
    /\ Cardinality(clients) = b.size
    /\ \E s \in (clients \cap b.todo) \cup (clients \ b.known) :
          /\ InTurn(s, {o \in casts : o.event.seq < b.event.seq}, clients)
          /\ casts' = (casts \ {b}) \cup
                {[b EXCEPT !.known = @ \cup {s}, !.todo = @ \ {s}, !.at = s]}
          /\ page' = Live(page, s, b.event, s \notin b.known)
    /\ UNCHANGED <<streamVars, clients, conn, callVars, restarted>>

\* The code behind the broadcast goes on: request_approval looks whether a
\* client is left, a handler reads its next frame.
Continue(b) ==
    IF b.owner \in Calls
    THEN LET a == b.owner
             alone == clients' = {}
         IN  /\ call' = [call EXCEPT ![a] = IF alone \/ a \notin pending THEN "over" ELSE "held"]
             /\ pending' = IF alone THEN pending \ {a} ELSE pending
             /\ answered' = IF alone THEN answered \ {a} ELSE answered
             /\ withdrawn' = IF alone THEN withdrawn \cup ({a} \cap pending) ELSE withdrawn
             /\ UNCHANGED conn
    ELSE /\ conn' = IF b.owner \in Sockets THEN [conn EXCEPT ![b.owner].at = "reading"] ELSE conn
         /\ UNCHANGED callVars

\* The sockets whose send failed are pruned.  A write to a connection that is
\* down may also succeed, into a buffer nobody empties.
CastEnds(b) ==
    /\ Cardinality(clients) = b.size
    /\ clients \cap b.todo = {}
    /\ \E failed \in SUBSET {s \in b.known \ b.todo : ~Up(s)} : clients' = clients \ failed
    /\ casts' = casts \ {b}
    /\ Continue(b)
    /\ UNCHANGED <<streamVars, page, restarted>>

\* RuntimeError: the sockets not yet reached never get this event.  A hook call
\* dies with its approval registered; a socket that was being registered stays
\* registered, with no handler and closed.
CastRaises(b) ==
    /\ Cardinality(clients) # b.size
    /\ b.owner \in Sockets => conn[b.owner].at = "announce"
    /\ casts' = casts \ {b}
    /\ call' = IF b.owner \in Calls THEN [call EXCEPT ![b.owner] = "over"] ELSE call
    /\ conn' = IF b.owner \in Sockets THEN [conn EXCEPT ![b.owner].at = "lost"] ELSE conn
    /\ page' = Missed(HangUp({b.owner} \cap Sockets), b.todo)
    /\ UNCHANGED <<streamVars, clients, pending, answered, withdrawn, restarted>>

\* The same under a tap on a phone: its handler unregisters and says so.
TapRaises(b) ==
    /\ Cardinality(clients) # b.size
    /\ b.owner \in Sockets /\ conn[b.owner].at = "busy"
    /\ clients' = clients \ {b.owner}
    /\ conn' = [conn EXCEPT ![b.owner] = Idle]
    /\ Cast(Event("other", {}), "server", clients', casts \ {b},
            Missed(HangUp({b.owner}), b.todo))
    /\ UNCHANGED <<callVars, restarted>>

-----------------------------------------------------------------------------
(* Approvals, as far as the clients are told of them (see Approvals) *)

HookHeld(a) ==
    /\ call[a] = "new"
    /\ clients # {}
    /\ call' = [call EXCEPT ![a] = "casting"]
    /\ pending' = pending \cup {a}
    /\ Cast(Event("request", {a}), a, clients, casts, page)
    /\ UNCHANGED <<clients, conn, answered, withdrawn, restarted>>

Answer(a, owner) ==
    /\ a \in pending \cup answered
    /\ pending' = pending \ {a}
    /\ answered' = answered \cup {a}
    /\ call' = [call EXCEPT ![a] = IF @ = "held" THEN "over" ELSE @]
    /\ Cast(Event("resolved", {a}), owner, clients, casts, page)
    /\ UNCHANGED <<clients, withdrawn, restarted>>

\* From a phone, whose handler reads on after the broadcast.
Tap(s, a) ==
    /\ conn[s].at = "reading"
    /\ Answer(a, s)
    /\ conn' = [conn EXCEPT ![s].at = IF clients = {} THEN "reading" ELSE "busy"]

\* From the REST endpoint, which the tmux popup calls too.
Popup(a) == Answer(a, "server") /\ UNCHANGED conn

\* await_approval gives up: no event says so.
TimesOut(a) ==
    /\ call[a] = "held"
    /\ a \in pending
    /\ call' = [call EXCEPT ![a] = "over"]
    /\ pending' = pending \ {a}
    /\ withdrawn' = withdrawn \cup {a}
    /\ UNCHANGED <<streamVars, clients, casts, conn, answered, page, restarted>>

\* switch_conversation, once it has loaded the steps.
Switch ==
    /\ Cast(Event("switched", pending), "server", clients, casts, page)
    /\ UNCHANGED <<clients, conn, callVars, restarted>>

\* Any other event: a step, the terminal's screen, a prompt.
OtherEvent ==
    /\ Cast(Event("other", {}), "server", clients, casts, page)
    /\ UNCHANGED <<clients, conn, callVars, restarted>>

-----------------------------------------------------------------------------
(* Connections *)

Free(s) ==
    /\ conn[s].at \in {"none", "lost"}
    /\ s \notin clients
    /\ \A b \in casts : s \notin b.known /\ s # b.owner

\* register_client up to its first wait: the page opens its socket, and says
\* how far it had come before the snapshot arrives.
Connect(p, s) ==
    /\ page[p].sock = NoSocket
    /\ Free(s)
    /\ clients' = clients \cup {s}
    /\ conn' = [conn EXCEPT ![s] = [Idle EXCEPT !.at = "welcome", !.since = page[p].last]]
    /\ page' = [page EXCEPT ![p] = [Snapshot(@) EXCEPT !.sock = s]]
    /\ UNCHANGED <<streamVars, casts, callVars, restarted>>

\* ... and its announce_peers.
Announce(s) ==
    /\ conn[s].at = "welcome"
    /\ conn' = [conn EXCEPT ![s].at = IF clients = {} THEN "reading" ELSE "announce"]
    /\ Cast(Event("other", {}), s, clients, casts, page)
    /\ UNCHANGED <<clients, callVars, restarted>>

\* replay_since, from the i-th entry of the outbox to the next one it sends.
ReplayFrom(s, i) ==
    LET due == {j \in i .. Len(outbox) : outbox[j].seq > conn[s].since}
    IN  IF due = {}
        THEN /\ conn' = [conn EXCEPT ![s] = [Idle EXCEPT !.at = "reading"]]
             /\ UNCHANGED page
        ELSE LET j == Min(due) IN
             /\ conn' = [conn EXCEPT ![s].at = "replaying", ![s].next = j + 1]
             /\ page' = [p \in Pages |-> IF page[p].sock = s THEN Received(page[p], outbox[j])
                                                             ELSE page[p]]

\* The page's request to replay is read.
ReplayBegins(s) ==
    /\ conn[s].at = "reading"
    /\ conn[s].since > 0
    /\ outbox # <<>> => conn[s].since >= outbox[1].seq - 1
    /\ ReplayFrom(s, 1)
    /\ UNCHANGED <<streamVars, clients, casts, callVars, restarted>>

ReplayGoesOn(s) ==
    /\ conn[s].at = "replaying"
    /\ ReplayFrom(s, conn[s].next)
    /\ UNCHANGED <<streamVars, clients, casts, callVars, restarted>>

\* The outbox no longer reaches back to what the page missed: a snapshot.
ReplayRefused(s) ==
    /\ conn[s].at = "reading"
    /\ conn[s].since > 0
    /\ outbox # <<>> /\ conn[s].since < outbox[1].seq - 1
    /\ conn' = [conn EXCEPT ![s].since = 0]
    /\ page' = [p \in Pages |-> IF page[p].sock = s THEN Snapshot(page[p]) ELSE page[p]]
    /\ UNCHANGED <<streamVars, clients, casts, callVars, restarted>>

\* The page's connection goes down, or the page to sleep; the server does not know yet.
Drop(p) ==
    /\ page[p].sock # NoSocket
    /\ page' = HangUp({page[p].sock})
    /\ UNCHANGED <<streamVars, clients, casts, conn, callVars, restarted>>

\* The handler finds out: unregister_client and announce_peers.
Leave(s) ==
    /\ conn[s].at \in {"reading", "replaying"}
    /\ ~Up(s)
    /\ clients' = clients \ {s}
    /\ conn' = [conn EXCEPT ![s] = Idle]
    /\ Cast(Event("other", {}), "server", clients', casts, page)
    /\ UNCHANGED <<callVars, restarted>>

\* reap_stale_clients: a socket that fell silent.  A page that is up is heard
\* of three times in the time that takes.
Reap(s) ==
    /\ s \in clients
    /\ ~Up(s)
    /\ clients' = clients \ {s}
    /\ Cast(Event("other", {}), "server", clients', casts, page)
    /\ UNCHANGED <<conn, callVars, restarted>>

\* The server dies and starts again; the pages keep what they know.
Restart ==
    /\ ~restarted
    /\ events <= RestartBy
    /\ restarted' = TRUE
    /\ seq' = 0
    /\ outbox' = <<>>
    /\ clients' = {}
    /\ casts' = {}
    /\ conn' = [s \in Sockets |-> Idle]
    /\ call' = [a \in Calls |-> IF call[a] = "new" THEN "new" ELSE "over"]
    /\ pending' = {}
    /\ answered' = {}
    /\ withdrawn' = {}
    /\ page' = HangUp(Sockets)
    /\ UNCHANGED events

Next ==
    \/ \E b \in casts : CastGoesOn(b) \/ CastEnds(b) \/ CastRaises(b) \/ TapRaises(b)
    \/ \E a \in Calls : HookHeld(a) \/ Popup(a) \/ TimesOut(a) \/ \E s \in Sockets : Tap(s, a)
    \/ Switch
    \/ OtherEvent
    \/ \E s \in Sockets :
          \/ Announce(s) \/ ReplayBegins(s) \/ ReplayGoesOn(s) \/ ReplayRefused(s)
          \/ Leave(s) \/ Reap(s) \/ \E p \in Pages : Connect(p, s)
    \/ \E p \in Pages : Drop(p)
    \/ Restart

Spec == Init /\ [][Next]_vars

-----------------------------------------------------------------------------
(* Properties *)

Connected(p) == page[p].sock \in clients

\* A page whose replay is over and that no event is on its way to.
AtRest(p) ==
    /\ Connected(p)
    /\ conn[page[p].sock].at # "replaying"
    /\ \A b \in casts : page[p].sock \notin b.todo

\* get_active_pending_approvals: "A client that reconnects has to find the
\* ones it missed."  While a hook call is held and unanswered, every page at
\* rest shows its approval, also one that missed broadcasts: across snapshots,
\* replays of older lists, lost connections and a restart.
HeldIsShown ==
    \A a \in Calls, p \in Pages :
        /\ call[a] = "held" /\ a \in pending
        /\ AtRest(p) /\ ~page[p].late
        => a \in page[p].view

\* What a page at rest shows waits for an answer, although the replay repeats
\* requests that the snapshot knew to be answered; except what the server took
\* back without a word, and except on a connection that missed an event.
ShownIsPending ==
    \A p \in Pages :
        AtRest(p) /\ ~page[p].late /\ ~page[p].missed =>
            page[p].view \subseteq pending \cup withdrawn
=============================================================================
