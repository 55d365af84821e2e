-------------------------- MODULE EventStreamProofs --------------------------
(***************************************************************************)
(* What a page at rest shows of the approvals, for every number of pages,  *)
(* connections, calls, events and broadcasts under way, and every outbox.  *)
(***************************************************************************)
EXTENDS EventStream, FiniteSetTheorems, WellFoundedInduction, TLAPS

-----------------------------------------------------------------------------
(* Types *)

StreamType ==
    /\ seq \in 0 .. MaxEvents
    /\ outbox \in Seq(Events) /\ Len(outbox) <= OutboxMax
    /\ events \in seq .. MaxEvents

ClientType == clients \in SUBSET Sockets /\ IsFiniteSet(clients)

CallType ==
    /\ call \in [Calls -> {"new", "casting", "held", "over"}]
    /\ pending \in SUBSET Calls
    /\ answered \in SUBSET Calls
    /\ withdrawn \in SUBSET Calls

\* A replay has sent an entry already.
Handlers == {k \in Conns : k.at = "replaying" => k.next >= 1}

Owners == Calls \cup Sockets \cup {"server"}

TypeInv ==
    /\ StreamType /\ ClientType /\ CallType
    /\ casts \in SUBSET Casts
    /\ conn \in [Sockets -> Handlers]
    /\ page \in [Pages -> PageStates]
    /\ restarted \in BOOLEAN

\* The numbers in the outbox are the last ones, without a gap.  A request is
\* broadcast by its own hook call.
SeqInv ==
    /\ \A i \in 1 .. Len(outbox) : outbox[i].seq = seq - Len(outbox) + i
    /\ \A b \in casts : /\ b.event.seq <= seq
                        /\ b.todo \subseteq b.known
                        /\ b.event.kind = "request" => b.event.ids = {b.owner}

\* The socket of a page that is up has a handler.
UpInv ==
    \A p \in Pages :
        page[p].sock \in Sockets => conn[page[p].sock].at \notin {"none", "lost"}

BaseInv == TypeInv /\ SeqInv /\ UpInv

LEMMA Sizes == /\ OutboxMax \in Nat /\ OutboxMax >= 1 /\ MaxEvents \in Nat /\ NoSocket \notin Sockets
BY SizesAssumption, SocketAssumption

LEMMA EventFields ==
    ASSUME NEW kind, NEW ids
    PROVE  /\ Event(kind, ids).seq = seq + 1
           /\ Event(kind, ids).kind = kind
           /\ Event(kind, ids).ids = ids
BY DEF Event

LEMMA EventType ==
    ASSUME StreamType, events < MaxEvents, NEW kind \in Kinds, NEW ids \in SUBSET Calls
    PROVE  Event(kind, ids) \in Events
<1>1. seq + 1 \in 1 .. MaxEvents
  BY Sizes DEF StreamType
<1>2. QED BY <1>1 DEF Event, Events

LEMMA EventIs ==
    ASSUME NEW e \in Events
    PROVE  e.seq \in 1 .. MaxEvents /\ e.seq \in Nat /\ e.kind \in Kinds /\ e.ids \in SUBSET Calls
BY Sizes DEF Events

LEMMA ShownType ==
    ASSUME NEW view \in SUBSET Calls, NEW e \in Events
    PROVE  Shown(view, e) \in SUBSET Calls
BY EventIs DEF Shown, Kinds

LEMMA PageFields ==
    ASSUME NEW pg \in PageStates
    PROVE  /\ pg.sock \in Sockets \cup {NoSocket} /\ pg.view \in SUBSET Calls
           /\ pg.last \in 0 .. MaxEvents /\ pg.heard \in 0 .. MaxEvents
           /\ pg.missed \in BOOLEAN /\ pg.late \in BOOLEAN
           /\ pg.last \in Nat /\ pg.heard \in Nat
BY Sizes DEF PageStates

LEMMA LargerType ==
    ASSUME NEW m \in 0 .. MaxEvents, NEW n \in 0 .. MaxEvents
    PROVE  Larger(m, n) \in 0 .. MaxEvents /\ Larger(m, n) >= m /\ Larger(m, n) >= n
BY Sizes DEF Larger

LEMMA ReceivedIs ==
    ASSUME NEW pg \in PageStates, NEW e \in Events
    PROVE  /\ Received(pg, e) \in PageStates
           /\ Received(pg, e).sock = pg.sock /\ Received(pg, e).view = Shown(pg.view, e)
           /\ Received(pg, e).heard = pg.heard /\ Received(pg, e).missed = pg.missed
           /\ Received(pg, e).late = pg.late
<1>1. pg.view \in SUBSET Calls /\ pg.last \in 0 .. MaxEvents /\ e.seq \in 0 .. MaxEvents
  BY PageFields, EventIs
<1>2. Shown(pg.view, e) \in SUBSET Calls
  BY <1>1, ShownType
<1>3. Larger(pg.last, e.seq) \in 0 .. MaxEvents
  BY <1>1, LargerType
<1>4. QED BY <1>2, <1>3 DEF Received, PageStates

LEMMA LiveIs ==
    ASSUME NEW pages \in [Pages -> PageStates], NEW s, NEW e \in Events, NEW joined \in BOOLEAN
    PROVE  /\ Live(pages, s, e, joined) \in [Pages -> PageStates]
           /\ \A p \in Pages :
                 /\ Live(pages, s, e, joined)[p].sock = pages[p].sock
                 /\ Live(pages, s, e, joined)[p].missed = pages[p].missed
                 /\ pages[p].sock # s => Live(pages, s, e, joined)[p] = pages[p]
                 /\ pages[p].sock = s =>
                      /\ Live(pages, s, e, joined)[p].view = Shown(pages[p].view, e)
                      /\ Live(pages, s, e, joined)[p].heard = Larger(pages[p].heard, e.seq)
                      /\ Live(pages, s, e, joined)[p].late <=>
                            pages[p].late \/ joined \/ e.seq < pages[p].heard
<1> DEFINE L == Live(pages, s, e, joined)
<1>1. ASSUME NEW p \in Pages, pages[p].sock # s
      PROVE  L[p] = pages[p] /\ pages[p] \in PageStates
  BY <1>1 DEF Live
<1>2. ASSUME NEW p \in Pages, pages[p].sock = s
      PROVE  /\ L[p] \in PageStates
             /\ L[p].sock = pages[p].sock /\ L[p].missed = pages[p].missed
             /\ L[p].view = Shown(pages[p].view, e)
             /\ L[p].heard = Larger(pages[p].heard, e.seq)
             /\ L[p].late = (pages[p].late \/ joined \/ e.seq < pages[p].heard)
  <2> DEFINE q == Received(pages[p], e)
             h == Larger(pages[p].heard, e.seq)
             l == (pages[p].late \/ joined \/ e.seq < pages[p].heard)
  <2>1. /\ q \in PageStates /\ q.sock = pages[p].sock /\ q.view = Shown(pages[p].view, e)
        /\ q.heard = pages[p].heard /\ q.missed = pages[p].missed /\ q.late = pages[p].late
    BY ReceivedIs
  <2>2. h \in 0 .. MaxEvents /\ l \in BOOLEAN
    BY PageFields, EventIs, LargerType
  <2>3. L[p] = [q EXCEPT !.heard = Larger(q.heard, e.seq),
                         !.late = q.late \/ joined \/ e.seq < pages[p].heard]
    BY <1>2 DEF Live
  <2>4. L[p] = [q EXCEPT !.heard = h, !.late = l]
    BY <2>1, <2>3
  <2> HIDE DEF q, h, l, L
  <2>5. /\ L[p] \in PageStates /\ L[p].sock = q.sock /\ L[p].missed = q.missed
        /\ L[p].view = q.view /\ L[p].heard = h /\ L[p].late = l
    BY <2>1, <2>2, <2>4 DEF PageStates
  <2>6. QED BY <2>1, <2>5 DEF h, l
<1>3. L \in [Pages -> PageStates]
  <2>1. \A p \in Pages : L[p] \in PageStates
    BY <1>1, <1>2
  <2>2. L = [p \in Pages |-> L[p]]
    BY DEF Live
  <2> HIDE DEF L
  <2>3. QED BY <2>1, <2>2
<1> HIDE DEF L
<1>4. QED BY <1>1, <1>2, <1>3 DEF L

LEMMA LiveType ==
    ASSUME NEW pages \in [Pages -> PageStates], NEW s, NEW e \in Events, NEW joined \in BOOLEAN
    PROVE  Live(pages, s, e, joined) \in [Pages -> PageStates]
BY LiveIs

LEMMA LivePage ==
    ASSUME NEW pages \in [Pages -> PageStates], NEW s, NEW e \in Events, NEW joined \in BOOLEAN,
           NEW p \in Pages
    PROVE  /\ Live(pages, s, e, joined)[p].sock = pages[p].sock
           /\ Live(pages, s, e, joined)[p].missed = pages[p].missed
           /\ pages[p].sock # s => Live(pages, s, e, joined)[p] = pages[p]
           /\ pages[p].sock = s =>
                 /\ Live(pages, s, e, joined)[p].view = Shown(pages[p].view, e)
                 /\ Live(pages, s, e, joined)[p].heard = Larger(pages[p].heard, e.seq)
                 /\ Live(pages, s, e, joined)[p].late <=>
                       pages[p].late \/ joined \/ e.seq < pages[p].heard
BY LiveIs

LEMMA MissedIs ==
    ASSUME NEW pages \in [Pages -> PageStates], NEW socks
    PROVE  /\ Missed(pages, socks) \in [Pages -> PageStates]
           /\ \A p \in Pages :
                 /\ Missed(pages, socks)[p].sock = pages[p].sock
                 /\ Missed(pages, socks)[p].view = pages[p].view
                 /\ Missed(pages, socks)[p].heard = pages[p].heard
                 /\ Missed(pages, socks)[p].late = pages[p].late
                 /\ Missed(pages, socks)[p].missed <=> pages[p].missed \/ pages[p].sock \in socks
BY DEF Missed, PageStates

LEMMA OvertakenIs ==
    ASSUME NEW pages \in [Pages -> PageStates], NEW socks
    PROVE  /\ Overtaken(pages, socks) \in [Pages -> PageStates]
           /\ \A p \in Pages :
                 /\ Overtaken(pages, socks)[p].sock = pages[p].sock
                 /\ Overtaken(pages, socks)[p].view = pages[p].view
                 /\ Overtaken(pages, socks)[p].heard = pages[p].heard
                 /\ Overtaken(pages, socks)[p].missed = pages[p].missed
                 /\ Overtaken(pages, socks)[p].late <=> pages[p].late \/ pages[p].sock \in socks
BY DEF Overtaken, PageStates

LEMMA HangUpIs ==
    ASSUME TypeInv, NEW socks
    PROVE  /\ HangUp(socks) \in [Pages -> PageStates]
           /\ \A p \in Pages : IF page[p].sock \in socks THEN HangUp(socks)[p].sock = NoSocket
                                                         ELSE HangUp(socks)[p] = page[p]
<1>1. ASSUME NEW p \in Pages
      PROVE  [Blank EXCEPT !.view = page[p].view, !.last = page[p].last] \in PageStates
  <2>1. page[p].view \in SUBSET Calls /\ page[p].last \in 0 .. MaxEvents
    BY PageFields DEF TypeInv
  <2>2. Blank \in PageStates
    BY Sizes DEF Blank, PageStates
  <2>3. QED BY <2>1, <2>2 DEF PageStates
<1>2. QED BY <1>1 DEF HangUp, TypeInv, Blank

LEMMA SnapshotIs ==
    ASSUME TypeInv, NEW pg \in PageStates
    PROVE  /\ Snapshot(pg) \in PageStates
           /\ Snapshot(pg).view = pending /\ Snapshot(pg).sock = pg.sock
           /\ Snapshot(pg).heard = pg.heard /\ Snapshot(pg).late = pg.late
           /\ Snapshot(pg).missed = pg.missed
<1>1. pending \in SUBSET Calls /\ Larger(pg.last, seq) \in 0 .. MaxEvents
  BY PageFields, LargerType DEF TypeInv, CallType, StreamType
<1>2. QED BY <1>1 DEF Snapshot, PageStates

-----------------------------------------------------------------------------
(* A broadcast begins *)

Fresh(e, i) == outbox'[i] = e \/ \E k \in 1 .. Len(outbox) : outbox'[i] = outbox[k]

LEMMA RecordedIs ==
    ASSUME StreamType, SeqInv, NEW e \in Events, e.seq = seq + 1, outbox' = Recorded(e), seq' = seq + 1
    PROVE  /\ outbox' \in Seq(Events) /\ Len(outbox') <= OutboxMax
           /\ \A i \in 1 .. Len(outbox') : outbox'[i].seq = seq' - Len(outbox') + i
           /\ \A i \in 1 .. Len(outbox') : Fresh(e, i)
           /\ Len(outbox) # OutboxMax =>
                 /\ Len(outbox') = Len(outbox) + 1
                 /\ \A i \in 1 .. Len(outbox) : outbox'[i] = outbox[i]
<1> DEFINE n == Len(outbox)
<1>1. outbox \in Seq(Events) /\ n \in Nat /\ n <= OutboxMax /\ seq \in Nat
  BY Sizes DEF StreamType
<1>2. \A i \in 1 .. n : outbox[i].seq = seq - n + i
  BY DEF SeqInv
<1>3. CASE n < OutboxMax
  <2>1. outbox' = Append(outbox, e)
    BY <1>3 DEF Recorded
  <2>2. /\ outbox' \in Seq(Events) /\ Len(outbox') = n + 1
        /\ \A i \in 1 .. n : outbox'[i] = outbox[i]
        /\ outbox'[n + 1] = e
    BY <1>1, <2>1
  <2>3. \A i \in 1 .. n + 1 : i \in 1 .. n \/ i = n + 1
    BY <1>1
  <2>4. ASSUME NEW i \in 1 .. n + 1 PROVE outbox'[i].seq = seq' - (n + 1) + i
    <3>1. CASE i \in 1 .. n
      BY <1>1, <1>2, <2>2, <3>1
    <3>2. CASE i = n + 1
      BY <1>1, <2>2, <3>2
    <3>3. QED BY <2>3, <3>1, <3>2
  <2>5. \A i \in 1 .. n + 1 : Fresh(e, i)
    BY <2>2, <2>3 DEF Fresh
  <2> HIDE DEF n
  <2>6. n + 1 <= OutboxMax
    BY <1>1, <1>3, Sizes
  <2>7. QED BY <2>2, <2>4, <2>5, <2>6 DEF n
<1>4. CASE n = OutboxMax
  <2> DEFINE t == Tail(outbox)
  <2>1. outbox' = Append(t, e)
    BY <1>4 DEF Recorded
  <2>2. /\ t \in Seq(Events) /\ Len(t) = n - 1 /\ n - 1 \in Nat
        /\ \A i \in 1 .. n - 1 : t[i] = outbox[i + 1]
    BY <1>1, <1>4, Sizes
  <2> HIDE DEF t
  <2>3. /\ outbox' \in Seq(Events) /\ Len(outbox') = n
        /\ \A i \in 1 .. n - 1 : outbox'[i] = outbox[i + 1]
        /\ outbox'[n] = e
    BY <1>1, <2>1, <2>2
  <2>4. \A i \in 1 .. n : i \in 1 .. n - 1 \/ i = n
    BY <1>1
  <2>5. \A i \in 1 .. n - 1 : i + 1 \in 1 .. n
    BY <1>1
  <2>6. ASSUME NEW i \in 1 .. n PROVE outbox'[i].seq = seq' - n + i
    <3>1. CASE i \in 1 .. n - 1
      BY <1>1, <1>2, <2>3, <2>5, <3>1
    <3>2. CASE i = n
      BY <1>1, <2>3, <3>2
    <3>3. QED BY <2>4, <3>1, <3>2
  <2>7. \A i \in 1 .. n : Fresh(e, i)
    BY <2>3, <2>4, <2>5 DEF Fresh
  <2>8. QED BY <1>1, <1>4, <2>3, <2>6, <2>7
<1>5. QED BY <1>1, <1>3, <1>4, Sizes

\* The broadcast that begins, as it waits for socket s.
NewCast(e, owner, members, s) ==
    [event |-> e, owner |-> owner, size |-> Cardinality(members),
     known |-> members, todo |-> members \ {s}, at |-> s]

\* The pages, of which those that are just replayed to may lose an entry.
Left(pages) ==
    IF Len(outbox) = OutboxMax
    THEN Overtaken(pages, {s \in Sockets : conn[s].at = "replaying"}) ELSE pages

LEMMA CastIs ==
    ASSUME NEW e, NEW owner, NEW members, NEW others, NEW pages, Cast(e, owner, members, others, pages)
    PROVE  /\ events < MaxEvents /\ events' = events + 1
           /\ seq' = e.seq /\ outbox' = Recorded(e)
           /\ \/ members = {} /\ casts' = others /\ page' = Left(pages)
              \/ \E s \in members : /\ casts' = others \cup {NewCast(e, owner, members, s)}
                                    /\ page' = Live(Left(pages), s, e, FALSE)
BY DEF Cast, NewCast, Left

SameSocks(pages) == \A p \in Pages : page'[p].sock = pages[p].sock

LEMMA CastBase ==
    ASSUME TypeInv, SeqInv,
           NEW kind \in Kinds, NEW ids \in SUBSET Calls, NEW owner \in Owners,
           kind = "request" => ids = {owner},
           ClientType', NEW others \in SUBSET casts, NEW pages \in [Pages -> PageStates],
           Cast(Event(kind, ids), owner, clients', others, pages)
    PROVE  /\ StreamType' /\ casts' \in SUBSET Casts /\ page' \in [Pages -> PageStates] /\ SeqInv'
           /\ seq' = seq + 1 /\ Event(kind, ids) \in Events
           /\ SameSocks(pages)
<1> DEFINE e == Event(kind, ids)
<1>1. PICK members \in SUBSET Sockets : members = clients' /\ IsFiniteSet(members)
  BY DEF ClientType
<1>2. Cast(e, owner, members, others, pages)
  BY <1>1
<1>3. e \in Events /\ e.seq = seq + 1 /\ e.kind = kind /\ e.ids = ids /\ seq' = seq + 1 /\ outbox' = Recorded(e)
      /\ events < MaxEvents /\ events' = events + 1
  <2>1. seq' = e.seq /\ outbox' = Recorded(e) /\ events < MaxEvents /\ events' = events + 1
    BY <1>2 DEF Cast
  <2>2. e \in Events
    BY <2>1, EventType DEF TypeInv
  <2>3. e.seq = seq + 1 /\ e.kind = kind /\ e.ids = ids
    BY EventFields
  <2>4. QED BY <2>1, <2>2, <2>3
<1> HIDE DEF e
<1>4. StreamType /\ seq \in Nat
  BY DEF TypeInv, StreamType
<1>5. /\ outbox' \in Seq(Events) /\ Len(outbox') <= OutboxMax
      /\ \A i \in 1 .. Len(outbox') : outbox'[i].seq = seq' - Len(outbox') + i
  BY <1>3, <1>4, RecordedIs
<1>6. StreamType'
  <2>1. seq' \in 0 .. MaxEvents /\ events' \in seq' .. MaxEvents
    BY <1>3, <1>4, Sizes DEF StreamType
  <2>2. QED BY <1>5, <2>1 DEF StreamType
<1>7. Left(pages) \in [Pages -> PageStates] /\ \A p \in Pages : Left(pages)[p].sock = pages[p].sock
  <2>1. CASE Len(outbox) = OutboxMax
    BY <2>1, OvertakenIs DEF Left
  <2>2. CASE Len(outbox) # OutboxMax
    BY <2>2 DEF Left
  <2>3. QED BY <2>1, <2>2
<1>8. ASSUME NEW s \in members
      PROVE  /\ NewCast(e, owner, members, s) \in Casts
             /\ NewCast(e, owner, members, s).event = e
             /\ NewCast(e, owner, members, s).owner = owner
             /\ NewCast(e, owner, members, s).todo \subseteq NewCast(e, owner, members, s).known
  <2>1. Cardinality(members) \in Nat
    BY <1>1, FS_CardinalityType
  <2>2. QED BY <1>3, <2>1 DEF NewCast, Casts, Owners
<1>9. \/ members = {} /\ casts' = others /\ page' = Left(pages)
      \/ \E s \in members : /\ casts' = others \cup {NewCast(e, owner, members, s)}
                            /\ page' = Live(Left(pages), s, e, FALSE)
  BY <1>2 DEF Cast, NewCast, Left
<1>10. /\ casts' \in SUBSET Casts
      /\ \A b \in casts' : /\ b.event.seq <= seq'
                           /\ b.todo \subseteq b.known
                           /\ b.event.kind = "request" => b.event.ids = {b.owner}
  <2>1. ASSUME NEW b \in others
        PROVE  /\ b \in Casts /\ b.event.seq <= seq' /\ b.todo \subseteq b.known
               /\ b.event.kind = "request" => b.event.ids = {b.owner}
    <3>1. b \in Casts /\ b.event.seq <= seq
      BY DEF TypeInv, SeqInv
    <3>2. b.event.seq \in Nat
      BY <3>1, EventIs DEF Casts
    <3>3. QED BY <1>3, <1>4, <3>1, <3>2 DEF SeqInv
  <2>2. ASSUME NEW s \in members, NEW b, b = NewCast(e, owner, members, s)
        PROVE  /\ b \in Casts /\ b.event.seq <= seq' /\ b.todo \subseteq b.known
               /\ b.event.kind = "request" => b.event.ids = {b.owner}
    BY <1>3, <1>4, <1>8, <2>2
  <2>3. QED BY <1>9, <2>1, <2>2
<1>11. page' \in [Pages -> PageStates] /\ \A p \in Pages : page'[p].sock = pages[p].sock
  <2>1. CASE page' = Left(pages)
    BY <1>7, <2>1
  <2>2. ASSUME NEW s \in members, page' = Live(Left(pages), s, e, FALSE)
        PROVE  page' \in [Pages -> PageStates] /\ \A p \in Pages : page'[p].sock = pages[p].sock
    <3> DEFINE l == Left(pages)
    <3> HIDE DEF l
    <3>1. l \in [Pages -> PageStates] /\ \A p \in Pages : l[p].sock = pages[p].sock
      BY <1>7 DEF l
    <3>2. PICK j \in BOOLEAN : j = FALSE
      OBVIOUS
    <3>3. /\ Live(l, s, e, j) \in [Pages -> PageStates]
          /\ \A p \in Pages : Live(l, s, e, j)[p].sock = l[p].sock
      <4>1. e \in Events /\ l \in [Pages -> PageStates]
        BY <1>3, <3>1
      <4>2. Live(l, s, e, j) \in [Pages -> PageStates]
        BY <4>1, LiveType
      <4>3. ASSUME NEW p \in Pages PROVE Live(l, s, e, j)[p].sock = l[p].sock
        BY <4>1, LivePage
      <4>4. QED BY <4>2, <4>3
    <3>4. QED BY <2>2, <3>1, <3>2, <3>3 DEF l
  <2>3. QED BY <1>9, <2>1, <2>2
<1>12. QED BY <1>3, <1>5, <1>6, <1>10, <1>11 DEF SeqInv, SameSocks, e

-----------------------------------------------------------------------------
(* What every step keeps of the types, the numbers and the handlers *)

States == {"none", "welcome", "announce", "reading", "busy", "lost"}

LEMMA ConnAt ==
    ASSUME TypeInv, NEW s \in Sockets, NEW x \in States
    PROVE  /\ [conn EXCEPT ![s].at = x] \in [Sockets -> Handlers]
           /\ [conn EXCEPT ![s].at = x][s].at = x
           /\ [conn EXCEPT ![s].at = x][s].since = conn[s].since
           /\ \A t \in Sockets : t # s => [conn EXCEPT ![s].at = x][t] = conn[t]
BY DEF TypeInv, Handlers, Conns, States

LEMMA ConnIs ==
    ASSUME TypeInv, NEW s \in Sockets, NEW k \in Handlers
    PROVE  /\ [conn EXCEPT ![s] = k] \in [Sockets -> Handlers]
           /\ [conn EXCEPT ![s] = k][s] = k
           /\ \A t \in Sockets : t # s => [conn EXCEPT ![s] = k][t] = conn[t]
BY DEF TypeInv

LEMMA IdleIs ==
    /\ Idle \in Handlers /\ Idle.at = "none"
    /\ \A x \in States, n \in Nat : /\ [Idle EXCEPT !.at = x] \in Handlers
                                    /\ [Idle EXCEPT !.at = x].at = x
                                    /\ [Idle EXCEPT !.at = x, !.since = n] \in Handlers
                                    /\ [Idle EXCEPT !.at = x, !.since = n].at = x
BY DEF Idle, Handlers, Conns, States

\* A step with a broadcast.
LEMMA CastKeepsBase ==
    ASSUME BaseInv,
           NEW kind \in Kinds, NEW ids \in SUBSET Calls, NEW owner \in Owners,
           kind = "request" => ids = {owner},
           NEW others \in SUBSET casts, NEW pages \in [Pages -> PageStates],
           Cast(Event(kind, ids), owner, clients', others, pages),
           ClientType', CallType', conn' \in [Sockets -> Handlers], restarted' = restarted,
           \A p \in Pages :
              pages[p].sock \in Sockets => conn'[pages[p].sock].at \notin {"none", "lost"}
    PROVE  BaseInv'
<1>1. clients' \in SUBSET Sockets /\ IsFiniteSet(clients') /\ TypeInv /\ SeqInv
  BY DEF ClientType, BaseInv
<1>2. /\ StreamType' /\ casts' \in SUBSET Casts /\ page' \in [Pages -> PageStates] /\ SeqInv'
      /\ \A p \in Pages : page'[p].sock = pages[p].sock
  <2>1. /\ StreamType' /\ casts' \in SUBSET Casts /\ page' \in [Pages -> PageStates] /\ SeqInv'
        /\ SameSocks(pages)
    BY <1>1, CastBase
  <2>2. QED BY <2>1 DEF SameSocks
<1>3. TypeInv'
  <2>1. conn' \in [Sockets -> Handlers] /\ restarted' \in BOOLEAN /\ ClientType' /\ CallType'
    BY <1>1 DEF TypeInv
  <2>2. QED BY <1>2, <2>1 DEF TypeInv
<1>4. UpInv'
  BY <1>2 DEF UpInv
<1>5. QED BY <1>2, <1>3, <1>4 DEF BaseInv

\* A step without one.
LEMMA OtherKeepsBase ==
    ASSUME BaseInv, UNCHANGED streamVars, casts' \in SUBSET casts,
           ClientType', CallType', conn' \in [Sockets -> Handlers], restarted' = restarted,
           page' \in [Pages -> PageStates], UpInv'
    PROVE  BaseInv'
<1>1. StreamType' /\ casts' \in SUBSET Casts
  BY DEF BaseInv, TypeInv, StreamType, streamVars
<1>2. TypeInv'
  BY <1>1 DEF BaseInv, TypeInv
<1>3. SeqInv'
  BY DEF BaseInv, SeqInv, streamVars
<1>4. QED BY <1>2, <1>3 DEF BaseInv

LEMMA Parts ==
    ASSUME BaseInv
    PROVE  /\ TypeInv /\ SeqInv /\ UpInv /\ StreamType /\ ClientType /\ CallType
           /\ casts \in SUBSET Casts /\ casts \in SUBSET casts
           /\ conn \in [Sockets -> Handlers] /\ page \in [Pages -> PageStates]
           /\ \A p \in Pages :
                 page[p].sock \in Sockets => conn[page[p].sock].at \notin {"none", "lost"}
           /\ {} \in SUBSET Calls /\ "server" \in Owners
           /\ {"request", "resolved", "switched", "other"} = Kinds
           /\ clients \in SUBSET Sockets /\ IsFiniteSet(clients)
BY DEF BaseInv, TypeInv, UpInv, Owners, Kinds, ClientType

LEMMA HookHeldBase ==
    ASSUME BaseInv, NEW a \in Calls, HookHeld(a)
    PROVE  BaseInv'
<1>1. /\ Cast(Event("request", {a}), a, clients', casts, page)
      /\ UNCHANGED <<clients, conn, answered, withdrawn, restarted>>
      /\ call' = [call EXCEPT ![a] = "casting"] /\ pending' = pending \cup {a}
  BY DEF HookHeld
<1>2. ClientType' /\ CallType'
  BY <1>1, Parts DEF ClientType, CallType
<1>3. a \in Owners /\ {a} \in SUBSET Calls /\ "request" \in Kinds
  BY DEF Owners, Kinds
<1>4. QED BY <1>1, <1>2, <1>3, Parts, CastKeepsBase

\* An answer, wherever it comes from.
LEMMA AnswerBase ==
    ASSUME BaseInv, NEW a \in Calls, NEW owner \in Owners, Answer(a, owner),
           conn' \in [Sockets -> Handlers],
           \A s \in Sockets : conn[s].at \notin {"none", "lost"} => conn'[s].at \notin {"none", "lost"}
    PROVE  BaseInv'
<1>1. /\ Cast(Event("resolved", {a}), owner, clients', casts, page)
      /\ UNCHANGED <<clients, withdrawn, restarted>>
      /\ call' = [call EXCEPT ![a] = IF @ = "held" THEN "over" ELSE @]
      /\ pending' = pending \ {a} /\ answered' = answered \cup {a}
  BY DEF Answer
<1>2. ClientType' /\ CallType'
  BY <1>1, Parts DEF ClientType, CallType
<1>3. {a} \in SUBSET Calls /\ "resolved" \in Kinds
  BY DEF Kinds
<1>4. QED BY <1>1, <1>2, <1>3, Parts, CastKeepsBase

LEMMA TapBase ==
    ASSUME BaseInv, NEW s \in Sockets, NEW a \in Calls, Tap(s, a)
    PROVE  BaseInv'
<1>1. /\ Answer(a, s)
      /\ conn' = [conn EXCEPT ![s].at = IF clients = {} THEN "reading" ELSE "busy"]
  BY DEF Tap
<1>2. PICK x \in States : x \notin {"none", "lost"} /\ conn' = [conn EXCEPT ![s].at = x]
  BY <1>1 DEF States
<1>3. /\ conn' \in [Sockets -> Handlers]
      /\ \A t \in Sockets : conn[t].at \notin {"none", "lost"} => conn'[t].at \notin {"none", "lost"}
  BY <1>2, Parts, ConnAt
<1>4. s \in Owners
  BY DEF Owners
<1>5. QED BY <1>1, <1>3, <1>4, AnswerBase

LEMMA PopupBase ==
    ASSUME BaseInv, NEW a \in Calls, Popup(a)
    PROVE  BaseInv'
<1>1. Answer(a, "server") /\ conn' = conn
  BY DEF Popup
<1>2. QED BY <1>1, Parts, AnswerBase

LEMMA TimesOutBase ==
    ASSUME BaseInv, NEW a \in Calls, TimesOut(a)
    PROVE  BaseInv'
<1>1. /\ UNCHANGED <<streamVars, clients, casts, conn, answered, page, restarted>>
      /\ call' = [call EXCEPT ![a] = "over"]
      /\ pending' = pending \ {a} /\ withdrawn' = withdrawn \cup {a}
  BY DEF TimesOut
<1>2. ClientType' /\ CallType' /\ UpInv'
  BY <1>1, Parts DEF ClientType, CallType, UpInv
<1>3. QED BY <1>1, <1>2, Parts, OtherKeepsBase

LEMMA SwitchBase ==
    ASSUME BaseInv, Switch \/ OtherEvent
    PROVE  BaseInv'
<1>1. UNCHANGED <<clients, conn, callVars, restarted>>
  BY DEF Switch, OtherEvent
<1>2. ClientType' /\ CallType'
  BY <1>1, Parts DEF ClientType, CallType, callVars
<1>3. CASE Switch
  <2>1. Cast(Event("switched", pending), "server", clients', casts, page)
    BY <1>1, <1>3 DEF Switch
  <2>2. pending \in SUBSET Calls /\ "switched" \in Kinds
    BY Parts DEF CallType, Kinds
  <2>3. QED BY <1>1, <1>2, <2>1, <2>2, Parts, CastKeepsBase
<1>4. CASE OtherEvent
  <2>1. Cast(Event("other", {}), "server", clients', casts, page)
    BY <1>1, <1>4 DEF OtherEvent
  <2>2. "other" \in Kinds
    BY DEF Kinds
  <2>3. QED BY <1>1, <1>2, <2>1, <2>2, Parts, CastKeepsBase
<1>5. QED BY <1>3, <1>4

LEMMA AnnounceBase ==
    ASSUME BaseInv, NEW s \in Sockets, Announce(s)
    PROVE  BaseInv'
<1>1. /\ Cast(Event("other", {}), s, clients', casts, page)
      /\ UNCHANGED <<clients, callVars, restarted>>
      /\ conn' = [conn EXCEPT ![s].at = IF clients = {} THEN "reading" ELSE "announce"]
  BY DEF Announce
<1>2. PICK x \in States : x \notin {"none", "lost"} /\ conn' = [conn EXCEPT ![s].at = x]
  BY <1>1 DEF States
<1>3. /\ conn' \in [Sockets -> Handlers]
      /\ \A p \in Pages :
            page[p].sock \in Sockets => conn'[page[p].sock].at \notin {"none", "lost"}
  BY <1>2, Parts, ConnAt
<1>4. ClientType' /\ CallType'
  BY <1>1, Parts DEF ClientType, CallType, callVars
<1>5. s \in Owners /\ "other" \in Kinds
  BY DEF Owners, Kinds
<1>6. QED BY <1>1, <1>3, <1>4, <1>5, Parts, CastKeepsBase

LEMMA FewerClients ==
    ASSUME BaseInv, NEW gone, clients' = clients \ gone
    PROVE  ClientType'
<1>1. IsFiniteSet(clients \ gone) /\ clients \ gone \in SUBSET Sockets
  BY Parts, FS_Subset
<1>2. QED BY <1>1 DEF ClientType

LEMMA LeaveBase ==
    ASSUME BaseInv, NEW s \in Sockets, Leave(s) \/ Reap(s)
    PROVE  BaseInv'
<1>1. /\ Cast(Event("other", {}), "server", clients', casts, page)
      /\ UNCHANGED <<callVars, restarted>> /\ clients' = clients \ {s}
      /\ conn' = conn \/ conn' = [conn EXCEPT ![s] = Idle]
      /\ ~Up(s)
  BY DEF Leave, Reap
<1>2. /\ conn' \in [Sockets -> Handlers]
      /\ \A p \in Pages :
            page[p].sock \in Sockets => conn'[page[p].sock].at \notin {"none", "lost"}
  <2>1. CASE conn' = conn
    BY <2>1, Parts
  <2>2. CASE conn' = [conn EXCEPT ![s] = Idle]
    <3>1. \A p \in Pages : page[p].sock # s
      BY <1>1 DEF Up
    <3>2. /\ conn' \in [Sockets -> Handlers]
          /\ \A t \in Sockets : t # s => conn'[t] = conn[t]
      BY <2>2, Parts, ConnIs, IdleIs
    <3>3. QED BY <3>1, <3>2, Parts
  <2>3. QED BY <1>1, <2>1, <2>2
<1>3. CallType' /\ ClientType'
  BY <1>1, Parts, FewerClients DEF CallType, callVars
<1>4. "other" \in Kinds
  BY DEF Kinds
<1>5. QED BY <1>1, <1>2, <1>3, <1>4, Parts, CastKeepsBase

LEMMA ConnectBase ==
    ASSUME BaseInv, NEW p \in Pages, NEW s \in Sockets, Connect(p, s)
    PROVE  BaseInv'
<1>1. /\ clients' = clients \cup {s}
      /\ conn' = [conn EXCEPT ![s] = [Idle EXCEPT !.at = "welcome", !.since = page[p].last]]
      /\ page' = [page EXCEPT ![p] = [Snapshot(@) EXCEPT !.sock = s]]
      /\ UNCHANGED <<streamVars, casts, callVars, restarted>>
  BY DEF Connect
<1>2. page[p] \in PageStates /\ page[p].last \in Nat /\ "welcome" \in States
  BY Parts, PageFields DEF States
<1>3. /\ conn' \in [Sockets -> Handlers] /\ conn'[s].at = "welcome"
      /\ \A t \in Sockets : t # s => conn'[t] = conn[t]
  <2>1. PICK k \in Handlers : k = [Idle EXCEPT !.at = "welcome", !.since = page[p].last] /\ k.at = "welcome"
    BY <1>2, IdleIs
  <2>2. QED BY <1>1, <2>1, Parts, ConnIs
<1>4. [Snapshot(page[p]) EXCEPT !.sock = s] \in PageStates /\ [Snapshot(page[p]) EXCEPT !.sock = s].sock = s
  <2>1. Snapshot(page[p]) \in PageStates
    BY <1>2, Parts, SnapshotIs
  <2>2. QED BY <2>1 DEF PageStates
<1>5. /\ page' \in [Pages -> PageStates]
      /\ page'[p].sock = s /\ \A q \in Pages : q # p => page'[q] = page[q]
  BY <1>1, <1>4, Parts
<1>6. UpInv'
  BY <1>3, <1>5, Parts DEF UpInv
<1>7. CallType' /\ ClientType'
  <2>1. IsFiniteSet(clients \cup {s}) /\ clients \cup {s} \in SUBSET Sockets
    BY Parts, FS_AddElement
  <2>2. QED BY <1>1, <2>1, Parts DEF CallType, ClientType, callVars
<1>8. QED BY <1>1, <1>3, <1>5, <1>6, <1>7, Parts, OtherKeepsBase

LEMMA DropBase ==
    ASSUME BaseInv, NEW p \in Pages, Drop(p)
    PROVE  BaseInv'
<1>1. /\ page' = HangUp({page[p].sock})
      /\ UNCHANGED <<streamVars, clients, casts, conn, callVars, restarted>>
  BY DEF Drop
<1>2. /\ page' \in [Pages -> PageStates]
      /\ \A q \in Pages : page'[q].sock = NoSocket \/ page'[q] = page[q]
  BY <1>1, Parts, HangUpIs
<1>3. UpInv' /\ ClientType' /\ CallType'
  BY <1>1, <1>2, Parts, Sizes DEF UpInv, ClientType, CallType, callVars
<1>4. QED BY <1>1, <1>2, <1>3, Parts, OtherKeepsBase

LEMMA RefusedBase ==
    ASSUME BaseInv, NEW s \in Sockets, ReplayRefused(s)
    PROVE  BaseInv'
<1>1. /\ conn' = [conn EXCEPT ![s].since = 0]
      /\ page' = [p \in Pages |-> IF page[p].sock = s THEN Snapshot(page[p]) ELSE page[p]]
      /\ UNCHANGED <<streamVars, clients, casts, callVars, restarted>>
  BY DEF ReplayRefused
<1>2. conn' \in [Sockets -> Handlers] /\ \A t \in Sockets : conn'[t].at = conn[t].at
  BY <1>1, Parts DEF Handlers, Conns
<1>3. page' \in [Pages -> PageStates] /\ \A p \in Pages : page'[p].sock = page[p].sock
  BY <1>1, Parts, SnapshotIs
<1>4. UpInv' /\ ClientType' /\ CallType'
  BY <1>1, <1>2, <1>3, Parts DEF UpInv, ClientType, CallType, callVars
<1>5. QED BY <1>1, <1>2, <1>3, <1>4, Parts, OtherKeepsBase

LEMMA CastGoesOnBase ==
    ASSUME BaseInv, NEW b \in casts, CastGoesOn(b)
    PROVE  BaseInv'
<1>1. UNCHANGED <<seq, outbox, events, clients, conn, callVars, restarted>>
  BY DEF CastGoesOn, streamVars
<1>2. b \in Casts /\ b.event \in Events /\ b.known \in SUBSET Sockets /\ b.todo \in SUBSET Sockets
  BY Parts DEF Casts
<1>3. PICK s \in (clients \cap b.todo) \cup (clients \ b.known) :
         /\ casts' = (casts \ {b}) \cup {[b EXCEPT !.known = @ \cup {s}, !.todo = @ \ {s}, !.at = s]}
         /\ page' = Live(page, s, b.event, s \notin b.known)
  BY DEF CastGoesOn
<1>4. s \in Sockets
  BY Parts
<1> DEFINE c == [b EXCEPT !.known = @ \cup {s}, !.todo = @ \ {s}, !.at = s]
<1>5. /\ c \in Casts /\ c.event = b.event /\ c.owner = b.owner
      /\ c.todo = b.todo \ {s} /\ c.known = b.known \cup {s}
  BY <1>2, <1>4 DEF Casts
<1>6. page' \in [Pages -> PageStates] /\ \A p \in Pages : page'[p].sock = page[p].sock
  <2>1. PICK j \in BOOLEAN : page' = Live(page, s, b.event, j)
    BY <1>3
  <2>2. page' \in [Pages -> PageStates]
    BY <1>2, <2>1, Parts, LiveType
  <2>3. ASSUME NEW p \in Pages PROVE page'[p].sock = page[p].sock
    BY <1>2, <2>1, Parts, LivePage
  <2>4. QED BY <2>2, <2>3
<1> HIDE DEF c
<1>7. casts' \in SUBSET Casts
  BY <1>3, <1>5, Parts DEF c
<1>8. TypeInv'
  <2>1. StreamType' /\ ClientType' /\ CallType'
    BY <1>1, Parts DEF StreamType, ClientType, CallType, callVars
  <2>2. QED BY <1>1, <1>6, <1>7, <2>1 DEF TypeInv, BaseInv
<1>9. SeqInv'
  <2>1. ASSUME NEW d \in casts'
        PROVE  /\ d.event.seq <= seq /\ d.todo \subseteq d.known
               /\ d.event.kind = "request" => d.event.ids = {d.owner}
    <3>1. CASE d \in casts
      BY <3>1, Parts DEF SeqInv
    <3>2. CASE d = c
      BY <1>5, <3>2, Parts DEF SeqInv
    <3>3. QED BY <1>3, <3>1, <3>2 DEF c
  <2>2. QED BY <1>1, <2>1, Parts DEF SeqInv
<1>10. UpInv'
  BY <1>1, <1>6, Parts DEF UpInv
<1>11. QED BY <1>8, <1>9, <1>10 DEF BaseInv

\* The code behind a broadcast goes on.
LEMMA ContinueIs ==
    ASSUME BaseInv, NEW b \in casts, Continue(b)
    PROVE  /\ CallType' /\ conn' \in [Sockets -> Handlers]
           /\ conn' = conn \/ (b.owner \in Sockets /\ conn' = [conn EXCEPT ![b.owner].at = "reading"])
<1>1. CASE b.owner \in Calls
  <2> DEFINE alone == clients' = {}
             a == b.owner
  <2>1. /\ call' = [call EXCEPT ![a] = IF alone \/ a \notin pending THEN "over" ELSE "held"]
        /\ pending' = IF alone THEN pending \ {a} ELSE pending
        /\ answered' = IF alone THEN answered \ {a} ELSE answered
        /\ withdrawn' = IF alone THEN withdrawn \cup ({a} \cap pending) ELSE withdrawn
        /\ conn' = conn
    BY <1>1 DEF Continue
  <2>2. /\ call \in [Calls -> {"new", "casting", "held", "over"}] /\ a \in Calls
        /\ pending \in SUBSET Calls /\ answered \in SUBSET Calls /\ withdrawn \in SUBSET Calls
    BY <1>1, Parts DEF CallType
  <2>3. PICK x \in {"held", "over"} : call' = [call EXCEPT ![a] = x]
    BY <2>1
  <2> HIDE DEF alone, a
  <2>4. call' \in [Calls -> {"new", "casting", "held", "over"}]
    BY <2>2, <2>3
  <2>5. pending' \in SUBSET Calls /\ answered' \in SUBSET Calls /\ withdrawn' \in SUBSET Calls
    BY <2>1, <2>2
  <2>6. CallType'
    BY <2>4, <2>5 DEF CallType
  <2>7. QED BY <2>1, <2>6, Parts
<1>2. CASE b.owner \notin Calls
  <2>1. /\ conn' = IF b.owner \in Sockets THEN [conn EXCEPT ![b.owner].at = "reading"] ELSE conn
        /\ UNCHANGED callVars
    BY <1>2 DEF Continue
  <2>2. CallType'
    BY <2>1, Parts DEF CallType, callVars
  <2>3. PICK x \in States : x = "reading"
    BY DEF States
  <2>4. CASE b.owner \in Sockets
    <3>1. PICK s \in Sockets : s = b.owner
      BY <2>4
    <3>2. conn' = [conn EXCEPT ![s].at = x]
      BY <2>1, <2>3, <2>4, <3>1
    <3>3. [conn EXCEPT ![s].at = x] \in [Sockets -> Handlers]
      BY Parts, ConnAt
    <3>4. QED BY <2>1, <2>2, <2>4, <3>2, <3>3
  <2>5. CASE b.owner \notin Sockets
    BY <2>1, <2>2, <2>5, Parts
  <2>6. QED BY <2>4, <2>5
<1>3. QED BY <1>1, <1>2

LEMMA CastEndsBase ==
    ASSUME BaseInv, NEW b \in casts, CastEnds(b)
    PROVE  BaseInv'
<1>1. /\ casts' = casts \ {b} /\ Continue(b)
      /\ UNCHANGED <<streamVars, page, restarted>>
      /\ \E failed : clients' = clients \ failed
  BY DEF CastEnds
<1>2. /\ CallType' /\ conn' \in [Sockets -> Handlers]
      /\ conn' = conn \/ (b.owner \in Sockets /\ conn' = [conn EXCEPT ![b.owner].at = "reading"])
  BY <1>1, ContinueIs
<1>3. "reading" \in States
  BY DEF States
<1>4. \A s \in Sockets : conn[s].at \notin {"none", "lost"} => conn'[s].at \notin {"none", "lost"}
  <2>1. CASE b.owner \in Sockets /\ conn' = [conn EXCEPT ![b.owner].at = "reading"]
    <3>1. PICK o \in Sockets, x \in States : conn' = [conn EXCEPT ![o].at = x] /\ x = "reading"
      BY <1>3, <2>1
    <3>2. QED BY <3>1, Parts, ConnAt
  <2>2. QED BY <1>2, <2>1
<1>5. UpInv' /\ ClientType'
  BY <1>1, <1>4, Parts, FewerClients DEF UpInv
<1>6. QED BY <1>1, <1>2, <1>5, Parts, OtherKeepsBase

\* A page whose socket is not the owner of the broadcast that raised keeps it.
LEMMA MissedHangUpIs ==
    ASSUME BaseInv, NEW gone, NEW socks
    PROVE  /\ Missed(HangUp(gone), socks) \in [Pages -> PageStates]
           /\ \A p \in Pages :
                 IF page[p].sock \in gone THEN Missed(HangUp(gone), socks)[p].sock = NoSocket
                 ELSE /\ Missed(HangUp(gone), socks)[p].sock = page[p].sock
                      /\ Missed(HangUp(gone), socks)[p].view = page[p].view
                      /\ Missed(HangUp(gone), socks)[p].heard = page[p].heard
                      /\ Missed(HangUp(gone), socks)[p].late = page[p].late
                      /\ Missed(HangUp(gone), socks)[p].missed <=> page[p].missed \/ page[p].sock \in socks
<1> DEFINE h == HangUp(gone)
<1>1. /\ h \in [Pages -> PageStates]
      /\ \A p \in Pages : IF page[p].sock \in gone THEN h[p].sock = NoSocket ELSE h[p] = page[p]
  BY Parts, HangUpIs
<1> HIDE DEF h
<1>2. /\ Missed(h, socks) \in [Pages -> PageStates]
      /\ \A p \in Pages :
            /\ Missed(h, socks)[p].sock = h[p].sock
            /\ Missed(h, socks)[p].view = h[p].view
            /\ Missed(h, socks)[p].heard = h[p].heard
            /\ Missed(h, socks)[p].late = h[p].late
            /\ Missed(h, socks)[p].missed <=> h[p].missed \/ h[p].sock \in socks
  BY <1>1, MissedIs
<1>3. QED BY <1>1, <1>2 DEF h

LEMMA CastRaisesBase ==
    ASSUME BaseInv, NEW b \in casts, CastRaises(b)
    PROVE  BaseInv'
<1>1. /\ casts' = casts \ {b}
      /\ call' = IF b.owner \in Calls THEN [call EXCEPT ![b.owner] = "over"] ELSE call
      /\ conn' = IF b.owner \in Sockets THEN [conn EXCEPT ![b.owner].at = "lost"] ELSE conn
      /\ page' = Missed(HangUp({b.owner} \cap Sockets), b.todo)
      /\ UNCHANGED <<streamVars, clients, pending, answered, withdrawn, restarted>>
  BY DEF CastRaises
<1>2. ClientType' /\ CallType'
  BY <1>1, Parts DEF ClientType, CallType
<1>3. /\ conn' \in [Sockets -> Handlers]
      /\ \A s \in Sockets : s # b.owner => conn'[s] = conn[s]
  <2>1. "lost" \in States
    BY DEF States
  <2>2. QED BY <1>1, <2>1, Parts, ConnAt
<1>4. /\ page' \in [Pages -> PageStates]
      /\ \A p \in Pages : IF page[p].sock \in {b.owner} \cap Sockets THEN page'[p].sock = NoSocket
                                                                     ELSE page'[p].sock = page[p].sock
  BY <1>1, MissedHangUpIs
<1>5. UpInv'
  BY <1>3, <1>4, Parts, Sizes DEF UpInv
<1>6. QED BY <1>1, <1>2, <1>3, <1>4, <1>5, Parts, OtherKeepsBase

LEMMA TapRaisesBase ==
    ASSUME BaseInv, NEW b \in casts, TapRaises(b)
    PROVE  BaseInv'
<1>1. /\ b.owner \in Sockets /\ clients' = clients \ {b.owner}
      /\ conn' = [conn EXCEPT ![b.owner] = Idle]
      /\ UNCHANGED <<callVars, restarted>>
  BY DEF TapRaises
<1>2. /\ conn' \in [Sockets -> Handlers]
      /\ \A s \in Sockets : s # b.owner => conn'[s] = conn[s]
  BY <1>1, Parts, ConnIs, IdleIs
<1>3. PICK pages : pages = Missed(HangUp({b.owner}), b.todo)
  OBVIOUS
<1>4. /\ pages \in [Pages -> PageStates]
      /\ \A p \in Pages : IF page[p].sock \in {b.owner} THEN pages[p].sock = NoSocket
                                                        ELSE pages[p].sock = page[p].sock
  BY <1>3, MissedHangUpIs
<1>5. \A p \in Pages : pages[p].sock \in Sockets => conn'[pages[p].sock].at \notin {"none", "lost"}
  BY <1>2, <1>4, Parts, Sizes
<1>6. PICK others \in SUBSET casts : others = casts \ {b}
  OBVIOUS
<1>7. Cast(Event("other", {}), "server", clients', others, pages)
  BY <1>3, <1>6 DEF TapRaises
<1>8. CallType' /\ ClientType' /\ "other" \in Kinds
  BY <1>1, Parts, FewerClients DEF CallType, callVars, Kinds
<1>9. QED BY <1>1, <1>2, <1>4, <1>5, <1>7, <1>8, Parts, CastKeepsBase

-----------------------------------------------------------------------------
(* The next entry of a replay *)

\* A set of numbers has a least element, by the well-foundedness of strict
\* inclusion among the finite sets 1 .. m.
LEMMA Least ==
    ASSUME NEW n \in Nat, NEW B \in SUBSET (0 .. n), B # {}
    PROVE  \E m \in B : \A k \in B : m <= k
<1> DEFINE S == 1 .. n
           T == {1 .. m : m \in B}
<1>1. IsFiniteSet(S)
  BY FS_Interval
<1>2. IsWellFoundedOn(StrictSubsetOrdering(S), SUBSET S)
  BY <1>1, FS_StrictSubsetOrderingWellFounded, FS_FiniteSubsetsOfFinite
<1>3. \A m \in B : (1 .. m) \in SUBSET S
  OBVIOUS
<1>4. T \subseteq SUBSET S /\ T # {}
  BY <1>3
<1>5. PICK x \in T : \A y \in T : ~ (<<y, x>> \in StrictSubsetOrdering(S))
  <2> HIDE DEF S, T
  <2>1. QED BY <1>2, <1>4, WFMin
<1>6. PICK m \in B : x = 1 .. m
  OBVIOUS
<1>7. ASSUME NEW k \in B, k < m PROVE FALSE
  <2>1. (1 .. k) \in T
    OBVIOUS
  <2>2. (1 .. k) \subseteq (1 .. m) /\ (1 .. k) # (1 .. m)
    <3>1. m \in 1 .. m /\ m \notin 1 .. k
      BY <1>7
    <3>2. QED BY <3>1, <1>7
  <2>3. <<1 .. k, 1 .. m>> \in StrictSubsetOrdering(S)
    BY <1>4, <1>6, <2>1, <2>2 DEF StrictSubsetOrdering
  <2>4. QED BY <1>5, <1>6, <2>1, <2>3
<1>8. QED BY <1>7

LEMMA MinIs ==
    ASSUME NEW n \in Nat, NEW B \in SUBSET (0 .. n), B # {}
    PROVE  Min(B) \in B /\ \A k \in B : Min(B) <= k
<1>1. PICK m \in B : \A k \in B : m <= k
  BY Least
<1>2. QED BY <1>1 DEF Min

Due(s, i, j) == j \in i .. Len(outbox) /\ outbox[j].seq > conn[s].since

\* Nothing is due and the replay ends, or the first entry that is due is sent.
Sends(s, j) ==
    /\ conn'[s].at = "replaying" /\ conn'[s].since = conn[s].since /\ conn'[s].next = j + 1
    /\ page' = [p \in Pages |-> IF page[p].sock = s THEN Received(page[p], outbox[j]) ELSE page[p]]

LEMMA ReplayIs ==
    ASSUME BaseInv, NEW s \in Sockets, NEW i \in Nat, i >= 1, ReplayFrom(s, i)
    PROVE  /\ conn' \in [Sockets -> Handlers]
           /\ \A t \in Sockets : t # s => conn'[t] = conn[t]
           /\ \/ /\ \A j : ~Due(s, i, j)
                 /\ conn'[s].at = "reading" /\ page' = page
              \/ \E j \in i .. Len(outbox) :
                    Due(s, i, j) /\ (\A k : Due(s, i, k) => j <= k) /\ Sends(s, j)
<1> DEFINE due == {j \in i .. Len(outbox) : outbox[j].seq > conn[s].since}
<1>1. IF due = {}
      THEN conn' = [conn EXCEPT ![s] = [Idle EXCEPT !.at = "reading"]] /\ page' = page
      ELSE /\ conn' = [conn EXCEPT ![s].at = "replaying", ![s].next = Min(due) + 1]
           /\ page' = [p \in Pages |-> IF page[p].sock = s THEN Received(page[p], outbox[Min(due)])
                                                           ELSE page[p]]
  BY DEF ReplayFrom
<1>2. \A j : j \in due <=> Due(s, i, j)
  BY DEF Due
<1>3. Len(outbox) \in Nat /\ due \in SUBSET (0 .. Len(outbox))
  BY Parts DEF StreamType
<1> HIDE DEF due
<1>4. CASE due = {}
  <2>1. "reading" \in States
    BY DEF States
  <2>2. /\ conn' \in [Sockets -> Handlers] /\ conn'[s].at = "reading"
        /\ \A t \in Sockets : t # s => conn'[t] = conn[t]
    <3>1. PICK k \in Handlers : k = [Idle EXCEPT !.at = "reading"] /\ k.at = "reading"
      BY <2>1, IdleIs
    <3>2. conn' = [conn EXCEPT ![s] = k]
      BY <1>1, <1>4, <3>1
    <3>3. /\ [conn EXCEPT ![s] = k] \in [Sockets -> Handlers]
          /\ [conn EXCEPT ![s] = k][s] = k
          /\ \A t \in Sockets : t # s => [conn EXCEPT ![s] = k][t] = conn[t]
      BY Parts, ConnIs
    <3>4. QED BY <3>1, <3>2, <3>3
  <2>3. QED BY <1>1, <1>2, <1>4, <2>2
<1>5. CASE due # {}
  <2>1. PICK j \in due : j = Min(due) /\ \A k \in due : j <= k
    BY <1>3, <1>5, MinIs
  <2>2. j \in i .. Len(outbox) /\ j \in Nat
    BY <1>2, <1>3, <2>1 DEF Due
  <2>3. /\ conn' = [conn EXCEPT ![s].at = "replaying", ![s].next = j + 1]
        /\ page' = [p \in Pages |-> IF page[p].sock = s THEN Received(page[p], outbox[j]) ELSE page[p]]
    BY <1>1, <1>5, <2>1
  <2>4. /\ conn' \in [Sockets -> Handlers]
        /\ conn'[s].at = "replaying" /\ conn'[s].since = conn[s].since /\ conn'[s].next = j + 1
        /\ \A t \in Sockets : t # s => conn'[t] = conn[t]
    <3> DEFINE k == [conn[s] EXCEPT !.at = "replaying", !.next = j + 1]
    <3>1. conn \in [Sockets -> Handlers] /\ conn[s] \in Conns
      BY Parts DEF Handlers
    <3>2. /\ k.at = "replaying" /\ k.since = conn[s].since /\ k.next = j + 1
          /\ k \in Conns
      <4>1. PICK c \in Conns : c = conn[s]
        BY <3>1
      <4>2. PICK n \in Nat : n = j + 1
        BY <2>2
      <4>3. /\ [c EXCEPT !.at = "replaying", !.next = n] \in Conns
            /\ [c EXCEPT !.at = "replaying", !.next = n].at = "replaying"
            /\ [c EXCEPT !.at = "replaying", !.next = n].since = c.since
            /\ [c EXCEPT !.at = "replaying", !.next = n].next = n
        BY DEF Conns
      <4>4. QED BY <4>1, <4>2, <4>3
    <3> HIDE DEF k
    <3>3. k \in Handlers
      BY <2>2, <3>2 DEF Handlers
    <3>4. conn' = [conn EXCEPT ![s] = k]
      BY <2>3, <3>1 DEF Conns, k
    <3>5. QED BY <3>1, <3>2, <3>3, <3>4
  <2>5. Sends(s, j)
    BY <2>3, <2>4 DEF Sends
  <2>6. QED BY <1>2, <2>1, <2>2, <2>4, <2>5
<1>6. QED BY <1>4, <1>5

Replays(s, i) ==
    /\ ReplayFrom(s, i)
    /\ \/ conn[s].at = "reading" /\ i = 1
       \/ conn[s].at = "replaying" /\ i = conn[s].next
    /\ UNCHANGED <<streamVars, clients, casts, callVars, restarted>>

LEMMA ReplaySteps ==
    ASSUME BaseInv, NEW s \in Sockets, ReplayBegins(s) \/ ReplayGoesOn(s)
    PROVE  \E i \in Nat : i >= 1 /\ Replays(s, i)
<1>1. conn[s].at = "replaying" => conn[s].next \in Nat /\ conn[s].next >= 1
  BY Parts DEF Handlers, Conns
<1>2. QED BY <1>1 DEF ReplayBegins, ReplayGoesOn, Replays

LEMMA ReplayBase ==
    ASSUME BaseInv, NEW s \in Sockets, NEW i \in Nat, i >= 1, Replays(s, i)
    PROVE  BaseInv'
<1>1. UNCHANGED <<streamVars, clients, casts, callVars, restarted>>
  BY DEF Replays
<1>2. /\ conn' \in [Sockets -> Handlers]
      /\ \A t \in Sockets : t # s => conn'[t] = conn[t]
      /\ conn'[s].at \in {"reading", "replaying"}
      /\ page' = page \/ \E j \in i .. Len(outbox) : Sends(s, j)
  BY ReplayIs DEF Replays, Sends
<1>3. page' \in [Pages -> PageStates] /\ \A p \in Pages : page'[p].sock = page[p].sock
  <2>1. CASE page' = page
    BY <2>1, Parts
  <2>2. ASSUME NEW j \in i .. Len(outbox), Sends(s, j)
        PROVE  page' \in [Pages -> PageStates] /\ \A p \in Pages : page'[p].sock = page[p].sock
    <3>1. outbox[j] \in Events
      <4>1. j \in 1 .. Len(outbox)
        OBVIOUS
      <4>2. QED BY <4>1, Parts DEF StreamType
    <3>2. ASSUME NEW p \in Pages
          PROVE  Received(page[p], outbox[j]) \in PageStates /\ Received(page[p], outbox[j]).sock = page[p].sock
      BY <3>1, Parts, ReceivedIs
    <3>3. QED BY <2>2, <3>2, Parts DEF Sends
  <2>3. QED BY <1>2, <2>1, <2>2
<1>4. UpInv' /\ ClientType' /\ CallType'
  BY <1>1, <1>2, <1>3, Parts DEF UpInv, ClientType, CallType, callVars
<1>5. QED BY <1>1, <1>2, <1>3, <1>4, Parts, OtherKeepsBase

LEMMA RestartBase ==
    ASSUME BaseInv, Restart
    PROVE  BaseInv'
<1>1. /\ restarted' = TRUE /\ seq' = 0 /\ outbox' = <<>> /\ clients' = {} /\ casts' = {}
      /\ conn' = [s \in Sockets |-> Idle]
      /\ call' = [a \in Calls |-> IF call[a] = "new" THEN "new" ELSE "over"]
      /\ pending' = {} /\ answered' = {} /\ withdrawn' = {}
      /\ page' = HangUp(Sockets) /\ events' = events
  BY DEF Restart
<1>2. /\ page' \in [Pages -> PageStates]
      /\ \A p \in Pages : page'[p].sock = NoSocket
  <2>1. \A p \in Pages : page[p].sock \in Sockets \/ page[p].sock = NoSocket
    BY Parts, PageFields
  <2>2. QED BY <1>1, <2>1, Parts, HangUpIs
<1>3. StreamType' /\ ClientType' /\ CallType'
  <2>1. IsFiniteSet({})
    BY FS_EmptySet
  <2>2. events \in 0 .. MaxEvents /\ 0 <= OutboxMax
    BY Parts, Sizes DEF StreamType
  <2>3. QED BY <1>1, <2>1, <2>2, Parts, Sizes DEF StreamType, ClientType, CallType
<1>4. conn' \in [Sockets -> Handlers]
  BY <1>1, IdleIs
<1>5. TypeInv'
  BY <1>1, <1>2, <1>3, <1>4 DEF TypeInv
<1>6. SeqInv' /\ UpInv'
  BY <1>1, <1>2, Sizes DEF SeqInv, UpInv
<1>7. QED BY <1>5, <1>6 DEF BaseInv

LEMMA InitBase == Init => BaseInv
<1> SUFFICES ASSUME Init PROVE BaseInv
  OBVIOUS
<1>1. Blank \in PageStates /\ Blank.sock = NoSocket
  BY Sizes DEF Blank, PageStates
<1>2. IsFiniteSet({})
  BY FS_EmptySet
<1>3. TypeInv
  <2>1. StreamType
    BY Sizes DEF Init, StreamType
  <2>2. ClientType /\ CallType
    BY <1>2 DEF Init, ClientType, CallType
  <2>3. conn \in [Sockets -> Handlers] /\ page \in [Pages -> PageStates]
    BY <1>1, IdleIs DEF Init
  <2>4. QED BY <2>1, <2>2, <2>3 DEF Init, TypeInv
<1>4. SeqInv /\ UpInv
  BY <1>1, Sizes DEF Init, SeqInv, UpInv
<1>5. QED BY <1>3, <1>4 DEF BaseInv

LEMMA StutterBase ==
    ASSUME BaseInv, UNCHANGED vars
    PROVE  BaseInv'
<1>1. UNCHANGED <<streamVars, clients, casts, conn, callVars, page, restarted>>
  BY DEF vars
<1>2. UpInv' /\ ClientType' /\ CallType'
  BY <1>1, Parts DEF UpInv, ClientType, CallType, callVars
<1>3. QED BY <1>1, <1>2, Parts, OtherKeepsBase

LEMMA BaseNext == BaseInv /\ [Next]_vars => BaseInv'
<1> SUFFICES ASSUME BaseInv, [Next]_vars PROVE BaseInv'
  OBVIOUS
<1>1. ASSUME NEW b \in casts, CastGoesOn(b) \/ CastEnds(b) \/ CastRaises(b) \/ TapRaises(b)
      PROVE  BaseInv'
  BY <1>1, CastGoesOnBase, CastEndsBase, CastRaisesBase, TapRaisesBase
<1>2. ASSUME NEW a \in Calls, HookHeld(a) \/ Popup(a) \/ TimesOut(a) \/ \E s \in Sockets : Tap(s, a)
      PROVE  BaseInv'
  BY <1>2, HookHeldBase, PopupBase, TimesOutBase, TapBase
<1>3. CASE Switch \/ OtherEvent
  BY <1>3, SwitchBase
<1>4. ASSUME NEW s \in Sockets, Announce(s) \/ ReplayRefused(s) \/ Leave(s) \/ Reap(s)
      PROVE  BaseInv'
  BY <1>4, AnnounceBase, RefusedBase, LeaveBase
<1>5. ASSUME NEW s \in Sockets, ReplayBegins(s) \/ ReplayGoesOn(s)
      PROVE  BaseInv'
  BY <1>5, ReplaySteps, ReplayBase
<1>6. ASSUME NEW s \in Sockets, NEW p \in Pages, Connect(p, s)
      PROVE  BaseInv'
  BY <1>6, ConnectBase
<1>7. ASSUME NEW p \in Pages, Drop(p)
      PROVE  BaseInv'
  BY <1>7, DropBase
<1>8. CASE Restart
  BY <1>8, RestartBase
<1>9. CASE UNCHANGED vars
  BY <1>9, StutterBase
<1>10. QED BY <1>1, <1>2, <1>3, <1>4, <1>5, <1>6, <1>7, <1>8, <1>9 DEF Next

-----------------------------------------------------------------------------
(* Whose code waits for a broadcast *)

\* A hook call, or a handler, waits for one broadcast at a time, and does
\* nothing else meanwhile.
Waits(b) ==
    /\ b.owner \in Calls => call[b.owner] = "casting"
    /\ b.owner \in Sockets => conn[b.owner].at \in {"busy", "announce"}

OwnerInv ==
    /\ \A b \in casts : Waits(b)
    /\ \A b, c \in casts : b.owner = c.owner /\ b.owner # "server" => b = c

LEMMA CastOwner ==
    ASSUME OwnerInv, NEW e, NEW owner, NEW others \in SUBSET casts, NEW pages,
           Cast(e, owner, clients', others, pages),
           \A b \in others : Waits(b)' /\ (b.owner = owner => owner = "server"),
           clients' # {} => /\ owner \in Calls => call'[owner] = "casting"
                            /\ owner \in Sockets => conn'[owner].at \in {"busy", "announce"}
    PROVE  OwnerInv'
<1>1. PICK members : members = clients'
  OBVIOUS
<1>2. Cast(e, owner, members, others, pages)
  BY <1>1
<1>3. \/ casts' = others
      \/ \E s \in members : casts' = others \cup {NewCast(e, owner, members, s)}
  BY <1>2 DEF Cast, NewCast
<1>4. CASE casts' = others
  BY <1>4 DEF OwnerInv
<1>5. ASSUME NEW s \in members, casts' = others \cup {NewCast(e, owner, members, s)}
      PROVE  OwnerInv'
  <2> DEFINE n == NewCast(e, owner, members, s)
  <2>1. n.owner = owner
    BY DEF NewCast
  <2> HIDE DEF n
  <2>2. /\ owner \in Calls => call'[owner] = "casting"
        /\ owner \in Sockets => conn'[owner].at \in {"busy", "announce"}
    BY <1>1
  <2>3. \A b \in casts' : b \in others \/ b = n
    BY <1>5 DEF n
  <2>4. \A b \in casts' : Waits(b)'
    BY <2>1, <2>2, <2>3 DEF Waits
  <2>5. ASSUME NEW b \in casts', NEW c \in casts', b.owner = c.owner, b.owner # "server"
        PROVE  b = c
    BY <2>1, <2>3, <2>5 DEF OwnerInv
  <2>6. QED BY <2>4, <2>5 DEF OwnerInv
<1>6. QED BY <1>3, <1>4, <1>5

LEMMA OwnerKept ==
    ASSUME OwnerInv, casts' \in SUBSET casts, \A b \in casts' : Waits(b)'
    PROVE  OwnerInv'
BY DEF OwnerInv

\* Handlers that wait are left alone.
LEMMA OwnerConn ==
    ASSUME BaseInv, OwnerInv, casts' \in SUBSET casts, call' = call,
           NEW s \in Sockets, conn[s].at \notin {"busy", "announce"},
           \A t \in Sockets : t # s => conn'[t] = conn[t]
    PROVE  OwnerInv'
<1>1. \A b \in casts : Waits(b) => Waits(b)'
  BY DEF Waits
<1>2. QED BY <1>1, OwnerKept DEF OwnerInv

LEMMA OwnerNext == BaseInv /\ OwnerInv /\ [Next]_vars => OwnerInv'
<1> SUFFICES ASSUME BaseInv, OwnerInv, [Next]_vars PROVE OwnerInv'
  OBVIOUS
<1> DEFINE W == \A b \in casts : Waits(b)
<1>1. W /\ casts \in SUBSET casts /\ call \in [Calls -> {"new", "casting", "held", "over"}]
      /\ Calls \cap Sockets = {} /\ "server" \notin Calls \cup Sockets
      /\ conn \in [Sockets -> Handlers]
  BY OwnerAssumption, Parts DEF OwnerInv, CallType
<1>2. ASSUME NEW b \in casts, CastGoesOn(b) PROVE OwnerInv'
  <2>1. PICK s : casts' = (casts \ {b}) \cup {[b EXCEPT !.known = @ \cup {s}, !.todo = @ \ {s}, !.at = s]}
    BY <1>2 DEF CastGoesOn
  <2> DEFINE c == [b EXCEPT !.known = @ \cup {s}, !.todo = @ \ {s}, !.at = s]
  <2>2. c.owner = b.owner
    BY Parts DEF Casts
  <2>3. conn' = conn /\ call' = call
    BY <1>2 DEF CastGoesOn, callVars
  <2> HIDE DEF c
  <2>4. \A d \in casts' : (d \in casts /\ d # b) \/ d = c
    BY <2>1 DEF c
  <2>5. \A d \in casts' : Waits(d)'
    BY <1>1, <2>2, <2>3, <2>4 DEF Waits
  <2>6. ASSUME NEW d \in casts', NEW o \in casts', d.owner = o.owner, d.owner # "server" PROVE d = o
    BY <2>2, <2>4, <2>6 DEF OwnerInv
  <2>7. QED BY <2>5, <2>6 DEF OwnerInv
<1>3. ASSUME NEW b \in casts,
             casts' \subseteq casts \ {b},
             \A a \in Calls : a # b.owner => call'[a] = call[a],
             \A s \in Sockets : s # b.owner => conn'[s] = conn[s]
      PROVE  \A d \in casts \ {b} : Waits(d)' /\ (d.owner = b.owner => d.owner = "server")
  BY <1>1, <1>3 DEF OwnerInv, Waits
<1>4. ASSUME NEW b \in casts, CastEnds(b) \/ CastRaises(b) PROVE OwnerInv'
  <2>1. casts' = casts \ {b}
    BY <1>4 DEF CastEnds, CastRaises
  <2>2. \A a \in Calls : a # b.owner => call'[a] = call[a]
    <3>1. CASE CastEnds(b)
      BY <1>1, <3>1 DEF CastEnds, Continue, callVars
    <3>2. CASE CastRaises(b)
      BY <1>1, <3>2 DEF CastRaises
    <3>3. QED BY <1>4, <3>1, <3>2
  <2>3. \A s \in Sockets : s # b.owner => conn'[s] = conn[s]
    <3>1. CASE CastEnds(b)
      BY <1>1, <3>1 DEF CastEnds, Continue
    <3>2. CASE CastRaises(b)
      BY <1>1, <3>2 DEF CastRaises
    <3>3. QED BY <1>4, <3>1, <3>2
  <2>4. QED BY <1>3, <2>1, <2>2, <2>3, OwnerKept
<1>5. ASSUME NEW b \in casts, TapRaises(b) PROVE OwnerInv'
  <2>1. call' = call /\ \A s \in Sockets : s # b.owner => conn'[s] = conn[s]
    BY <1>1, <1>5 DEF TapRaises, callVars
  <2>2. \A d \in casts \ {b} : Waits(d)'
    BY <1>1, <2>1, <1>5 DEF OwnerInv, Waits, TapRaises
  <2>3. PICK e, pages, others : others = casts \ {b} /\ Cast(e, "server", clients', others, pages)
    BY <1>5 DEF TapRaises
  <2>4. QED BY <1>1, <2>2, <2>3, CastOwner
<1>6. ASSUME NEW a \in Calls, HookHeld(a) PROVE OwnerInv'
  <2>1. /\ Cast(Event("request", {a}), a, clients', casts, page) /\ conn' = conn
        /\ call' = [call EXCEPT ![a] = "casting"] /\ call[a] = "new"
    BY <1>6 DEF HookHeld
  <2>2. \A b \in casts : b.owner # a /\ Waits(b)'
    BY <1>1, <2>1 DEF Waits
  <2>3. call'[a] = "casting" /\ a \notin Sockets
    BY <1>1, <2>1
  <2>4. QED BY <1>1, <2>1, <2>2, <2>3, CastOwner
<1>7. ASSUME NEW a \in Calls, Popup(a) \/ \E s \in Sockets : Tap(s, a) PROVE OwnerInv'
  <2>1. ASSUME NEW owner, Answer(a, owner)
        PROVE  /\ Cast(Event("resolved", {a}), owner, clients', casts, page) /\ clients' = clients
               /\ \A c \in Calls : call[c] = "casting" => call'[c] = "casting"
    BY <1>1, <2>1 DEF Answer
  <2>2. CASE Popup(a)
    <3>1. Answer(a, "server") /\ conn' = conn
      BY <2>2 DEF Popup
    <3>2. \A b \in casts : Waits(b)'
      BY <1>1, <2>1, <3>1 DEF Waits
    <3>3. QED BY <1>1, <2>1, <3>1, <3>2, CastOwner
  <2>3. ASSUME NEW s \in Sockets, Tap(s, a) PROVE OwnerInv'
    <3>1. /\ Answer(a, s) /\ conn[s].at = "reading"
          /\ conn' = [conn EXCEPT ![s].at = IF clients = {} THEN "reading" ELSE "busy"]
      BY <2>3 DEF Tap
    <3>2. \A b \in casts : b.owner # s
      BY <1>1, <3>1 DEF Waits
    <3>3. PICK x \in States : conn' = [conn EXCEPT ![s].at = x] /\ (clients # {} => x = "busy")
      BY <3>1 DEF States
    <3>4. conn'[s].at = x /\ \A t \in Sockets : t # s => conn'[t] = conn[t]
      BY <3>3, Parts, ConnAt
    <3>5. \A b \in casts : Waits(b)'
      BY <1>1, <2>1, <3>1, <3>2, <3>4 DEF Waits
    <3>6. s \notin Calls /\ (clients' # {} => conn'[s].at = "busy")
      BY <1>1, <2>1, <3>1, <3>3, <3>4
    <3>7. QED BY <1>1, <2>1, <3>1, <3>2, <3>5, <3>6, CastOwner
  <2>4. QED BY <1>7, <2>2, <2>3
<1>8. ASSUME NEW a \in Calls, TimesOut(a) PROVE OwnerInv'
  <2>1. call[a] = "held" /\ call' = [call EXCEPT ![a] = "over"] /\ UNCHANGED <<casts, conn>>
    BY <1>8 DEF TimesOut
  <2>2. \A b \in casts : Waits(b)'
    BY <1>1, <2>1 DEF Waits
  <2>3. QED BY <2>1, <2>2, OwnerKept
<1>9. CASE Switch \/ OtherEvent
  <2>1. PICK e : Cast(e, "server", clients', casts, page)
    BY <1>9 DEF Switch, OtherEvent
  <2>2. call' = call /\ conn' = conn
    BY <1>9 DEF Switch, OtherEvent, callVars
  <2>3. QED BY <1>1, <2>1, <2>2, CastOwner DEF Waits
<1>10. ASSUME NEW s \in Sockets, Announce(s) PROVE OwnerInv'
  <2>1. /\ Cast(Event("other", {}), s, clients', casts, page) /\ call' = call /\ clients' = clients
        /\ conn' = [conn EXCEPT ![s].at = IF clients = {} THEN "reading" ELSE "announce"]
        /\ conn[s].at = "welcome"
    BY <1>10 DEF Announce, callVars
  <2>2. \A b \in casts : b.owner # s
    BY <1>1, <2>1 DEF Waits
  <2>3. PICK x \in States : conn' = [conn EXCEPT ![s].at = x] /\ (clients # {} => x = "announce")
    BY <2>1 DEF States
  <2>4. conn'[s].at = x /\ \A t \in Sockets : t # s => conn'[t] = conn[t]
    BY <2>3, Parts, ConnAt
  <2>5. \A b \in casts : Waits(b)'
    BY <1>1, <2>1, <2>2, <2>4 DEF Waits
  <2>6. s \notin Calls /\ (clients' # {} => conn'[s].at = "announce")
    BY <1>1, <2>1, <2>3, <2>4
  <2>7. QED BY <1>1, <2>1, <2>2, <2>5, <2>6, CastOwner
<1>11. ASSUME NEW s \in Sockets, Leave(s) \/ Reap(s) PROVE OwnerInv'
  <2>1. PICK e : Cast(e, "server", clients', casts, page)
    BY <1>11 DEF Leave, Reap
  <2>2. call' = call /\ \A t \in Sockets : conn[t].at \in {"busy", "announce"} => conn'[t] = conn[t]
    <3>1. CASE Leave(s)
      BY <1>1, <3>1 DEF Leave, callVars
    <3>2. CASE Reap(s)
      BY <3>2 DEF Reap, callVars
    <3>3. QED BY <1>11, <3>1, <3>2
  <2>3. \A b \in casts : Waits(b)'
    BY <1>1, <2>2 DEF Waits
  <2>4. QED BY <1>1, <2>1, <2>3, CastOwner
<1>12. ASSUME NEW s \in Sockets, ReplayBegins(s) \/ ReplayGoesOn(s) PROVE OwnerInv'
  <2>1. PICK i \in Nat : i >= 1 /\ Replays(s, i)
    BY <1>12, ReplaySteps
  <2>2. /\ casts' = casts /\ call' = call /\ conn[s].at \notin {"busy", "announce"}
        /\ \A t \in Sockets : t # s => conn'[t] = conn[t]
    BY <2>1, ReplayIs DEF Replays, callVars
  <2>3. QED BY <1>1, <2>2, OwnerConn
<1>13. ASSUME NEW s \in Sockets, ReplayRefused(s) \/ \E p \in Pages : Connect(p, s) PROVE OwnerInv'
  <2>1. casts' = casts /\ call' = call
    BY <1>13 DEF ReplayRefused, Connect, callVars
  <2>2. conn[s].at \notin {"busy", "announce"}
    BY <1>13 DEF ReplayRefused, Connect, Free
  <2>3. \A t \in Sockets : t # s => conn'[t] = conn[t]
    BY <1>1, <1>13 DEF ReplayRefused, Connect
  <2>4. QED BY <1>1, <2>1, <2>2, <2>3, OwnerConn
<1>14. CASE Restart
  BY <1>14 DEF Restart, OwnerInv
<1>15. CASE UNCHANGED <<casts, conn, call>>
  BY <1>1, <1>15, OwnerKept DEF Waits
<1>16. ASSUME NEW p \in Pages, Drop(p) PROVE OwnerInv'
  BY <1>15, <1>16 DEF Drop, callVars
<1>17. CASE UNCHANGED vars
  BY <1>15, <1>17 DEF vars, callVars
<1>18. QED BY <1>2, <1>4, <1>5, <1>6, <1>7, <1>8, <1>9, <1>10, <1>11, <1>12, <1>13, <1>14,
              <1>16, <1>17 DEF Next

-----------------------------------------------------------------------------
(* The story of one approval *)

\* What a page should make of it: show it, or not.
Sides == {"shown", "absent"}

\* The server wants the pages to show it: its hook call waits.  It wants them
\* not to: it does not wait for an answer and was not taken back silently.
Wanted(a, v) ==
    \/ v = "shown" /\ a \in pending /\ call[a] \in {"casting", "held"}
    \/ v = "absent" /\ a \notin pending \cup withdrawn

Shows(pg, a, v) == a \in pg.view <=> v = "shown"

\* An event after which every page shows it as wanted.
Turns(e, a, v) ==
    /\ a \in e.ids
    /\ v = "shown" => e.kind = "request"
    /\ v = "absent" => e.kind = "resolved"

\* An event after which a page that showed it as wanted still does.
Keeps(e, a, v) ==
    /\ v = "shown" => /\ e.kind = "resolved" => a \notin e.ids
                      /\ e.kind = "switched" => a \in e.ids
    /\ v = "absent" => (e.kind \in {"request", "switched"} => a \notin e.ids)

\* The r-th event turned the pages to what is wanted and no later one back.
Sequel(e, a, v, r) ==
    /\ e.seq = r => Turns(e, a, v)
    /\ e.seq > r => Keeps(e, a, v)

\* Event r is on its way to socket s, or in front of a replay.
Coming(cs, s, r) == \E b \in cs : b.event.seq = r /\ s \in b.todo

ToReplay(k, o, r) ==
    /\ k.at = "replaying" /\ r > k.since
    /\ \E j \in k.next .. Len(o) : o[j].seq = r

\* A page with the handler k shows it as wanted or will be told, and an older
\* event still to come is known to be older or comes before.
Fits(cs, k, o, pg, a, v, r) ==
    /\ Coming(cs, pg.sock, r) \/ ToReplay(k, o, r) \/ Shows(pg, a, v)
    /\ \A b \in cs : pg.sock \in b.todo /\ b.event.seq < r => pg.heard >= r \/ Coming(cs, pg.sock, r)

Excused(pg, v) == pg.late \/ (v = "absent" /\ pg.missed)

Told(a, v, r) ==
    /\ \A i \in 1 .. Len(outbox) : Sequel(outbox[i], a, v, r)
    /\ \A b \in casts : Sequel(b.event, a, v, r)

PageStory(p, a, v, r) ==
    Connected(p) /\ ~Excused(page[p], v) =>
        Fits(casts, conn[page[p].sock], outbox, page[p], a, v, r)

Story(a, v, r) == Told(a, v, r) /\ \A p \in Pages : PageStory(p, a, v, r)

\* r is 0 when no event has turned the pages yet.
StreamInv ==
    \A a \in Calls, v \in Sides : Wanted(a, v) => \E r \in 0 .. seq : Story(a, v, r)

IInv == BaseInv /\ OwnerInv /\ StreamInv

LEMMA ShownTurned ==
    ASSUME NEW view \in SUBSET Calls, NEW e \in Events, NEW a \in Calls, NEW v \in Sides, Turns(e, a, v)
    PROVE  a \in Shown(view, e) <=> v = "shown"
BY EventIs DEF Shown, Turns, Sides

LEMMA ShownKept ==
    ASSUME NEW view \in SUBSET Calls, NEW e \in Events, NEW a \in Calls, NEW v \in Sides, Keeps(e, a, v),
           a \in view <=> v = "shown"
    PROVE  a \in Shown(view, e) <=> v = "shown"
BY EventIs DEF Shown, Keeps, Sides, Kinds

LEMMA LeftIs ==
    ASSUME TypeInv, NEW pages \in [Pages -> PageStates]
    PROVE  /\ Left(pages) \in [Pages -> PageStates]
           /\ \A p \in Pages :
                 /\ Left(pages)[p].sock = pages[p].sock
                 /\ Left(pages)[p].view = pages[p].view
                 /\ Left(pages)[p].heard = pages[p].heard
                 /\ Left(pages)[p].missed = pages[p].missed
                 /\ pages[p].late => Left(pages)[p].late
                 /\ /\ Len(outbox) = OutboxMax
                    /\ pages[p].sock \in Sockets /\ conn[pages[p].sock].at = "replaying"
                    => Left(pages)[p].late
<1> DEFINE socks == {s \in Sockets : conn[s].at = "replaying"}
<1>1. CASE Len(outbox) = OutboxMax
  <2>1. Left(pages) = Overtaken(pages, socks)
    BY <1>1 DEF Left
  <2>2. \A p \in Pages : pages[p].sock \in Sockets /\ conn[pages[p].sock].at = "replaying" => pages[p].sock \in socks
    OBVIOUS
  <2> HIDE DEF socks
  <2>3. QED BY <2>1, <2>2, OvertakenIs
<1>2. CASE Len(outbox) # OutboxMax
  BY <1>2 DEF Left
<1>3. QED BY <1>1, <1>2

\* What a broadcast that begins does to a page.
CastPage(e, q, pg) ==
    /\ pg.sock = q.sock /\ pg.missed = q.missed /\ (q.late => pg.late)
    /\ pg.view = q.view \/ pg.view = Shown(q.view, e)
    /\ pg.heard >= q.heard

LEMMA CastPages ==
    ASSUME TypeInv, NEW e \in Events, NEW owner, NEW members, NEW others,
           NEW pages \in [Pages -> PageStates], Cast(e, owner, members, others, pages), NEW p \in Pages
    PROVE  /\ CastPage(e, pages[p], page'[p])
           /\ /\ Len(outbox) = OutboxMax
              /\ pages[p].sock \in Sockets /\ conn[pages[p].sock].at = "replaying"
              => page'[p].late
           /\ pages[p].sock \in members =>
                 \/ page'[p].view = Shown(pages[p].view, e) /\ page'[p].heard >= e.seq
                 \/ Coming(casts', pages[p].sock, e.seq)
<1>1. PICK l \in [Pages -> PageStates] :
         /\ l = Left(pages)
         /\ l[p].sock = pages[p].sock /\ l[p].view = pages[p].view
         /\ l[p].heard = pages[p].heard /\ l[p].missed = pages[p].missed
         /\ pages[p].late => l[p].late
         /\ /\ Len(outbox) = OutboxMax
            /\ pages[p].sock \in Sockets /\ conn[pages[p].sock].at = "replaying"
            => l[p].late
  BY LeftIs
<1>2. l[p].heard \in 0 .. MaxEvents /\ e.seq \in 0 .. MaxEvents
  BY PageFields, EventIs
<1>3. /\ l[p].heard >= l[p].heard
      /\ Larger(l[p].heard, e.seq) >= l[p].heard /\ Larger(l[p].heard, e.seq) >= e.seq
  BY <1>2, Sizes DEF Larger
<1>4. CASE members = {} /\ page' = l
  BY <1>1, <1>3, <1>4 DEF CastPage
<1>5. ASSUME NEW s \in members,
             casts' = others \cup {NewCast(e, owner, members, s)}, page' = Live(l, s, e, FALSE)
      PROVE  /\ CastPage(e, pages[p], page'[p])
             /\ l[p].late => page'[p].late
             /\ pages[p].sock \in members =>
                   \/ page'[p].view = Shown(pages[p].view, e) /\ page'[p].heard >= e.seq
                   \/ Coming(casts', pages[p].sock, e.seq)
  <2>1. PICK j \in BOOLEAN : j = FALSE
    OBVIOUS
  <2>2. page' = Live(l, s, e, j)
    BY <1>5, <2>1
  <2>3. CASE l[p].sock # s
    <3>1. page'[p] = l[p]
      BY <2>2, <2>3, LivePage
    <3>2. pages[p].sock \in members => Coming(casts', pages[p].sock, e.seq)
      <4>1. NewCast(e, owner, members, s).event = e /\ NewCast(e, owner, members, s).todo = members \ {s}
        BY DEF NewCast
      <4>2. QED BY <1>1, <1>5, <2>3, <4>1 DEF Coming
    <3>3. QED BY <1>1, <1>3, <3>1, <3>2 DEF CastPage
  <2>4. CASE l[p].sock = s
    <3>1. /\ page'[p].sock = l[p].sock /\ page'[p].missed = l[p].missed
          /\ page'[p].view = Shown(l[p].view, e)
          /\ page'[p].heard = Larger(l[p].heard, e.seq)
          /\ l[p].late => page'[p].late
      BY <2>2, <2>4, LivePage
    <3>2. QED BY <1>1, <1>3, <3>1 DEF CastPage
  <2>5. QED BY <2>3, <2>4
<1>6. \/ members = {} /\ casts' = others /\ page' = Left(pages)
      \/ \E s \in members : /\ casts' = others \cup {NewCast(e, owner, members, s)}
                            /\ page' = Live(Left(pages), s, e, FALSE)
  BY DEF Cast, NewCast, Left
<1>7. QED BY <1>1, <1>4, <1>5, <1>6

\* The casts after one began, and what they carry.
LEMMA CastsAre ==
    ASSUME NEW e, NEW owner, NEW members, NEW others, NEW pages, Cast(e, owner, members, others, pages)
    PROVE  /\ others \subseteq casts'
           /\ \A b \in casts' : b \in others \/ b.event = e
<1>1. \/ casts' = others
      \/ \E s \in members : casts' = others \cup {NewCast(e, owner, members, s)}
  BY DEF Cast, NewCast
<1>2. \A s \in members : NewCast(e, owner, members, s).event = e
  BY DEF NewCast
<1>3. QED BY <1>1, <1>2

\* A broadcast begins that turns the pages to what is wanted.
LEMMA CastTurns ==
    ASSUME BaseInv, NEW a \in Calls, NEW v \in Sides, NEW e \in Events, e.seq = seq + 1, Turns(e, a, v),
           NEW owner, NEW others \in SUBSET casts, NEW pages \in [Pages -> PageStates],
           Cast(e, owner, clients', others, pages), page' \in [Pages -> PageStates]
    PROVE  \E r \in 0 .. seq' : Story(a, v, r)'
<1>1. PICK r, members, ds, k, o, w :
         r = seq + 1 /\ members = clients' /\ ds = casts' /\ k = conn' /\ o = outbox' /\ w = page'
  OBVIOUS
<1>2. Cast(e, owner, members, others, pages)
  BY <1>1
<1>3. seq \in Nat /\ seq' = r /\ r \in 0 .. seq' /\ outbox' = Recorded(e)
  <2>1. seq \in Nat
    BY Parts, Sizes DEF StreamType
  <2>2. seq' = e.seq /\ outbox' = Recorded(e)
    BY <1>2, CastIs
  <2>3. QED BY <1>1, <2>1, <2>2
<1>4. Told(a, v, r)'
  <2>1. Sequel(e, a, v, r)
    BY <1>1, <1>3 DEF Sequel
  <2>2. ASSUME NEW i \in 1 .. Len(outbox') PROVE Sequel(outbox'[i], a, v, r)
    <3>1. Fresh(e, i)
      BY <1>1, <1>3, Parts, RecordedIs
    <3>2. ASSUME NEW n \in 1 .. Len(outbox) PROVE Sequel(outbox[n], a, v, r)
      <4>1. outbox[n].seq = seq - Len(outbox) + n /\ Len(outbox) \in Nat
        BY Parts DEF SeqInv, StreamType
      <4>2. outbox[n].seq <= seq /\ outbox[n].seq \in Int
        <5>1. PICK m \in Nat : m = Len(outbox)
          BY <4>1
        <5>2. n \in Nat /\ n <= m
          BY <5>1
        <5>3. QED BY <1>3, <4>1, <5>1, <5>2
      <4>3. QED BY <1>1, <1>3, <4>2 DEF Sequel
    <3>3. QED BY <2>1, <3>1, <3>2 DEF Fresh
  <2>3. ASSUME NEW b \in casts' PROVE Sequel(b.event, a, v, r)
    <3>1. b \in others \/ b.event = e
      BY <1>2, CastsAre
    <3>2. CASE b \in casts
      <4>1. b.event.seq <= seq /\ b.event.seq \in Nat
        BY <3>2, Parts, EventIs DEF SeqInv, Casts
      <4>2. QED BY <1>1, <1>3, <4>1 DEF Sequel
    <3>3. QED BY <2>1, <3>1, <3>2
  <2>4. QED BY <2>2, <2>3 DEF Told
<1>5. ASSUME NEW p \in Pages, w[p].sock \in members
      PROVE  Fits(ds, k[w[p].sock], o, w[p], a, v, r)
  <2>1. /\ w[p].sock = pages[p].sock /\ pages[p] \in PageStates
        /\ \/ w[p].view = Shown(pages[p].view, e) /\ w[p].heard >= e.seq
           \/ Coming(ds, w[p].sock, e.seq)
    BY <1>1, <1>2, <1>5, Parts, CastPages DEF CastPage
  <2>2. CASE Coming(ds, w[p].sock, r)
    BY <2>2 DEF Fits
  <2>3. CASE w[p].view = Shown(pages[p].view, e) /\ w[p].heard >= e.seq
    <3>1. Shows(w[p], a, v)
      BY <2>1, <2>3, PageFields, ShownTurned DEF Shows
    <3>2. QED BY <1>1, <2>3, <3>1 DEF Fits
  <2>4. QED BY <1>1, <2>1, <2>2, <2>3
<1>6. ASSUME NEW p \in Pages PROVE PageStory(p, a, v, r)'
  BY <1>1, <1>5 DEF PageStory, Connected
<1>7. Story(a, v, r)'
  BY <1>4, <1>6 DEF Story
<1>8. QED BY <1>3, <1>7

\* A broadcast begins that turns no page back.
LEMMA CastKeepsStory ==
    ASSUME BaseInv, NEW a \in Calls, NEW v \in Sides, NEW r \in 0 .. seq, Told(a, v, r),
           NEW e \in Events, e.seq = seq + 1, Keeps(e, a, v),
           NEW owner, NEW others \in SUBSET casts, NEW pages \in [Pages -> PageStates],
           Cast(e, owner, clients', others, pages), page' \in [Pages -> PageStates],
           clients' \in SUBSET Sockets,
           \A p \in Pages : pages[p].sock \in clients' /\ ~Excused(pages[p], v) =>
              Fits(others, conn[pages[p].sock], outbox, pages[p], a, v, r),
           \A s \in clients' : conn[s].at = "replaying" => conn'[s] = conn[s]
    PROVE  \E u \in 0 .. seq' : Story(a, v, u)'
<1>1. PICK members, ds, k, o, w :
         members = clients' /\ ds = casts' /\ k = conn' /\ o = outbox' /\ w = page'
  OBVIOUS
<1>2. Cast(e, owner, members, others, pages)
  BY <1>1
<1>3. seq \in Nat /\ seq' = seq + 1 /\ r \in 0 .. seq' /\ outbox' = Recorded(e) /\ r \in Nat /\ r <= seq
  <2>1. seq \in Nat
    BY Parts, Sizes DEF StreamType
  <2>2. seq' = e.seq /\ outbox' = Recorded(e)
    BY <1>2, CastIs
  <2>3. QED BY <2>1, <2>2
<1>4. Told(a, v, r)'
  <2>1. Sequel(e, a, v, r)
    BY <1>3 DEF Sequel
  <2>2. ASSUME NEW i \in 1 .. Len(outbox') PROVE Sequel(outbox'[i], a, v, r)
    <3>1. Fresh(e, i)
      BY <1>3, Parts, RecordedIs
    <3>2. QED BY <2>1, <3>1 DEF Fresh, Told
  <2>3. ASSUME NEW b \in casts' PROVE Sequel(b.event, a, v, r)
    <3>1. b \in others \/ b.event = e
      BY <1>2, CastsAre
    <3>2. QED BY <2>1, <3>1 DEF Told
  <2>4. QED BY <2>2, <2>3 DEF Told
<1>5. ASSUME NEW p \in Pages, w[p].sock \in members, ~Excused(w[p], v)
      PROVE  Fits(ds, k[w[p].sock], o, w[p], a, v, r)
  <2> DEFINE q == pages[p]
             s == w[p].sock
  <2>1. /\ s = q.sock /\ q \in PageStates /\ w[p] \in PageStates
        /\ CastPage(e, q, w[p])
        /\ Len(outbox) = OutboxMax /\ q.sock \in Sockets /\ conn[q.sock].at = "replaying" => w[p].late
    BY <1>1, <1>2, Parts, CastPages DEF CastPage
  <2>2. ~Excused(q, v)
    BY <1>5, <2>1 DEF Excused, CastPage
  <2>3. Fits(others, conn[s], outbox, q, a, v, r) /\ s \in Sockets
    BY <1>1, <1>5, <2>1, <2>2
  <2>4. q.heard \in Nat /\ w[p].heard \in Nat /\ w[p].heard >= q.heard
    BY <2>1, PageFields DEF CastPage
  <2>5. others \subseteq ds /\ \A b \in ds : b \in others \/ b.event = e
    BY <1>1, <1>2, CastsAre
  <2>6. Coming(others, s, r) => Coming(ds, s, r)
    BY <2>5 DEF Coming
  <2>7. ToReplay(conn[s], outbox, r) => ToReplay(k[s], o, r)
    <3> SUFFICES ASSUME ToReplay(conn[s], outbox, r) PROVE ToReplay(k[s], o, r)
      OBVIOUS
    <3>1. conn[s].at = "replaying" /\ k[s] = conn[s]
      BY <1>1, <1>5 DEF ToReplay
    <3>2. Len(outbox) # OutboxMax
      BY <1>5, <2>1, <2>3, <3>1 DEF Excused
    <3>3. Len(o) = Len(outbox) + 1 /\ \A i \in 1 .. Len(outbox) : o[i] = outbox[i]
      BY <1>1, <1>3, <3>2, Parts, RecordedIs
    <3>4. Len(outbox) \in Nat /\ conn[s].next \in Nat /\ conn[s].next >= 1
      BY <2>3, <3>1, Parts DEF StreamType, Handlers, Conns
    <3>5. PICK j \in conn[s].next .. Len(outbox) : outbox[j].seq = r
      BY DEF ToReplay
    <3>6. j \in conn[s].next .. Len(o) /\ o[j].seq = r
      BY <3>3, <3>4, <3>5
    <3>7. QED BY <3>1, <3>6 DEF ToReplay
  <2>8. Shows(q, a, v) => Shows(w[p], a, v)
    BY <2>1, PageFields, ShownKept DEF Shows, CastPage
  <2>9. ASSUME NEW b \in ds, s \in b.todo, b.event.seq < r
        PROVE  w[p].heard >= r \/ Coming(ds, s, r)
    <3>1. b \in others
      BY <1>3, <2>5, <2>9
    <3>2. q.heard >= r \/ Coming(others, s, r)
      BY <2>1, <2>3, <2>9, <3>1 DEF Fits
    <3>3. QED BY <1>3, <2>4, <2>6, <3>2
  <2>10. QED BY <2>1, <2>3, <2>6, <2>7, <2>8, <2>9 DEF Fits
<1>6. ASSUME NEW p \in Pages PROVE PageStory(p, a, v, r)'
  BY <1>1, <1>5 DEF PageStory, Connected
<1>7. Story(a, v, r)'
  BY <1>4, <1>6 DEF Story
<1>8. QED BY <1>3, <1>7

\* A page that keeps what it shows and what is on its way to it.
LEMMA PageKept ==
    ASSUME NEW a, NEW v, NEW r \in Nat, NEW p \in Pages, PageStory(p, a, v, r),
           page[p].heard \in Nat, outbox' = outbox, casts' \in SUBSET casts,
           page'[p].sock \in clients' =>
              /\ page'[p].sock = page[p].sock /\ page[p].sock \in clients
              /\ page'[p].view = page[p].view /\ page'[p].heard = page[p].heard
              /\ page[p].late => page'[p].late
              /\ page[p].missed => page'[p].missed
              /\ ToReplay(conn[page[p].sock], outbox, r) => ToReplay(conn'[page[p].sock], outbox, r)
              /\ ~Excused(page'[p], v) /\ Coming(casts, page[p].sock, r) => Coming(casts', page[p].sock, r)
    PROVE  PageStory(p, a, v, r)'
<1>1. PICK members, ds, k, o, w :
         members = clients' /\ ds = casts' /\ k = conn' /\ o = outbox' /\ w = page'
  OBVIOUS
<1>2. ASSUME w[p].sock \in members, ~Excused(w[p], v)
      PROVE  Fits(ds, k[w[p].sock], o, w[p], a, v, r)
  <2>1. ~Excused(page[p], v) /\ Connected(p)
    BY <1>1, <1>2 DEF Excused, Connected
  <2>2. Fits(casts, conn[page[p].sock], outbox, page[p], a, v, r)
    BY <2>1 DEF PageStory
  <2>3. QED BY <1>1, <1>2, <2>2 DEF Fits, Shows
<1>3. QED BY <1>1, <1>2 DEF PageStory, Connected

\* A step without a broadcast.
LEMMA StoryKept ==
    ASSUME NEW a, NEW v, NEW r \in 0 .. seq, Told(a, v, r),
           outbox' = outbox, seq' = seq, casts' \in SUBSET casts,
           \A p \in Pages : PageStory(p, a, v, r)'
    PROVE  \E u \in 0 .. seq' : Story(a, v, u)'
<1>1. Told(a, v, r)'
  BY DEF Told
<1>2. QED BY <1>1 DEF Story

-----------------------------------------------------------------------------
(* The steps that begin a broadcast *)

LEMMA PlainCastStory ==
    ASSUME BaseInv, BaseInv', StreamInv, NEW a \in Calls, NEW v \in Sides,
           NEW kind \in Kinds, NEW ids \in SUBSET Calls, NEW owner,
           Cast(Event(kind, ids), owner, clients', casts, page),
           clients' \in SUBSET clients,
           \A s \in clients' : conn[s].at = "replaying" => conn'[s] = conn[s],
           Turns(Event(kind, ids), a, v) \/ (Wanted(a, v) /\ Keeps(Event(kind, ids), a, v))
    PROVE  \E r \in 0 .. seq' : Story(a, v, r)'
<1>1. PICK e \in Events : e = Event(kind, ids) /\ e.seq = seq + 1
  <2>1. events < MaxEvents
    BY DEF Cast
  <2>2. QED BY <2>1, EventType, EventFields, Parts
<1>2. /\ page' \in [Pages -> PageStates] /\ clients' \in SUBSET Sockets
      /\ page \in [Pages -> PageStates] /\ casts \in SUBSET casts
  BY Parts DEF BaseInv, TypeInv
<1>3. Cast(e, owner, clients', casts, page)
  BY <1>1
<1>4. CASE Turns(e, a, v)
  BY <1>1, <1>2, <1>3, <1>4, CastTurns
<1>5. CASE Wanted(a, v) /\ Keeps(e, a, v)
  <2>1. PICK r \in 0 .. seq : Story(a, v, r)
    BY <1>5 DEF StreamInv
  <2>2. ASSUME NEW p \in Pages, page[p].sock \in clients', ~Excused(page[p], v)
        PROVE  Fits(casts, conn[page[p].sock], outbox, page[p], a, v, r)
    BY <2>1, <2>2 DEF Story, PageStory, Connected
  <2>3. Told(a, v, r)
    BY <2>1 DEF Story
  <2>4. QED BY <1>1, <1>2, <1>3, <1>5, <2>2, <2>3, CastKeepsStory
<1>6. QED BY <1>1, <1>4, <1>5

LEMMA OtherKeeps ==
    ASSUME NEW a, NEW v
    PROVE  Keeps(Event("other", {}), a, v)
BY EventFields DEF Keeps

LEMMA HookHeldStory ==
    ASSUME BaseInv, BaseInv', StreamInv, NEW h \in Calls, HookHeld(h),
           NEW a \in Calls, NEW v \in Sides, Wanted(a, v)'
    PROVE  \E r \in 0 .. seq' : Story(a, v, r)'
<1>1. /\ Cast(Event("request", {h}), h, clients', casts, page)
      /\ clients' = clients /\ conn' = conn /\ withdrawn' = withdrawn
      /\ call' = [call EXCEPT ![h] = "casting"] /\ pending' = pending \cup {h}
  BY DEF HookHeld
<1>2. call \in [Calls -> {"new", "casting", "held", "over"}]
  BY Parts DEF CallType
<1>3. PICK e : /\ e = Event("request", {h}) /\ e.kind = "request" /\ e.ids = {h}
  BY EventFields
<1>4. CASE a = h
  <2>1. Turns(e, a, v)
    BY <1>1, <1>3, <1>4 DEF Turns, Wanted
  <2>2. QED BY <1>1, <1>3, <2>1, Parts, PlainCastStory DEF Kinds
<1>5. CASE a # h
  <2>1. Wanted(a, v)
    BY <1>1, <1>2, <1>5 DEF Wanted
  <2>2. Keeps(e, a, v)
    BY <1>3, <1>5 DEF Keeps
  <2>3. QED BY <1>1, <1>3, <2>1, <2>2, Parts, PlainCastStory DEF Kinds
<1>6. QED BY <1>4, <1>5

LEMMA AnswerStory ==
    ASSUME BaseInv, BaseInv', StreamInv, NEW h \in Calls, NEW owner, Answer(h, owner),
           \A s \in clients' : conn[s].at = "replaying" => conn'[s] = conn[s],
           NEW a \in Calls, NEW v \in Sides, Wanted(a, v)'
    PROVE  \E r \in 0 .. seq' : Story(a, v, r)'
<1>1. /\ Cast(Event("resolved", {h}), owner, clients', casts, page)
      /\ clients' = clients /\ withdrawn' = withdrawn
      /\ call' = [call EXCEPT ![h] = IF @ = "held" THEN "over" ELSE @]
      /\ pending' = pending \ {h}
  BY DEF Answer
<1>2. call \in [Calls -> {"new", "casting", "held", "over"}]
  BY Parts DEF CallType
<1>3. PICK e : /\ e = Event("resolved", {h}) /\ e.kind = "resolved" /\ e.ids = {h}
  BY EventFields
<1>4. CASE a = h
  <2>1. Turns(e, a, v)
    BY <1>1, <1>3, <1>4 DEF Turns, Wanted
  <2>2. QED BY <1>1, <1>3, <2>1, Parts, PlainCastStory DEF Kinds
<1>5. CASE a # h
  <2>1. Wanted(a, v)
    BY <1>1, <1>2, <1>5 DEF Wanted
  <2>2. Keeps(e, a, v)
    BY <1>3, <1>5 DEF Keeps
  <2>3. QED BY <1>1, <1>3, <2>1, <2>2, Parts, PlainCastStory DEF Kinds
<1>6. QED BY <1>4, <1>5

LEMMA TapStory ==
    ASSUME BaseInv, BaseInv', StreamInv, NEW h \in Calls, Popup(h) \/ \E s \in Sockets : Tap(s, h),
           NEW a \in Calls, NEW v \in Sides, Wanted(a, v)'
    PROVE  \E r \in 0 .. seq' : Story(a, v, r)'
<1>1. CASE Popup(h)
  BY <1>1, AnswerStory DEF Popup
<1>2. ASSUME NEW s \in Sockets, Tap(s, h) PROVE \E r \in 0 .. seq' : Story(a, v, r)'
  <2>1. \A t \in Sockets : conn[t].at = "replaying" => conn'[t] = conn[t]
    BY <1>2, Parts DEF Tap
  <2>2. clients' \in SUBSET Sockets /\ Answer(h, s)
    BY <1>2 DEF Tap, BaseInv, TypeInv, ClientType
  <2>3. QED BY <2>1, <2>2, AnswerStory
<1>3. QED BY <1>1, <1>2

LEMMA OtherStory ==
    ASSUME BaseInv, BaseInv', StreamInv,
           \/ Switch \/ OtherEvent
           \/ \E s \in Sockets : Announce(s) \/ Leave(s) \/ Reap(s),
           NEW a \in Calls, NEW v \in Sides, Wanted(a, v)'
    PROVE  \E r \in 0 .. seq' : Story(a, v, r)'
<1>1. UNCHANGED callVars
  BY DEF Switch, OtherEvent, Announce, Leave, Reap
<1>2. Wanted(a, v)
  BY <1>1 DEF Wanted, callVars
<1>3. PICK kind \in Kinds, ids \in SUBSET Calls, owner \in Owners :
         /\ Cast(Event(kind, ids), owner, clients', casts, page)
         /\ \/ kind = "switched" /\ ids = pending
            \/ kind = "other" /\ ids = {}
  <2>1. pending \in SUBSET Calls /\ {} \in SUBSET Calls /\ "switched" \in Kinds /\ "other" \in Kinds
    BY Parts DEF CallType, Kinds
  <2>2. CASE Switch
    BY <2>1, <2>2 DEF Switch, Owners
  <2>3. CASE OtherEvent \/ \E s \in Sockets : Announce(s) \/ Leave(s) \/ Reap(s)
    BY <2>1, <2>3 DEF OtherEvent, Announce, Leave, Reap, Owners
  <2>4. QED BY <2>2, <2>3
<1>4. PICK e : /\ e = Event(kind, ids) /\ e.kind = kind /\ e.ids = ids
  BY EventFields
<1>5. Keeps(e, a, v)
  BY <1>2, <1>3, <1>4 DEF Keeps, Wanted
<1>6. /\ clients' \in SUBSET clients
      /\ \A s \in clients' : conn[s].at = "replaying" => conn'[s] = conn[s]
  <2>1. CASE Switch \/ OtherEvent
    BY <2>1 DEF Switch, OtherEvent
  <2>2. ASSUME NEW s \in Sockets, Announce(s) \/ Leave(s) \/ Reap(s)
        PROVE  /\ clients' \in SUBSET clients
               /\ \A t \in clients' : conn[t].at = "replaying" => conn'[t] = conn[t]
    <3>1. CASE Announce(s)
      BY <3>1, Parts DEF Announce
    <3>2. CASE Leave(s)
      BY <3>2, Parts DEF Leave
    <3>3. CASE Reap(s)
      BY <3>3, Parts DEF Reap
    <3>4. QED BY <2>2, <3>1, <3>2, <3>3
  <2>3. QED BY <2>1, <2>2
<1>7. QED BY <1>2, <1>3, <1>4, <1>5, <1>6, PlainCastStory

-----------------------------------------------------------------------------
(* The steps that end one *)

\* What is on its way is not lost with broadcast b to a page that counts.
LEMMA RaisedComing ==
    ASSUME BaseInv, NEW b \in casts, NEW a \in Calls, NEW v \in Sides, NEW r, Told(a, v, r),
           v = "shown" => a # b.owner,
           NEW s, Coming(casts, s, r), v = "absent" => s \notin b.todo
    PROVE  Coming(casts \ {b}, s, r)
<1>1. PICK d \in casts : d.event.seq = r /\ s \in d.todo
  BY DEF Coming
<1>2. d # b
  <2> SUFFICES ASSUME d = b PROVE FALSE
    OBVIOUS
  <2>1. v = "shown"
    BY <1>1 DEF Sides
  <2>2. Turns(b.event, a, v)
    BY <1>1 DEF Told, Sequel
  <2>3. b.event.kind = "request" /\ a \in b.event.ids /\ b.event.ids = {b.owner}
    BY <2>1, <2>2, Parts DEF Turns, SeqInv
  <2>4. QED BY <2>1, <2>3
<1>3. QED BY <1>1, <1>2 DEF Coming

LEMMA TapRaisesStory ==
    ASSUME BaseInv, BaseInv', StreamInv, NEW b \in casts, TapRaises(b),
           NEW a \in Calls, NEW v \in Sides, Wanted(a, v)'
    PROVE  \E r \in 0 .. seq' : Story(a, v, r)'
<1>1. /\ b.owner \in Sockets /\ clients' = clients \ {b.owner}
      /\ conn' = [conn EXCEPT ![b.owner] = Idle]
      /\ UNCHANGED callVars
  BY DEF TapRaises
<1>2. PICK pages : pages = Missed(HangUp({b.owner}), b.todo)
  OBVIOUS
<1>3. PICK others \in SUBSET casts : others = casts \ {b}
  OBVIOUS
<1>4. Cast(Event("other", {}), "server", clients', others, pages)
  BY <1>2, <1>3 DEF TapRaises
<1>5. PICK e \in Events : e = Event("other", {}) /\ e.seq = seq + 1 /\ Keeps(e, a, v)
  <2>1. events < MaxEvents /\ "other" \in Kinds
    BY <1>4 DEF Cast, Kinds
  <2>2. Event("other", {}) \in Events
    BY <2>1, EventType, Parts
  <2>3. QED BY <2>2, EventFields, OtherKeeps
<1>6. Wanted(a, v)
  BY <1>1 DEF Wanted, callVars
<1>7. PICK r \in 0 .. seq : Story(a, v, r)
  BY <1>6 DEF StreamInv
<1>8. Told(a, v, r) /\ a # b.owner
  BY <1>1, <1>7, OwnerAssumption DEF Story
<1>9. /\ pages \in [Pages -> PageStates]
      /\ \A p \in Pages :
            IF page[p].sock \in {b.owner} THEN pages[p].sock = NoSocket
            ELSE /\ pages[p].sock = page[p].sock /\ pages[p].view = page[p].view
                 /\ pages[p].heard = page[p].heard /\ pages[p].late = page[p].late
                 /\ pages[p].missed <=> page[p].missed \/ page[p].sock \in b.todo
  BY <1>2, MissedHangUpIs
<1>10. /\ page' \in [Pages -> PageStates] /\ clients' \in SUBSET Sockets /\ clients' \in SUBSET clients
  BY <1>1, Parts DEF BaseInv, TypeInv
<1>11. ASSUME NEW p \in Pages, pages[p].sock \in clients', ~Excused(pages[p], v)
       PROVE  Fits(others, conn[pages[p].sock], outbox, pages[p], a, v, r)
  <2> DEFINE s == page[p].sock
  <2>1. page[p].sock # b.owner
    BY <1>9, <1>10, <1>11, Sizes
  <2>2. /\ pages[p].sock = s /\ pages[p].view = page[p].view
        /\ pages[p].heard = page[p].heard /\ pages[p].late = page[p].late
        /\ pages[p].missed <=> page[p].missed \/ s \in b.todo
    BY <1>9, <2>1
  <2>3. ~Excused(page[p], v) /\ Connected(p) /\ (v = "absent" => s \notin b.todo)
    BY <1>10, <1>11, <2>2 DEF Excused, Connected
  <2>4. Fits(casts, conn[s], outbox, page[p], a, v, r)
    BY <1>7, <2>3 DEF Story, PageStory
  <2>5. Coming(casts, s, r) => Coming(others, s, r)
    BY <1>3, <1>8, <2>3, RaisedComing
  <2>6. QED BY <2>2, <2>4, <2>5 DEF Fits, Shows
<1>12. \A s \in clients' : conn[s].at = "replaying" => conn'[s] = conn[s]
  BY <1>1, <1>10, Parts
<1>13. Cast(e, "server", clients', others, pages)
  BY <1>4, <1>5
<1>14. QED BY <1>5, <1>8, <1>9, <1>10, <1>11, <1>12, <1>13, CastKeepsStory

LEMMA CastEndsStory ==
    ASSUME BaseInv, OwnerInv, StreamInv, NEW b \in casts, CastEnds(b),
           NEW a \in Calls, NEW v \in Sides, Wanted(a, v)'
    PROVE  \E r \in 0 .. seq' : Story(a, v, r)'
<1>1. /\ casts' = casts \ {b} /\ Continue(b) /\ page' = page
      /\ outbox' = outbox /\ seq' = seq /\ clients' \in SUBSET clients
      /\ clients \cap b.todo = {}
  BY DEF CastEnds, streamVars
<1>2. Wanted(a, v)
  <2>1. CASE b.owner \in Calls
    <3>1. /\ call[b.owner] = "casting" /\ call \in [Calls -> {"new", "casting", "held", "over"}]
      BY <2>1, Parts DEF OwnerInv, Waits, CallType
    <3>2. /\ \A c \in Calls : c # b.owner => call'[c] = call[c]
          /\ pending' \subseteq pending /\ withdrawn \subseteq withdrawn'
          /\ pending \subseteq pending' \cup withdrawn'
      BY <1>1, <2>1, <3>1 DEF Continue
    <3>3. QED BY <3>1, <3>2 DEF Wanted
  <2>2. CASE b.owner \notin Calls
    BY <1>1, <2>2 DEF Continue, callVars, Wanted
  <2>3. QED BY <2>1, <2>2
<1>3. PICK r \in 0 .. seq : Story(a, v, r)
  BY <1>2 DEF StreamInv
<1>4. ASSUME NEW p \in Pages PROVE PageStory(p, a, v, r)'
  <2> DEFINE s == page[p].sock
  <2>1. PageStory(p, a, v, r) /\ page[p].heard \in Nat /\ r \in Nat
    BY <1>3, Parts, PageFields DEF Story
  <2>2. ASSUME s \in clients'
        PROVE  /\ ToReplay(conn[s], outbox, r) => ToReplay(conn'[s], outbox, r)
               /\ Coming(casts, s, r) => Coming(casts', s, r)
    <3>1. s \in clients /\ s \in Sockets
      BY <1>1, <2>2, Parts
    <3>2. conn[s].at = "replaying" => conn'[s] = conn[s]
      <4>1. b.owner \in Sockets => conn[b.owner].at # "replaying"
        BY DEF OwnerInv, Waits
      <4>2. conn'[s] = conn[s] \/ s = b.owner
        BY <1>1, <3>1, Parts DEF Continue
      <4>3. QED BY <3>1, <4>1, <4>2
    <3>3. Coming(casts, s, r) => Coming(casts', s, r)
      BY <1>1, <3>1 DEF Coming
    <3>4. QED BY <3>2, <3>3 DEF ToReplay
  <2>3. QED BY <1>1, <2>1, <2>2, PageKept
<1>5. QED BY <1>1, <1>3, <1>4, StoryKept DEF Story

LEMMA CastRaisesStory ==
    ASSUME BaseInv, StreamInv, NEW b \in casts, CastRaises(b),
           NEW a \in Calls, NEW v \in Sides, Wanted(a, v)'
    PROVE  \E r \in 0 .. seq' : Story(a, v, r)'
<1>1. /\ casts' = casts \ {b} /\ outbox' = outbox /\ seq' = seq
      /\ call' = IF b.owner \in Calls THEN [call EXCEPT ![b.owner] = "over"] ELSE call
      /\ conn' = IF b.owner \in Sockets THEN [conn EXCEPT ![b.owner].at = "lost"] ELSE conn
      /\ page' = Missed(HangUp({b.owner} \cap Sockets), b.todo)
      /\ clients' = clients /\ pending' = pending /\ withdrawn' = withdrawn
  BY DEF CastRaises, streamVars
<1>2. Wanted(a, v) /\ (v = "shown" => a # b.owner)
  <2>1. call \in [Calls -> {"new", "casting", "held", "over"}]
    BY Parts DEF CallType
  <2>2. QED BY <1>1, <2>1 DEF Wanted
<1>3. PICK r \in 0 .. seq : Story(a, v, r)
  BY <1>2 DEF StreamInv
<1>4. ASSUME NEW p \in Pages PROVE PageStory(p, a, v, r)'
  <2> DEFINE s == page[p].sock
  <2>1. PageStory(p, a, v, r) /\ page[p].heard \in Nat /\ r \in Nat /\ Told(a, v, r)
    BY <1>3, Parts, PageFields DEF Story
  <2>2. IF s \in {b.owner} \cap Sockets THEN page'[p].sock = NoSocket
        ELSE /\ page'[p].sock = s /\ page'[p].view = page[p].view
             /\ page'[p].heard = page[p].heard /\ page'[p].late = page[p].late
             /\ page'[p].missed <=> page[p].missed \/ s \in b.todo
    BY <1>1, MissedHangUpIs
  <2>3. ASSUME page'[p].sock \in clients'
        PROVE  /\ page'[p].sock = s /\ s \in clients
               /\ page'[p].view = page[p].view /\ page'[p].heard = page[p].heard
               /\ page[p].late => page'[p].late
               /\ page[p].missed => page'[p].missed
               /\ ToReplay(conn[s], outbox, r) => ToReplay(conn'[s], outbox, r)
               /\ ~Excused(page'[p], v) /\ Coming(casts, s, r) => Coming(casts', s, r)
    <3>1. page'[p].sock \in Sockets /\ page'[p].sock # NoSocket /\ s \notin {b.owner} \cap Sockets
      BY <1>1, <2>2, <2>3, Parts, Sizes
    <3>2. s \in Sockets /\ s # b.owner
      BY <2>2, <3>1
    <3>3. conn'[s] = conn[s]
      BY <1>1, <3>2, Parts
    <3>4. ASSUME ~Excused(page'[p], v), Coming(casts, s, r) PROVE Coming(casts', s, r)
      <4>1. v = "absent" => s \notin b.todo
        BY <2>2, <3>1, <3>4 DEF Excused
      <4>2. Coming(casts \ {b}, s, r)
        BY <1>2, <2>1, <3>4, <4>1, RaisedComing
      <4>3. QED BY <1>1, <4>2
    <3>5. QED BY <1>1, <2>2, <2>3, <3>1, <3>3, <3>4
  <2>4. QED BY <1>1, <2>1, <2>3, PageKept
<1>5. QED BY <1>1, <1>3, <1>4, StoryKept DEF Story

LEMMA TimesOutStory ==
    ASSUME BaseInv, StreamInv, NEW h \in Calls, TimesOut(h),
           NEW a \in Calls, NEW v \in Sides, Wanted(a, v)'
    PROVE  \E r \in 0 .. seq' : Story(a, v, r)'
<1>1. /\ UNCHANGED <<seq, outbox, clients, casts, conn, page>>
      /\ call' = [call EXCEPT ![h] = "over"]
      /\ pending' = pending \ {h} /\ withdrawn' = withdrawn \cup {h}
  BY DEF TimesOut, streamVars
<1>2. Wanted(a, v)
  BY <1>1, Parts DEF Wanted, CallType
<1>3. PICK r \in 0 .. seq : Story(a, v, r)
  BY <1>2 DEF StreamInv
<1>4. ASSUME NEW p \in Pages PROVE PageStory(p, a, v, r)'
  BY <1>1, <1>3 DEF Story, PageStory, Connected
<1>5. QED BY <1>1, <1>3, <1>4, StoryKept DEF Story

-----------------------------------------------------------------------------
(* The steps of one page's connection *)

LEMMA DropStory ==
    ASSUME BaseInv, StreamInv, NEW q \in Pages, Drop(q),
           NEW a \in Calls, NEW v \in Sides, Wanted(a, v)'
    PROVE  \E r \in 0 .. seq' : Story(a, v, r)'
<1>1. /\ UNCHANGED <<seq, outbox, clients, casts, conn, call, pending, withdrawn>>
      /\ page' = HangUp({page[q].sock})
  BY DEF Drop, streamVars, callVars
<1>2. Wanted(a, v)
  BY <1>1 DEF Wanted
<1>3. PICK r \in 0 .. seq : Story(a, v, r)
  BY <1>2 DEF StreamInv
<1>4. ASSUME NEW p \in Pages PROVE PageStory(p, a, v, r)'
  <2>1. page'[p].sock = NoSocket \/ page'[p] = page[p]
    BY <1>1, Parts, HangUpIs
  <2>2. CASE page'[p].sock = NoSocket
    BY <1>1, <2>2, Parts, Sizes DEF PageStory, Connected
  <2>3. CASE page'[p] = page[p]
    BY <1>1, <1>3, <2>3 DEF Story, PageStory, Connected
  <2>4. QED BY <2>1, <2>2, <2>3
<1>5. QED BY <1>1, <1>3, <1>4, StoryKept DEF Story

\* A snapshot shows what is wanted.
LEMMA SnapshotShows ==
    ASSUME TypeInv, NEW pg \in PageStates, NEW a, NEW v \in Sides, Wanted(a, v)
    PROVE  Shows(Snapshot(pg), a, v)
BY SnapshotIs DEF Shows, Wanted, Sides

LEMMA ConnectStory ==
    ASSUME BaseInv, StreamInv, NEW q \in Pages, NEW s \in Sockets, Connect(q, s),
           NEW a \in Calls, NEW v \in Sides, Wanted(a, v)'
    PROVE  \E r \in 0 .. seq' : Story(a, v, r)'
<1>1. /\ UNCHANGED <<seq, outbox, casts, call, pending, withdrawn>>
      /\ clients' = clients \cup {s} /\ s \notin clients
      /\ conn' = [conn EXCEPT ![s] = [Idle EXCEPT !.at = "welcome", !.since = page[q].last]]
      /\ page' = [page EXCEPT ![q] = [Snapshot(@) EXCEPT !.sock = s]]
      /\ \A b \in casts : s \notin b.known
      /\ conn[s].at \in {"none", "lost"}
  BY DEF Connect, Free, streamVars, callVars
<1>2. Wanted(a, v)
  BY <1>1 DEF Wanted
<1>3. PICK r \in 0 .. seq : Story(a, v, r)
  BY <1>2 DEF StreamInv
<1>4. \A b \in casts : s \notin b.todo
  BY <1>1, Parts DEF SeqInv
<1>5. ASSUME NEW p \in Pages PROVE PageStory(p, a, v, r)'
  <2>1. CASE p = q
    <3>1. PICK w : w = Snapshot(page[q])
      OBVIOUS
    <3>2. w \in PageStates /\ Shows(w, a, v)
      BY <1>2, <3>1, Parts, SnapshotShows, SnapshotIs
    <3>3. page'[p] = [w EXCEPT !.sock = s]
      BY <1>1, <2>1, <3>1, Parts
    <3>4. page'[p].sock = s /\ page'[p].view = w.view
      BY <3>2, <3>3 DEF PageStates
    <3>5. PICK k, o, pg : k = conn'[s] /\ o = outbox' /\ pg = page'[p]
      OBVIOUS
    <3>6. Fits(casts, k, o, pg, a, v, r)
      BY <1>4, <3>2, <3>4, <3>5 DEF Fits, Shows
    <3>7. QED BY <1>1, <3>4, <3>5, <3>6 DEF PageStory
  <2>2. CASE p # q
    <3>1. page'[p] = page[p] /\ page[p].sock # s
      BY <1>1, <2>2, Parts
    <3>2. page[p].sock \in Sockets => conn'[page[p].sock] = conn[page[p].sock]
      BY <1>1, <3>1, Parts
    <3>3. PageStory(p, a, v, r)
      BY <1>3 DEF Story
    <3>4. Connected(p)' => Connected(p) /\ conn'[page[p].sock] = conn[page[p].sock]
      <4>1. clients' = clients \cup {s} /\ clients \in SUBSET Sockets
        BY <1>1, Parts
      <4>2. QED BY <3>1, <3>2, <4>1 DEF Connected
    <3>5. QED BY <1>1, <3>1, <3>3, <3>4 DEF PageStory
  <2>3. QED BY <2>1, <2>2
<1>6. QED BY <1>1, <1>3, <1>5, StoryKept DEF Story

LEMMA RefusedStory ==
    ASSUME BaseInv, StreamInv, NEW s \in Sockets, ReplayRefused(s),
           NEW a \in Calls, NEW v \in Sides, Wanted(a, v)'
    PROVE  \E r \in 0 .. seq' : Story(a, v, r)'
<1>1. /\ UNCHANGED <<seq, outbox, casts, clients, call, pending, withdrawn>>
      /\ conn' = [conn EXCEPT ![s].since = 0] /\ conn[s].at = "reading"
      /\ page' = [p \in Pages |-> IF page[p].sock = s THEN Snapshot(page[p]) ELSE page[p]]
  BY DEF ReplayRefused, streamVars, callVars
<1>2. Wanted(a, v)
  BY <1>1 DEF Wanted
<1>3. PICK r \in 0 .. seq : Story(a, v, r)
  BY <1>2 DEF StreamInv
<1>4. ASSUME NEW p \in Pages PROVE PageStory(p, a, v, r)'
  <2>1. PageStory(p, a, v, r)
    BY <1>3 DEF Story
  <2>2. CASE page[p].sock = s
    <3>1. PICK w : w = Snapshot(page[p])
      OBVIOUS
    <3>2. /\ Shows(w, a, v) /\ w.sock = s /\ w.heard = page[p].heard
          /\ w.late = page[p].late /\ w.missed = page[p].missed
      BY <1>2, <2>2, <3>1, Parts, SnapshotShows, SnapshotIs
    <3>3. page'[p] = w
      BY <1>1, <2>2, <3>1
    <3>4. PICK k, o : k = conn'[s] /\ o = outbox'
      OBVIOUS
    <3>5. ASSUME s \in clients, ~Excused(w, v) PROVE Fits(casts, k, o, w, a, v, r)
      <4>1. Fits(casts, conn[s], outbox, page[p], a, v, r)
        BY <2>1, <2>2, <3>2, <3>5 DEF PageStory, Connected, Excused
      <4>2. QED BY <2>2, <3>2, <4>1 DEF Fits
    <3>6. QED BY <1>1, <3>2, <3>3, <3>4, <3>5 DEF PageStory, Connected
  <2>3. CASE page[p].sock # s
    <3>1. page'[p] = page[p]
      BY <1>1, <2>3
    <3>2. page[p].sock \in Sockets => conn'[page[p].sock] = conn[page[p].sock]
      BY <1>1, <2>3, Parts
    <3>3. QED BY <1>1, <2>1, <3>1, <3>2, Parts DEF PageStory, Connected
  <2>4. QED BY <2>2, <2>3
<1>5. QED BY <1>1, <1>3, <1>4, StoryKept DEF Story

\* The next page of a broadcast.
LEMMA CastGoesOnStory ==
    ASSUME BaseInv, BaseInv', StreamInv, NEW b \in casts, CastGoesOn(b),
           NEW a \in Calls, NEW v \in Sides, Wanted(a, v)'
    PROVE  \E r \in 0 .. seq' : Story(a, v, r)'
<1>1. /\ outbox' = outbox /\ seq' = seq /\ clients' = clients /\ conn' = conn
      /\ UNCHANGED <<call, pending, withdrawn>>
  BY DEF CastGoesOn, streamVars, callVars
<1>2. PICK t \in (clients \cap b.todo) \cup (clients \ b.known) :
         /\ casts' = (casts \ {b}) \cup {[b EXCEPT !.known = @ \cup {t}, !.todo = @ \ {t}, !.at = t]}
         /\ page' = Live(page, t, b.event, t \notin b.known)
  BY DEF CastGoesOn
<1>3. PICK c : c = [b EXCEPT !.known = @ \cup {t}, !.todo = @ \ {t}, !.at = t]
  OBVIOUS
<1>4. c.event = b.event /\ c.todo = b.todo \ {t} /\ b.event \in Events /\ b \in Casts
  BY <1>3, Parts DEF Casts
<1>5. casts' = (casts \ {b}) \cup {c}
  BY <1>2, <1>3
<1>6. Wanted(a, v)
  BY <1>1 DEF Wanted
<1>7. PICK r \in 0 .. seq : Story(a, v, r)
  BY <1>6 DEF StreamInv
<1>8. Told(a, v, r)' /\ Sequel(b.event, a, v, r) /\ r \in Nat
  BY <1>1, <1>4, <1>5, <1>7 DEF Story, Told
<1>9. PICK ds : ds = casts'
  OBVIOUS
<1>10. ASSUME NEW p \in Pages PROVE PageStory(p, a, v, r)'
  <2>1. PageStory(p, a, v, r) /\ page[p] \in PageStates
    BY <1>7, Parts DEF Story
  <2>2. PICK q, s : q = page'[p] /\ s = page[p].sock
    OBVIOUS
  <2>3. PICK j \in BOOLEAN : page' = Live(page, t, b.event, j) /\ (t \notin b.known => j)
    BY <1>2
  <2>4. CASE s # t
    <3>1. q = page[p]
      BY <1>4, <2>2, <2>3, <2>4, Parts, LivePage
    <3>2. Coming(casts, s, r) => Coming(ds, s, r)
      BY <1>4, <1>5, <1>9, <2>4 DEF Coming
    <3>3. ASSUME NEW d \in ds, s \in d.todo, d.event.seq < r
          PROVE  \E x \in casts : s \in x.todo /\ x.event.seq < r
      BY <1>4, <1>5, <1>9, <3>3
    <3>4. Fits(casts, conn[s], outbox, q, a, v, r) => Fits(ds, conn[s], outbox, q, a, v, r)
      BY <2>2, <3>1, <3>2, <3>3 DEF Fits
    <3>5. QED BY <1>1, <1>9, <2>1, <2>2, <3>1, <3>4 DEF PageStory, Connected
  <2>5. CASE s = t
    <3>1. /\ q.sock = t /\ q.missed = page[p].missed
          /\ q.view = Shown(page[p].view, b.event)
          /\ q.heard = Larger(page[p].heard, b.event.seq)
          /\ q.late <=> page[p].late \/ j \/ b.event.seq < page[p].heard
      <4>1. PICK e \in Events : e = b.event
        BY <1>4
      <4>2. page \in [Pages -> PageStates] /\ page' = Live(page, t, e, j) /\ page[p].sock = t
        BY <2>2, <2>3, <2>5, <4>1, Parts
      <4>3. /\ Live(page, t, e, j)[p].sock = page[p].sock
            /\ Live(page, t, e, j)[p].missed = page[p].missed
            /\ page[p].sock = t =>
                  /\ Live(page, t, e, j)[p].view = Shown(page[p].view, e)
                  /\ Live(page, t, e, j)[p].heard = Larger(page[p].heard, e.seq)
                  /\ Live(page, t, e, j)[p].late <=> page[p].late \/ j \/ e.seq < page[p].heard
        BY <4>2, LivePage
      <4>4. QED BY <2>2, <4>1, <4>2, <4>3
    <3>2. /\ page[p].heard \in Nat /\ b.event.seq \in Nat
          /\ q.heard >= page[p].heard /\ q.heard >= b.event.seq /\ q.heard \in Nat
      BY <1>4, <2>1, <3>1, PageFields, EventIs DEF Larger
    <3>3. ASSUME Connected(p), ~Excused(q, v)
          PROVE  Fits(ds, conn[t], outbox, q, a, v, r)
      <4>1. ~Excused(page[p], v) /\ t \in b.known /\ ~(b.event.seq < page[p].heard)
        BY <2>3, <3>1, <3>3 DEF Excused
      <4>2. Fits(casts, conn[t], outbox, page[p], a, v, r)
        BY <2>1, <2>2, <2>5, <3>3, <4>1 DEF PageStory
      <4>3. t \in b.todo
        BY <1>2, <4>1
      <4>4. b.event.seq # r /\ Coming(casts, t, r) => Coming(ds, t, r)
        BY <1>5, <1>9 DEF Coming
      <4>5. CASE b.event.seq = r
        <5>1. Turns(b.event, a, v)
          BY <1>8, <4>5 DEF Sequel
        <5>2. Shows(q, a, v)
          BY <1>4, <2>1, <3>1, <5>1, PageFields, ShownTurned DEF Shows
        <5>3. QED BY <3>2, <4>5, <5>2 DEF Fits
      <4>6. CASE b.event.seq > r
        <5>1. Keeps(b.event, a, v)
          BY <1>8, <4>6 DEF Sequel
        <5>2. Shows(page[p], a, v) => Shows(q, a, v)
          BY <1>4, <2>1, <3>1, <5>1, PageFields, ShownKept DEF Shows
        <5>3. b.event.seq # r /\ q.heard >= r
          BY <1>8, <3>2, <4>6
        <5>4. Coming(casts, t, r) \/ ToReplay(conn[t], outbox, r) \/ Shows(page[p], a, v)
          BY <2>2, <2>5, <4>2 DEF Fits
        <5>5. QED BY <3>1, <4>4, <5>2, <5>3, <5>4 DEF Fits
      <4>7. CASE b.event.seq < r
        <5>1. page[p].heard >= r \/ Coming(casts, t, r)
          BY <2>2, <2>5, <4>2, <4>3, <4>7 DEF Fits
        <5>2. ~(page[p].heard >= r) /\ b.event.seq # r
          BY <1>8, <3>2, <4>1, <4>7
        <5>3. Coming(ds, t, r)
          BY <4>4, <5>1, <5>2
        <5>4. QED BY <3>1, <5>3 DEF Fits
      <4>8. QED BY <1>8, <3>2, <4>5, <4>6, <4>7
    <3>4. QED BY <1>1, <1>9, <2>2, <2>5, <3>1, <3>3 DEF PageStory, Connected
  <2>6. QED BY <2>4, <2>5
<1>11. Story(a, v, r)'
  BY <1>8, <1>10 DEF Story
<1>12. QED BY <1>1, <1>11

\* One entry of a replay, or its end.
LEMMA ReplayStory ==
    ASSUME BaseInv, StreamInv, NEW s \in Sockets, NEW i \in Nat, i >= 1, Replays(s, i),
           NEW a \in Calls, NEW v \in Sides, Wanted(a, v)'
    PROVE  \E r \in 0 .. seq' : Story(a, v, r)'
<1>1. UNCHANGED <<seq, outbox, casts, clients, call, pending, withdrawn>>
  BY DEF Replays, streamVars, callVars
<1>2. Wanted(a, v)
  BY <1>1 DEF Wanted
<1>3. PICK r \in 0 .. seq : Story(a, v, r)
  BY <1>2 DEF StreamInv
<1>4. /\ conn' \in [Sockets -> Handlers]
      /\ \A t \in Sockets : t # s => conn'[t] = conn[t]
      /\ \/ /\ \A j : ~Due(s, i, j)
            /\ conn'[s].at = "reading" /\ page' = page
         \/ \E j \in i .. Len(outbox) :
               Due(s, i, j) /\ (\A k : Due(s, i, k) => j <= k) /\ Sends(s, j)
  BY ReplayIs DEF Replays
<1>5. ToReplay(conn[s], outbox, r) => \E j \in i .. Len(outbox) : Due(s, i, j) /\ outbox[j].seq = r
  BY DEF Replays, ToReplay, Due
<1>6. /\ seq \in Nat /\ r \in Nat /\ r <= seq /\ Len(outbox) \in Nat
      /\ \A j \in 1 .. Len(outbox) : outbox[j] \in Events /\ outbox[j].seq = seq - Len(outbox) + j
      /\ Told(a, v, r)
  <2>1. seq \in Nat /\ outbox \in Seq(Events)
    BY Parts, Sizes DEF StreamType
  <2>2. QED BY <1>3, <2>1, Parts DEF SeqInv, Story
<1>7. ASSUME NEW p \in Pages, page[p].sock # s PROVE PageStory(p, a, v, r)'
  <2>1. page'[p] = page[p]
    BY <1>4, <1>7 DEF Sends
  <2>2. page[p].sock \in clients => conn'[page[p].sock] = conn[page[p].sock]
    BY <1>4, <1>7, Parts
  <2>3. QED BY <1>1, <1>3, <2>1, <2>2 DEF Story, PageStory, Connected
<1>8. PICK h : h = conn'[s]
  OBVIOUS
<1>9. CASE page' = page /\ \A j : ~Due(s, i, j)
  <2>1. ASSUME NEW p \in Pages, page[p].sock = s PROVE PageStory(p, a, v, r)'
    <3>1. PageStory(p, a, v, r)
      BY <1>3 DEF Story
    <3>2. ~ToReplay(conn[s], outbox, r)
      BY <1>5, <1>9
    <3>3. Fits(casts, conn[s], outbox, page[p], a, v, r) => Fits(casts, h, outbox, page[p], a, v, r)
      BY <3>2 DEF Fits
    <3>4. QED BY <1>1, <1>8, <1>9, <2>1, <3>1, <3>3 DEF PageStory, Connected
  <2>2. QED BY <1>1, <1>6, <1>7, <2>1, StoryKept
<1>10. ASSUME NEW j \in i .. Len(outbox),
              Due(s, i, j), \A k : Due(s, i, k) => j <= k, Sends(s, j)
       PROVE  \A p \in Pages : page[p].sock = s => PageStory(p, a, v, r)'
  <2>1. j \in 1 .. Len(outbox) /\ j \in Nat
    BY <1>6
  <2>2. PICK e \in Events : e = outbox[j] /\ e.seq = seq - Len(outbox) + j /\ e.seq > conn[s].since
                            /\ Sequel(e, a, v, r)
    BY <1>6, <1>10, <2>1 DEF Due, Told
  <2>3. h.at = "replaying" /\ h.since = conn[s].since /\ h.next = j + 1 /\ e.seq \in Nat
    BY <1>8, <1>10, EventIs DEF Sends
  <2>4. ASSUME NEW p \in Pages, page[p].sock = s PROVE PageStory(p, a, v, r)'
    <3>1. PICK q : q = page'[p]
      OBVIOUS
    <3>2. /\ q = Received(page[p], e) /\ page[p] \in PageStates
      BY <1>10, <2>2, <2>4, <3>1, Parts DEF Sends
    <3>3. /\ q.sock = s /\ q.view = Shown(page[p].view, e) /\ q.heard = page[p].heard
          /\ q.missed = page[p].missed /\ q.late = page[p].late
          /\ page[p].view \in SUBSET Calls
      BY <2>4, <3>2, ReceivedIs, PageFields
    <3>4. ASSUME Fits(casts, conn[s], outbox, page[p], a, v, r)
          PROVE  Fits(casts, h, outbox, q, a, v, r)
      <4>1. Coming(casts, s, r) \/ ToReplay(h, outbox, r) \/ Shows(q, a, v)
        <5>1. CASE e.seq = r
          BY <2>2, <3>3, <5>1, ShownTurned DEF Sequel, Shows
        <5>2. CASE e.seq > r
          <6>1. ~ToReplay(conn[s], outbox, r)
            <7> SUFFICES ASSUME ToReplay(conn[s], outbox, r) PROVE FALSE
              OBVIOUS
            <7>1. PICK k \in i .. Len(outbox) : Due(s, i, k) /\ outbox[k].seq = r
              BY <1>5
            <7>2. j <= k /\ k \in 1 .. Len(outbox)
              BY <1>10, <7>1
            <7>3. outbox[k].seq = seq - Len(outbox) + k
              BY <1>6, <7>2
            <7>4. QED BY <1>6, <2>1, <2>2, <5>2, <7>1, <7>2, <7>3
          <6>2. Keeps(e, a, v)
            BY <2>2, <5>2 DEF Sequel
          <6>3. Shows(page[p], a, v) => Shows(q, a, v)
            BY <3>3, <6>2, ShownKept DEF Shows
          <6>4. QED BY <2>4, <3>4, <6>1, <6>3 DEF Fits
        <5>3. CASE e.seq < r
          <6>1. PICK n \in Nat : n = Len(outbox)
            BY <1>6
          <6>2. seq \in Int /\ r \in Int
            BY <1>6
          <6>3. PICK k \in Int : k = r - seq + n
            BY <6>1, <6>2
          <6>4. e.seq = seq - n + j
            BY <2>2, <6>1
          <6>5. k \in j + 1 .. n /\ k \in 1 .. n /\ seq - n + k = r
            BY <1>6, <2>1, <2>3, <5>3, <6>1, <6>3, <6>4
          <6>6. k \in h.next .. Len(outbox) /\ outbox[k].seq = r
            BY <1>6, <2>3, <6>1, <6>5
          <6>7. r > h.since
            <7>1. conn[s].since \in Nat
              BY Parts DEF Handlers, Conns
            <7>2. QED BY <1>6, <2>2, <2>3, <5>3, <7>1
          <6>8. QED BY <2>3, <6>6, <6>7 DEF ToReplay
        <5>4. QED BY <1>6, <2>3, <5>1, <5>2, <5>3
      <4>2. QED BY <2>4, <3>3, <3>4, <4>1 DEF Fits
    <3>5. Excused(q, v) = Excused(page[p], v)
      BY <3>3 DEF Excused
    <3>6. PageStory(p, a, v, r)
      BY <1>3 DEF Story
    <3>7. QED BY <1>1, <1>8, <2>4, <3>1, <3>3, <3>4, <3>5, <3>6 DEF PageStory, Connected
  <2>5. QED BY <2>4
<1>11. CASE \E j \in i .. Len(outbox) :
               Due(s, i, j) /\ (\A k : Due(s, i, k) => j <= k) /\ Sends(s, j)
  <2>1. \A p \in Pages : PageStory(p, a, v, r)'
    BY <1>7, <1>10, <1>11
  <2>2. QED BY <1>1, <1>6, <2>1, StoryKept
<1>12. QED BY <1>4, <1>9, <1>11

-----------------------------------------------------------------------------
(* The invariant *)

\* With nothing on record, and no page connected, nothing has to be told.
LEMMA NothingToTell ==
    ASSUME outbox = <<>>, casts = {}, clients = {}, seq = 0, NEW a, NEW v
    PROVE  \E r \in 0 .. seq : Story(a, v, r)
<1>1. Told(a, v, 0)
  BY DEF Told
<1>2. \A p \in Pages : PageStory(p, a, v, 0)
  BY DEF PageStory, Connected
<1>3. 0 \in 0 .. seq
  OBVIOUS
<1>4. QED BY <1>1, <1>2, <1>3 DEF Story

LEMMA InitIInv == Init => IInv
<1> SUFFICES ASSUME Init PROVE IInv
  OBVIOUS
<1>1. OwnerInv
  BY DEF Init, OwnerInv
<1>2. StreamInv
  BY NothingToTell DEF Init, StreamInv
<1>3. QED BY <1>1, <1>2, InitBase DEF IInv

LEMMA StreamNext ==
    ASSUME BaseInv, OwnerInv, StreamInv, [Next]_vars, BaseInv'
    PROVE  StreamInv'
<1> SUFFICES ASSUME NEW a \in Calls, NEW v \in Sides, Wanted(a, v)'
             PROVE  \E r \in 0 .. seq' : Story(a, v, r)'
  BY DEF StreamInv
<1> DEFINE Goal == \E r \in 0 .. seq' : Story(a, v, r)'
<1>1. ASSUME NEW b \in casts, CastGoesOn(b) \/ CastEnds(b) \/ CastRaises(b) \/ TapRaises(b)
      PROVE  Goal
  BY <1>1, CastGoesOnStory, CastEndsStory, CastRaisesStory, TapRaisesStory
<1>2. ASSUME NEW h \in Calls, HookHeld(h) \/ Popup(h) \/ TimesOut(h) \/ \E s \in Sockets : Tap(s, h)
      PROVE  Goal
  BY <1>2, HookHeldStory, TapStory, TimesOutStory
<1>3. CASE Switch \/ OtherEvent \/ \E s \in Sockets : Announce(s) \/ Leave(s) \/ Reap(s)
  BY <1>3, OtherStory
<1>4. ASSUME NEW s \in Sockets, ReplayBegins(s) \/ ReplayGoesOn(s)
      PROVE  Goal
  BY <1>4, ReplaySteps, ReplayStory
<1>5. ASSUME NEW s \in Sockets, ReplayRefused(s) \/ \E p \in Pages : Connect(p, s)
      PROVE  Goal
  BY <1>5, RefusedStory, ConnectStory
<1>6. ASSUME NEW p \in Pages, Drop(p)
      PROVE  Goal
  BY <1>6, DropStory
<1>7. CASE Restart
  <2>1. outbox' = <<>> /\ casts' = {} /\ clients' = {} /\ seq' = 0
    BY <1>7 DEF Restart
  <2>2. Told(a, v, 0)'
    BY <2>1 DEF Told
  <2>3. \A p \in Pages : PageStory(p, a, v, 0)'
    BY <2>1 DEF PageStory, Connected
  <2>4. 0 \in 0 .. seq'
    BY <2>1
  <2>5. QED BY <2>2, <2>3, <2>4 DEF Story
<1>8. CASE UNCHANGED vars
  <2>1. Wanted(a, v)
    BY <1>8 DEF Wanted, vars, callVars
  <2>2. PICK r \in 0 .. seq : Story(a, v, r)
    BY <2>1 DEF StreamInv
  <2>3. Story(a, v, r)'
    BY <1>8, <2>2 DEF Story, Told, PageStory, Connected, vars, streamVars
  <2>4. QED BY <1>8, <2>3 DEF vars, streamVars
<1>9. QED BY <1>1, <1>2, <1>3, <1>4, <1>5, <1>6, <1>7, <1>8 DEF Next

LEMMA NextIInv == IInv /\ [Next]_vars => IInv'
<1> SUFFICES ASSUME IInv, [Next]_vars PROVE IInv'
  OBVIOUS
<1>1. BaseInv /\ OwnerInv /\ StreamInv
  BY DEF IInv
<1>2. BaseInv' /\ OwnerInv'
  BY <1>1, BaseNext, OwnerNext
<1>3. StreamInv'
  BY <1>1, <1>2, StreamNext
<1>4. QED BY <1>2, <1>3 DEF IInv

\* Each approval that waits, or no longer does, has an event that told the
\* pages so, and a page that does not show it yet has that event before it.
THEOREM StreamInvariant == Spec => []IInv
<1>1. QED BY InitIInv, NextIInv, PTL DEF Spec

-----------------------------------------------------------------------------
(* What it says *)

\* The stream's state keeps its types; the outbox never outgrows its bound.
THEOREM StreamTypes == Spec => []TypeOK
<1>1. IInv => TypeOK
  <2> SUFFICES ASSUME BaseInv PROVE TypeOK
    BY DEF IInv
  <2>1. conn \in [Sockets -> Conns]
    BY Parts DEF Handlers
  <2>2. QED BY <2>1, Parts DEF TypeOK, BaseInv, TypeInv, StreamType, CallType
<1>2. QED BY <1>1, StreamInvariant, PTL

\* A page at rest has heard all there is to hear.
LEMMA RestShows ==
    ASSUME NEW a, NEW v, NEW r, NEW p \in Pages, PageStory(p, a, v, r), AtRest(p), ~Excused(page[p], v)
    PROVE  Shows(page[p], a, v)
<1>1. Fits(casts, conn[page[p].sock], outbox, page[p], a, v, r)
  BY DEF PageStory, AtRest
<1>2. ~Coming(casts, page[p].sock, r) /\ ~ToReplay(conn[page[p].sock], outbox, r)
  BY DEF AtRest, Coming, ToReplay
<1>3. QED BY <1>1, <1>2 DEF Fits

\* broadcast, register_client and replay_since together: while a hook call
\* waits for an answer, every page at rest shows its approval, whatever
\* broadcasts it missed, however often it or the server went away, unless
\* events overtook one another on their way to it.
THEOREM HeldShown == Spec => []HeldIsShown
<1>1. IInv => HeldIsShown
  <2> SUFFICES ASSUME StreamInv, NEW a \in Calls, NEW p \in Pages,
                      call[a] = "held", a \in pending, AtRest(p), ~page[p].late
               PROVE  a \in page[p].view
    BY DEF IInv, HeldIsShown
  <2>1. PICK v \in Sides : v = "shown"
    BY DEF Sides
  <2>2. Wanted(a, v)
    BY <2>1 DEF Wanted
  <2>3. PICK r \in 0 .. seq : Story(a, v, r)
    BY <2>2 DEF StreamInv
  <2>4. ~Excused(page[p], v) /\ PageStory(p, a, v, r)
    BY <2>1, <2>3 DEF Excused, Story
  <2>5. Shows(page[p], a, v)
    BY <2>4, RestShows
  <2>6. QED BY <2>1, <2>5 DEF Shows
<1>2. QED BY <1>1, StreamInvariant, PTL

\* The other way round: an approval that was answered does not stay, or come
\* back, on a page at rest, although a replay repeats its request.
THEOREM ShownPending == Spec => []ShownIsPending
<1>1. IInv => ShownIsPending
  <2> SUFFICES ASSUME BaseInv, StreamInv, NEW p \in Pages,
                      AtRest(p), ~page[p].late, ~page[p].missed,
                      NEW a \in page[p].view, a \notin pending \cup withdrawn
               PROVE  FALSE
    BY DEF IInv, ShownIsPending
  <2>1. PICK v \in Sides : v = "absent"
    BY DEF Sides
  <2>2. a \in Calls /\ Wanted(a, v)
    BY <2>1, Parts, PageFields DEF Wanted
  <2>3. PICK r \in 0 .. seq : Story(a, v, r)
    BY <2>2 DEF StreamInv
  <2>4. ~Excused(page[p], v) /\ PageStory(p, a, v, r)
    BY <2>3 DEF Excused, Story
  <2>5. Shows(page[p], a, v)
    BY <2>4, RestShows
  <2>6. QED BY <2>1, <2>5 DEF Shows
<1>2. QED BY <1>1, StreamInvariant, PTL
=============================================================================
