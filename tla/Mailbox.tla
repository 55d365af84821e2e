------------------------------- MODULE Mailbox -------------------------------
(***************************************************************************)
(* The agent-to-agent mailbox: one append-only inbox file per session,     *)
(* written by other processes (agy-msg, a shell, an editor) and read by    *)
(* the server's watch loop, which types each new line into the session's   *)
(* terminal if the loop guard admits it.                                   *)
(*                                                                         *)
(* poll_inboxes is synchronous: while it runs no human prompt and no mute  *)
(* is served.  Writers, the clock and the target's terminal are outside    *)
(* the server and move at any time, also between two lines of one batch.   *)
(*                                                                         *)
(* A file is a sequence of complete lines and perhaps a half-written one.  *)
(* Offsets count half lines: line i starts at 2(i-1), and an odd offset is *)
(* one that was taken in the middle of a line.                             *)
(***************************************************************************)
EXTENDS LoopGuard, FiniteSets, Functions

CONSTANTS
    Sessions,         \* the sessions the spawner may register
    Senders,          \* who signs mail: sessions, or panes the server does not know
    MaxMessages,      \* bound: messages ever sent
    MaxLines,         \* bound: complete lines in one inbox
    HandsOnFiles,     \* whether others than agy-msg write to, tear and cut inboxes
    InjectMayRaise    \* whether inject_input may raise instead of returning

ASSUME BoundsAssumption == MaxMessages \in Nat /\ MaxLines \in Nat
ASSUME SwitchAssumption == HandsOnFiles \in BOOLEAN /\ InjectMayRaise \in BOOLEAN

VARIABLES
    sessions,   \* _sessions, in registration order
    up,         \* sessions whose terminal takes input
    inbox,      \* the complete lines of each inbox file
    half,       \* its half-written last line, or NoLine
    sight,      \* what the server knows of each inbox (see Sights)
    pos,        \* _inbox_pos, where sight says there is one
    pairs,      \* LoopGuard._pairs; a pair never met is a fresh one
    poll,       \* the locals of poll_inboxes
    sent,       \* history: messages sent so far; also the last id
    owed,       \* history: mail written whole while its inbox was looked at
    typed,      \* history: ids typed into each session
    again,      \* history: ids typed more than once
    recent,     \* history: ages of each pair's exchanges in the last Window ticks
    streak,     \* history: exchanges since a human typed into the pair
    alerted     \* history: pairs whose loop alert was raised since they latched

fileVars  == <<inbox, half, sent, owed>>
guardVars == <<pairs, recent, streak, alerted>>
typedVars == <<typed, again>>
vars == <<sessions, up, sight, pos, poll, fileVars, guardVars, typedVars>>

Ids == 1 .. MaxMessages

\* "never": no poll has found the inbox; looking for a file that is not there
\* leaves no trace.  "seen": the server has an offset into it.  "cut": the file
\* was cut since that offset was taken and the server has not noticed.
Sights == {"never", "seen", "cut"}
Known(s) == sight[s] \in {"seen", "cut"}

\* LoopGuard._key: pairs are undirected
Pair(a, b) == {a, b}
Pairs == {Pair(a, s) : a \in Senders, s \in Sessions}

Garbage == [id |-> 0, from |-> "nobody", sight |-> "never"]
NoLine  == [id |-> 0, from |-> "nothing", sight |-> "never"]
Messages == [id: Ids, from: Senders, sight: Sights]
Lines == Messages \cup {Garbage}

FileSize(s) == 2 * Len(inbox[s]) + (IF half[s] = NoLine THEN 0 ELSE 1)
Exists(s) == Known(s) \/ FileSize(s) > 0

Idle == [at |-> 0, session |-> 0, batch |-> <<>>, looped |-> {}]
Polling == poll.session # 0
Current == sessions[poll.session]

-----------------------------------------------------------------------------
TypeOK ==
    /\ sessions \in Seq(Sessions)
    /\ up \in SUBSET Sessions
    /\ inbox \in [Sessions -> Seq(Lines)]
    /\ half \in [Sessions -> Messages \cup {NoLine}]
    /\ sight \in [Sessions -> Sights]
    /\ pos \in [Sessions -> Nat]
    /\ pairs \in [Pairs -> PairState]
    /\ poll \in [at: Nat, session: 0 .. Len(sessions), batch: Seq(Lines), looped: SUBSET Pairs]
    /\ sent \in 0 .. MaxMessages
    /\ owed \in [Sessions -> SUBSET Messages]
    /\ typed \in [Sessions -> SUBSET Ids]
    /\ again \in SUBSET Ids
    /\ recent \in [Pairs -> Seq(0 .. Window)]
    /\ streak \in [Pairs -> Nat]
    /\ alerted \in SUBSET Pairs

Init ==
    /\ sessions = <<>>
    /\ up = {}
    /\ inbox = [s \in Sessions |-> <<>>]
    /\ half = [s \in Sessions |-> NoLine]
    /\ sight = [s \in Sessions |-> "never"]
    /\ pos = [s \in Sessions |-> 0]
    /\ pairs = [k \in Pairs |-> FreshPair]
    /\ poll = Idle
    /\ sent = 0
    /\ owed = [s \in Sessions |-> {}]
    /\ typed = [s \in Sessions |-> {}]
    /\ again = {}
    /\ recent = [k \in Pairs |-> <<>>]
    /\ streak = [k \in Pairs |-> 0]
    /\ alerted = {}

-----------------------------------------------------------------------------
(* Writers: other processes, which never look at what the server does.     *)

Room(s) == Len(inbox[s]) < MaxLines

NewMail(a, s) == [id |-> sent + 1, from |-> a, sight |-> sight[s]]

\* One write of a whole line.  Behind somebody's half line it only completes
\* a line nobody can read.
Send(a, s) ==
    /\ sent < MaxMessages
    /\ Room(s)
    /\ sent' = sent + 1
    /\ IF half[s] = NoLine
       THEN /\ inbox' = [inbox EXCEPT ![s] = Append(@, NewMail(a, s))]
            /\ owed' = [owed EXCEPT ![s] = @ \cup {NewMail(a, s)}]
            /\ UNCHANGED half
       ELSE /\ inbox' = [inbox EXCEPT ![s] = Append(@, Garbage)]
            /\ half' = [half EXCEPT ![s] = NoLine]
            /\ UNCHANGED owed
    /\ UNCHANGED <<sessions, up, sight, pos, poll, guardVars, typedVars>>

\* A write in flight: its newline has not landed yet.
SendHalf(a, s) ==
    /\ HandsOnFiles
    /\ sent < MaxMessages
    /\ half[s] = NoLine
    /\ sent' = sent + 1
    /\ half' = [half EXCEPT ![s] = NewMail(a, s)]
    /\ UNCHANGED <<sessions, up, sight, pos, poll, inbox, owed, guardVars, typedVars>>

SendRest(s) ==
    /\ half[s] # NoLine
    /\ Room(s)
    /\ inbox' = [inbox EXCEPT ![s] = Append(@, half[s])]
    /\ owed' = [owed EXCEPT ![s] = @ \cup {half[s]}]
    /\ half' = [half EXCEPT ![s] = NoLine]
    /\ UNCHANGED <<sessions, up, sight, pos, poll, sent, guardVars, typedVars>>

\* A stray hand edit, or the rest of a line another writer tore.
Stray(s) ==
    /\ HandsOnFiles
    /\ half[s] = NoLine
    /\ Room(s)
    /\ inbox' = [inbox EXCEPT ![s] = Append(@, Garbage)]
    /\ UNCHANGED <<sessions, up, sight, pos, poll, half, sent, owed, guardVars, typedVars>>

\* A rotation or an edit empties the file under the server.
Cut(s) ==
    /\ HandsOnFiles
    /\ Known(s)
    /\ FileSize(s) > 0
    /\ inbox' = [inbox EXCEPT ![s] = <<>>]
    /\ half' = [half EXCEPT ![s] = NoLine]
    /\ sight' = [sight EXCEPT ![s] = "cut"]
    /\ owed' = [owed EXCEPT ![s] = {}]
    /\ UNCHANGED <<sessions, up, pos, poll, sent, guardVars, typedVars>>

-----------------------------------------------------------------------------
(* poll_inboxes, one session and one line at a time *)

AtLine == poll.batch # <<>>
Opening == Polling /\ ~AtLine

PollBegins ==
    /\ ~Polling
    /\ sessions # <<>>
    /\ poll' = [Idle EXCEPT !.session = 1]
    /\ UNCHANGED <<sessions, up, sight, pos, fileVars, guardVars, typedVars>>

\* A variant that goes one session too far.
LeaveLate(looped) ==
    IF poll.session <= Len(sessions)
    THEN /\ poll' = [Idle EXCEPT !.session = poll.session + 1, !.looped = looped]
         /\ UNCHANGED alerted
    ELSE /\ poll' = Idle
         /\ alerted' = alerted \cup looped

\* On to the next session; after the last one the watch loop raises an alert
\* for every pair that latched.
Leave(looped) ==
    IF poll.session < Len(sessions)
    THEN /\ poll' = [Idle EXCEPT !.session = poll.session + 1, !.looped = looped]
         /\ UNCHANGED alerted
    ELSE /\ poll' = Idle
         /\ alerted' = alerted \cup looped

\* stat raises: there is no inbox yet, and no offset is kept for it.
NoInbox ==
    /\ Opening
    /\ ~Exists(Current)
    /\ Leave(poll.looped)
    /\ UNCHANGED <<sessions, up, sight, pos, fileVars, pairs, recent, streak, typedVars>>

\* First sight, or a file that shrank: the offset goes to the file's end.
Resync ==
    /\ Opening
    /\ Exists(Current)
    /\ Known(Current) => FileSize(Current) < pos[Current]
    /\ sight' = [sight EXCEPT ![Current] = "seen"]
    /\ pos' = [pos EXCEPT ![Current] = FileSize(Current)]
    /\ Leave(poll.looped)
    /\ UNCHANGED <<sessions, up, fileVars, pairs, recent, streak, typedVars>>

Unread(s) == SubSeq(inbox[s], pos[s] \div 2 + 1, Len(inbox[s]))

\* Nothing new, or nothing but a write in flight.
NothingComplete ==
    /\ Opening
    /\ Known(Current)
    /\ FileSize(Current) >= pos[Current]
    /\ Unread(Current) = <<>>
    /\ Leave(poll.looped)
    /\ UNCHANGED <<sessions, up, sight, pos, fileVars, pairs, recent, streak, typedVars>>

ReadBatch ==
    /\ Opening
    /\ Known(Current)
    /\ FileSize(Current) >= pos[Current]
    /\ Unread(Current) # <<>>
    /\ poll' = [poll EXCEPT !.batch = Unread(Current), !.at = pos[Current]]
    /\ UNCHANGED <<sessions, up, sight, pos, fileVars, guardVars, typedVars>>

Line == Head(poll.batch)
NextLine == 2 * (poll.at \div 2 + 1)
Readable == poll.at % 2 = 0 /\ Line # Garbage
LinePair == Pair(Line.from, Current)

\* The line is done with; after the last one its session's offset is stored.
Advance(looped) ==
    IF Len(poll.batch) > 1
    THEN /\ poll' = [poll EXCEPT !.at = NextLine, !.batch = Tail(@), !.looped = looped]
         /\ UNCHANGED <<pos, alerted>>
    ELSE /\ pos' = [pos EXCEPT ![Current] = NextLine]
         /\ Leave(looped)

\* Variants: the held line counts as read; the whole batch counts as unread;
\* the pairs that latched earlier in the poll are forgotten.
HoldSkips ==
    /\ pos' = [pos EXCEPT ![Current] = NextLine]
    /\ Leave(poll.looped)

HoldRestarts ==
    /\ UNCHANGED pos
    /\ Leave(poll.looped)

HoldForgets ==
    /\ pos' = [pos EXCEPT ![Current] = poll.at]
    /\ Leave({})

\* The rest of the batch stays in the inbox, behind the offset.
HoldRest ==
    /\ pos' = [pos EXCEPT ![Current] = poll.at]
    /\ Leave(poll.looped)

DropLine ==
    /\ AtLine
    /\ ~Readable
    /\ Advance(poll.looped)
    /\ UNCHANGED <<sessions, up, sight, fileVars, pairs, recent, streak, typedVars>>

HoldLine ==
    /\ AtLine
    /\ Readable
    /\ ~Admits(pairs[LinePair])
    /\ pairs' = [pairs EXCEPT ![LinePair] = Purged(@)]
    /\ HoldRest
    /\ UNCHANGED <<sessions, up, sight, fileVars, recent, streak, typedVars>>

\* inject_input finds the terminal gone.
Refused ==
    /\ AtLine
    /\ Readable
    /\ Admits(pairs[LinePair])
    /\ Current \notin up
    /\ pairs' = [pairs EXCEPT ![LinePair] = Purged(@)]
    /\ HoldRest
    /\ UNCHANGED <<sessions, up, sight, fileVars, recent, streak, typedVars>>

TypeLine ==
    /\ AtLine
    /\ Readable
    /\ Admits(pairs[LinePair])
    /\ Current \in up
    /\ typed' = [typed EXCEPT ![Current] = @ \cup {Line.id}]
    /\ again' = IF Line.id \in typed[Current] THEN again \cup {Line.id} ELSE again
    /\ pairs' = [pairs EXCEPT ![LinePair] = Committed(@)]
    /\ recent' = [recent EXCEPT ![LinePair] = Append(@, 0)]
    /\ streak' = [streak EXCEPT ![LinePair] = @ + 1]
    /\ Advance(IF Trips(pairs[LinePair]) THEN poll.looped \cup {LinePair} ELSE poll.looped)
    /\ UNCHANGED <<sessions, up, sight, fileVars>>

\* inject_input raises (tmux cannot be started): the exception leaves
\* poll_inboxes for the watch loop's catch-all, and with it the offset of the
\* batch and the list of the pairs that latched.
InjectRaises ==
    /\ InjectMayRaise
    /\ AtLine
    /\ Readable
    /\ Admits(pairs[LinePair])
    /\ pairs' = [pairs EXCEPT ![LinePair] = Purged(@)]
    /\ poll' = Idle
    /\ UNCHANGED <<sessions, up, sight, pos, fileVars, recent, streak, alerted, typedVars>>

Poll ==
    \/ PollBegins \/ NoInbox \/ Resync \/ NothingComplete \/ ReadBatch
    \/ DropLine \/ HoldLine \/ Refused \/ TypeLine \/ InjectRaises

-----------------------------------------------------------------------------
(* Served between two polls: the spawner, humans, the mute switch. *)

\* register_session, from the spawner, whose terminal is up
Register(s) ==
    /\ ~Polling
    /\ s \notin Range(sessions)
    /\ sessions' = Append(sessions, s)
    /\ up' = up \cup {s}
    /\ UNCHANGED <<sight, pos, poll, fileVars, guardVars, typedVars>>

\* note_human_prompt: a human typed into s
HumanPrompt(s) ==
    /\ ~Polling
    /\ s \in Range(sessions)
    /\ pairs' = [k \in Pairs |-> IF s \in k THEN HumanSpoke(pairs[k]) ELSE pairs[k]]
    /\ streak' = [k \in Pairs |-> IF s \in k THEN 0 ELSE streak[k]]
    /\ alerted' = {k \in alerted : s \notin k}
    /\ UNCHANGED <<sessions, up, sight, pos, poll, fileVars, recent, typedVars>>

\* mute_pair, unmute_pair
Mute(k, on) ==
    /\ ~Polling
    /\ pairs[k].muted # on
    /\ pairs' = [pairs EXCEPT ![k].muted = on]
    /\ UNCHANGED <<sessions, up, sight, pos, poll, fileVars, recent, streak, alerted, typedVars>>

-----------------------------------------------------------------------------
(* The terminal and the clock *)

Terminal(s) ==
    /\ s \in Range(sessions)
    /\ up' = IF s \in up THEN up \ {s} ELSE up \cup {s}
    /\ UNCHANGED <<sessions, sight, pos, poll, fileVars, guardVars, typedVars>>

Tick ==
    /\ pairs' = [k \in Pairs |-> Aged(pairs[k])]
    /\ recent' = [k \in Pairs |-> Fresh(Older(recent[k]))]
    /\ UNCHANGED <<sessions, up, sight, pos, poll, fileVars, streak, alerted, typedVars>>

Next ==
    \/ \E s \in Sessions :
          \/ \E a \in Senders : Send(a, s) \/ SendHalf(a, s)
          \/ SendRest(s) \/ Stray(s) \/ Cut(s)
          \/ Register(s) \/ HumanPrompt(s) \/ Terminal(s)
    \/ \E k \in Pairs, on \in BOOLEAN : Mute(k, on)
    \/ Poll
    \/ Tick

Spec == Init /\ [][Next]_vars

\* The watch loop polls again and again, and time passes.  Nobody is assumed
\* to write, to speak, to unmute or to restart a terminal.
FairSpec == Spec /\ WF_vars(Poll) /\ WF_vars(Tick)

-----------------------------------------------------------------------------
(* Properties *)

\* poll_inboxes: "Lines already delivered in the batch advance the offset, so
\* a target that dies mid-batch is not re-typed its own mail."  Each message
\* is typed at most once and never after a later one, across dying terminals,
\* held batches, half lines, cut files and re-polls.
OnceInOrder ==
    /\ [](again = {})
    /\ [][\A s \in Sessions : \A m \in typed'[s] \ typed[s], n \in typed[s] : m > n]_vars

\* poll_inboxes: held mail "is not lost, only waited for".  What was written
\* whole into an inbox the server has an offset for was typed, or still lies
\* in the file where the next poll will read it.
NothingLost ==
    \A s \in Sessions : \A m \in owed[s] :
        m.sight = "seen" =>
            \/ m.id \in typed[s]
            \/ \E i \in DOMAIN inbox[s] : inbox[s][i] = m /\ 2 * (i - 1) >= pos[s]

\* LoopGuard: the rate window counts what was delivered, whatever was held,
\* refused or retried and however often a human reset the pair: no stretch of
\* Window ticks sees more than RateLimit exchanges of one pair, both
\* directions together.
RateHolds == \A k \in Pairs : Len(recent[k]) <= RateLimit

\* LoopGuard: a pair that exchanged PingPongLimit messages with no human in
\* between is latched, and nothing more passes until a human types into one
\* of its members.
LatchHolds ==
    \A k \in Pairs :
        /\ streak[k] <= PingPongLimit
        /\ pairs[k].looping <=> streak[k] = PingPongLimit

\* poll_inboxes: the latched pairs are returned "so the watch loop can raise
\* the alert exactly once".  Once a poll is over every latched pair has had
\* its alert, and no other pair has one.
LatchIsAnnounced ==
    ~Polling => \A k \in Pairs : pairs[k].looping <=> k \in alerted

Paused(k) == pairs[k].muted \/ pairs[k].looping
Due(s, m) == \E l \in owed[s] : l.id = m /\ l.sight = "seen" /\ m \notin typed[s]

\* Held mail moves again by itself, also what the rate limit held.  A message
\* to a session that takes input and none of whose pairs is muted or latched
\* is typed, unless one of these ends first (or the file is cut).
HeldMailMoves ==
    \A s \in Sessions, m \in Ids :
        Due(s, m)
        ~> ~Due(s, m) \/ s \notin up \/ \E k \in Pairs : s \in k /\ Paused(k)
=============================================================================
