----------------------------- MODULE Transcript -----------------------------
(***************************************************************************)
(* How the view the phones share follows the transcripts that agents write. *)
(*                                                                         *)
(* An agent appends lines to the transcript of its conversation.  The tick *)
(* of the watch loop reads what is new in the active one and hands it on   *)
(* step by step, suspended in a broadcast after each.  A phone that opens  *)
(* another conversation does so in a task of its own, so between two steps *)
(* of a batch the view may have become that of another conversation.       *)
(*                                                                         *)
(* A transcript is a sequence of lines, of which the last may be half on   *)
(* disk.  Sizes and positions count half lines.                            *)
(***************************************************************************)
EXTENDS Integers, Sequences, SequencesExt

CONSTANTS
    Convs,       \* conversations
    None,
    MaxLines     \* bound: lines of a transcript

ASSUME TranscriptAssumption == None \notin Convs /\ MaxLines \in Nat

VARIABLES
    file,        \* the complete lines of each transcript
    half,        \* what half line follows them, or None
    born,        \* the conversations in the order they were created
    supervised,  \* supervised_conversation_id
    follow,      \* follow_latest
    active,      \* active_conversation_id
    steps,       \* active_steps
    pos,         \* _last_file_pos of the backend
    at,          \* where the tick is
    batch,       \* new_steps that the loop has not come to yet
    intact       \* history: since the view was loaded no batch of an earlier
                 \* view was left, no broadcast raised and no line was cut

disk == <<file, half, born>>
view == <<supervised, follow, active, steps, pos>>
vars == <<disk, view, at, batch, intact>>

\* A user's "/rename" is a line like any other, but costs a broadcast more.
Kinds == {"say", "rename"}
Steps == [of : Convs, n : 1..MaxLines, kind : Kinds]

-----------------------------------------------------------------------------
TypeOK ==
    /\ file \in [Convs -> BoundedSeq(Kinds, MaxLines)]
    /\ half \in [Convs -> Kinds \cup {None}]
    /\ born \in Seq(Convs) /\ IsInjective(born)
    /\ supervised \in Convs \cup {None}
    /\ follow \in BOOLEAN
    /\ active \in Convs \cup {None}
    /\ steps \in Seq(Steps)
    /\ pos \in 0 .. 2 * MaxLines
    /\ at \in {"bind", "follow", "read", "send", "renamed"}
    /\ batch \in Seq(Steps)
    /\ intact \in BOOLEAN

Init ==
    /\ file = [c \in Convs |-> <<>>]
    /\ half = [c \in Convs |-> None]
    /\ born = <<>>
    /\ supervised = None
    /\ follow = TRUE
    /\ active = None
    /\ steps = <<>>
    /\ pos = 0
    /\ at = "bind"
    /\ batch = <<>>
    /\ intact = TRUE

-----------------------------------------------------------------------------
(* Agents *)

\* A variant that counts the half line it hopes for.
SizeAhead(c) == 2 * Len(file[c]) + 1

Size(c) == 2 * Len(file[c]) + (IF half[c] = None THEN 0 ELSE 1)

Begin(c) ==
    /\ ~Contains(born, c)
    /\ born' = Append(born, c)
    /\ UNCHANGED <<file, half, view, at, batch, intact>>

\* A user renames a conversation in its first line; a bound.
KindsOf(c) == IF file[c] = <<>> THEN Kinds ELSE {"say"}

\* A line reaches the disk whole or in two halves.
Write(c) ==
    /\ Contains(born, c)
    /\ Len(file[c]) < MaxLines
    /\ \/ /\ half[c] = None
          /\ \E k \in KindsOf(c) :
                \/ file' = [file EXCEPT ![c] = Append(@, k)] /\ UNCHANGED half
                \/ half' = [half EXCEPT ![c] = k] /\ UNCHANGED file
       \/ /\ half[c] # None
          /\ file' = [file EXCEPT ![c] = Append(@, half[c])]
          /\ half' = [half EXCEPT ![c] = None]
    /\ UNCHANGED <<born, view, at, batch, intact>>

-----------------------------------------------------------------------------
(* The view *)

Lines(c) == [n \in DOMAIN file[c] |-> [of |-> c, n |-> n, kind |-> file[c][n]]]

\* A line parses if it is read from its first byte to its last.
FirstWhole(p) == (p + 1) \div 2 + 1

\* _read_file from a position: every line that parses.
Read(c, p) == SubSeq(Lines(c), FirstWhole(p), Len(file[c]))

\* get_newest_conversation_id
Newest == IF born = <<>> THEN None ELSE Last(born)

\* A variant that forgets to go back to the start of the file it did not read.
LoadsTail(c) ==
    /\ active' = c
    /\ steps' = Read(c, pos)
    /\ pos' = Size(c)

\* switch_conversation up to its broadcast: on_switch, load_steps.  Reading a
\* local file does not suspend.
Loads(c) ==
    /\ active' = c
    /\ steps' = Read(c, 0)
    /\ pos' = Size(c)

\* A line that is half written when the file is read to its end is lost.
Cuts(c) == half[c] # None

\* A phone opens a conversation; picking the newest resumes following.
Open(c) ==
    /\ Contains(born, c)
    /\ follow' = (c = Newest)
    /\ Loads(c)
    /\ intact' = (batch = <<>> /\ ~Cuts(c))
    /\ UNCHANGED <<disk, supervised, at, batch>>

\* bind_supervised_conversation up to its broadcast: the view goes there, even
\* over a pin.
Binds(c) ==
    /\ supervised' = c
    /\ IF c \in {active, supervised} THEN UNCHANGED <<active, steps, pos, intact>>
       ELSE Loads(c) /\ intact' = (batch = <<>> /\ ~Cuts(c))

\* A hook call names the conversation of its agent.
HookCalls(c) ==
    /\ Contains(born, c)
    /\ Binds(c)
    /\ UNCHANGED <<disk, follow, at, batch>>

-----------------------------------------------------------------------------
(* The tick *)

Goes(step) == at' = step

\* The tick looks at the supervised agent, as long as nothing is bound.
Bind ==
    /\ at = "bind"
    /\ Goes("follow")
    /\ \/ supervised = None /\ \E c \in ToSet(born) : Binds(c)
       \/ UNCHANGED <<supervised, active, steps, pos, intact>>
    /\ UNCHANGED <<disk, follow, batch>>

\* A variant that no longer follows once it has something to show.
FollowsOnce == active = None /\ Newest # None

Follows == follow /\ supervised = None /\ Newest # None

\* follow_latest_conversation
Follow ==
    /\ at = "follow"
    /\ Goes("read")
    /\ IF Follows /\ active # Newest
       THEN Loads(Newest) /\ intact' = ~Cuts(Newest)
       ELSE UNCHANGED <<active, steps, pos, intact>>
    /\ UNCHANGED <<disk, supervised, follow, batch>>

\* A variant that waits for more than a line.
GrownByMore == active # None /\ Size(active) > pos + 2

\* The rest of the tick: what the active transcript has grown by.
Grown == active # None /\ Size(active) > pos

ReadNew ==
    /\ at = "read"
    /\ IF ~Grown
       THEN Goes("bind") /\ UNCHANGED <<pos, batch, intact>>
       ELSE /\ pos' = Size(active)
            /\ batch' = Read(active, pos)
            /\ intact' = (intact /\ ~Cuts(active))
            /\ Goes("send")
    /\ UNCHANGED <<disk, supervised, follow, active, steps>>

\* A broadcast raises and the watch loop starts over: the rest of the batch is
\* behind the position already.
GivesUp(rest) ==
    /\ Goes("bind")
    /\ batch' = <<>>
    /\ intact' = (intact /\ rest = <<>>)

\* The loop comes to a "/rename": what is active by then is renamed (names are
\* left out here), and that is broadcast before the step is added.
SendRename ==
    /\ at = "send"
    /\ batch # <<>> /\ Head(batch).kind = "rename"
    /\ \/ Goes("renamed") /\ UNCHANGED <<batch, intact>>
       \/ GivesUp(batch)
    /\ UNCHANGED <<disk, view>>

\* The step is added to what is active by then, and broadcast.
SendStep ==
    /\ at = "renamed" \/ (at = "send" /\ batch # <<>> /\ Head(batch).kind = "say")
    /\ steps' = Append(steps, Head(batch))
    /\ \/ Goes("send") /\ batch' = Tail(batch) /\ UNCHANGED intact
       \/ GivesUp(Tail(batch))
    /\ UNCHANGED <<disk, supervised, follow, active, pos>>

Sent ==
    /\ at = "send"
    /\ batch = <<>>
    /\ Goes("bind")
    /\ UNCHANGED <<disk, view, batch, intact>>

TickStep == Bind \/ Follow \/ ReadNew \/ SendRename \/ SendStep \/ Sent

Next ==
    \/ \E c \in Convs : Begin(c) \/ Write(c) \/ Open(c) \/ HookCalls(c)
    \/ TickStep

Spec == Init /\ [][Next]_vars

\* The watch loop runs.
FairSpec == Spec /\ WF_vars(TickStep)

-----------------------------------------------------------------------------
(* Properties *)

\* The steps a reconnecting phone is sent are the transcript, in order, each
\* once, up to the position read; what is not sent yet is next in the batch.
\* It takes an overtaken batch, a raising broadcast or a line read by halves to
\* break this, and the next conversation opened repairs it.
ViewIsTranscript ==
    intact /\ active # None =>
        steps \o batch = SubSeq(Lines(active), 1, pos \div 2)

\* The view follows: unless a phone picks another or an agent is supervised,
\* it comes to the newest conversation, over and over as new ones begin.
NewestIsShown ==
    \A c \in Convs :
        Newest = c ~> (active = c \/ Newest # c \/ ~follow \/ supervised # None)

\* While nobody switches, what the agent has written comes into the view, to
\* the last line.
StepsArrive ==
    \A c \in Convs :
        (active = c /\ Len(file[c]) = MaxLines)
        ~> (active # c \/ ~intact \/ \E i \in DOMAIN steps : steps[i].n = MaxLines)
=============================================================================
