--------------------------- MODULE TranscriptProofs ---------------------------
(***************************************************************************)
(* The view follows the transcript, for every set of conversations and     *)
(* transcripts of every length.                                            *)
(***************************************************************************)
EXTENDS Transcript, TLAPS

\* A half line leaves room for the line it becomes.
FileInv ==
    /\ file \in [Convs -> Seq(Kinds)]
    /\ half \in [Convs -> Kinds \cup {None}]
    /\ \A c \in Convs : /\ Len(file[c]) <= MaxLines
                        /\ half[c] # None => Len(file[c]) < MaxLines

BornInv == born \in Seq(Convs) /\ IsInjective(born)

\* A batch is only held while it is sent, and a renaming is of its first step.
LoopInv ==
    /\ at \in {"bind", "follow", "read", "send", "renamed"}
    /\ batch \in Seq(Steps)
    /\ at \in {"bind", "follow", "read"} => batch = <<>>
    /\ at = "renamed" => batch # <<>>

ShownInv ==
    /\ supervised \in Convs \cup {None}
    /\ follow \in BOOLEAN
    /\ active \in Convs \cup {None}
    /\ steps \in Seq(Steps)
    /\ pos \in 0 .. 2 * MaxLines
    /\ intact \in BOOLEAN

\* Nothing is read that is not on disk.  As long as nothing went wrong the
\* position is behind a whole line, and what is shown and what is still in the
\* batch are together the lines before it.
ReadUpTo(m) == pos = 2 * m /\ steps \o batch = SubSeq(Lines(active), 1, m)
ViewInv ==
    active # None =>
        /\ pos <= Size(active)
        /\ intact => \E m \in 0 .. Len(file[active]) : ReadUpTo(m)

TInv == FileInv /\ BornInv /\ LoopInv /\ ShownInv /\ ViewInv

-----------------------------------------------------------------------------
(* Sequences *)

LEMMA BoundedIs ==
    ASSUME NEW S, NEW n \in Nat, NEW s \in Seq(S), Len(s) <= n
    PROVE  s \in BoundedSeq(S, n)
<1>1. Len(s) \in 0 .. n /\ s \in [1 .. Len(s) -> S]
  OBVIOUS
<1>2. QED BY <1>1 DEF BoundedSeq, SeqOf

LEMMA SameElements ==
    ASSUME NEW S, NEW s \in Seq(S), NEW t \in Seq(S), Len(s) = Len(t),
           \A i \in 1 .. Len(s) : s[i] = t[i]
    PROVE  s = t
OBVIOUS

LEMMA ConcatEmpty ==
    ASSUME NEW S, NEW s \in Seq(S)
    PROVE  s \o <<>> = s
OBVIOUS

\* Moving the head of one sequence to the end of another.
LEMMA ConcatMoves ==
    ASSUME NEW S, NEW s \in Seq(S), NEW b \in Seq(S), b # <<>>
    PROVE  /\ Append(s, Head(b)) \in Seq(S) /\ Tail(b) \in Seq(S)
           /\ Append(s, Head(b)) \o Tail(b) = s \o b
<1>1. Head(b) = b[1] /\ Len(b) \in Nat /\ Len(b) >= 1 /\ Len(s) \in Nat
  OBVIOUS
<1>2. /\ Append(s, Head(b)) \in Seq(S) /\ Len(Append(s, Head(b))) = Len(s) + 1
      /\ Tail(b) \in Seq(S) /\ Len(Tail(b)) = Len(b) - 1
      /\ \A i \in 1 .. Len(b) - 1 : Tail(b)[i] = b[i + 1]
      /\ \A i \in 1 .. Len(s) : Append(s, Head(b))[i] = s[i]
      /\ Append(s, Head(b))[Len(s) + 1] = b[1]
  BY <1>1
<1> DEFINE a == Append(s, Head(b))
           t == Tail(b)
<1> HIDE DEF a, t
<1>3. /\ a \o t \in Seq(S) /\ Len(a \o t) = Len(s) + Len(b)
      /\ s \o b \in Seq(S) /\ Len(s \o b) = Len(s) + Len(b)
  BY <1>1, <1>2 DEF a, t
<1>4. ASSUME NEW i \in 1 .. Len(s) + Len(b) PROVE (a \o t)[i] = (s \o b)[i]
  <2>1. CASE i <= Len(s)
    BY <1>1, <1>2, <2>1 DEF a, t
  <2>2. CASE i = Len(s) + 1
    BY <1>1, <1>2, <2>2 DEF a, t
  <2>3. CASE i > Len(s) + 1
    <3>1. i - (Len(s) + 1) \in 1 .. Len(b) - 1 /\ i - Len(s) \in 1 .. Len(b)
      BY <1>1, <2>3
    <3>2. Len(a) = Len(s) + 1 /\ Len(t) = Len(b) - 1 /\ a \in Seq(S) /\ t \in Seq(S)
      BY <1>2 DEF a, t
    <3>3. (a \o t)[i] = t[i - (Len(s) + 1)]
      BY <1>1, <2>3, <3>1, <3>2
    <3>4. (s \o b)[i] = b[i - Len(s)]
      BY <1>1, <2>3, <3>1
    <3>5. t[i - (Len(s) + 1)] = b[(i - (Len(s) + 1)) + 1] /\ (i - (Len(s) + 1)) + 1 = i - Len(s)
      BY <1>1, <1>2, <3>1 DEF t
    <3>6. QED BY <3>3, <3>4, <3>5
  <2>4. i \in Nat /\ (i <= Len(s) \/ i = Len(s) + 1 \/ i > Len(s) + 1)
    BY <1>1
  <2>5. QED BY <2>1, <2>2, <2>3, <2>4
<1>5. a \o t = s \o b
  BY <1>3, <1>4, SameElements
<1>6. QED BY <1>2, <1>5 DEF a, t

LEMMA PrefixGoesOn ==
    ASSUME NEW S, NEW l \in Seq(S), NEW m \in 0 .. Len(l)
    PROVE  SubSeq(l, 1, m) \o SubSeq(l, m + 1, Len(l)) = SubSeq(l, 1, Len(l))
<1> DEFINE a == SubSeq(l, 1, m)
           t == SubSeq(l, m + 1, Len(l))
           w == SubSeq(l, 1, Len(l))
<1>1. Len(l) \in Nat /\ m \in Nat /\ m <= Len(l)
  OBVIOUS
<1>2. /\ a \in Seq(S) /\ Len(a) = m /\ \A i \in 1 .. m : a[i] = l[i]
      /\ w \in Seq(S) /\ Len(w) = Len(l) /\ \A i \in 1 .. Len(l) : w[i] = l[i]
  BY <1>1
<1>3. /\ t \in Seq(S) /\ Len(t) = Len(l) - m
      /\ \A i \in 1 .. Len(l) - m : t[i] = l[m + i]
  <2>1. /\ t \in Seq(S) /\ Len(t) = Len(l) - m
        /\ \A i \in 1 .. Len(l) - m : t[i] = l[(m + 1) + i - 1]
    BY <1>1
  <2>2. \A i \in 1 .. Len(l) - m : (m + 1) + i - 1 = m + i
    BY <1>1
  <2>3. QED BY <2>1, <2>2
<1> HIDE DEF a, t, w
<1>4. a \o t \in Seq(S) /\ Len(a \o t) = Len(l)
  BY <1>1, <1>2, <1>3
<1>5. ASSUME NEW i \in 1 .. Len(l) PROVE (a \o t)[i] = w[i]
  <2>1. CASE i <= m
    <3>1. i \in 1 .. m /\ i \in 1 .. Len(a)
      BY <1>1, <1>2, <2>1
    <3>2. (a \o t)[i] = a[i]
      BY <1>2, <1>3, <3>1
    <3>3. QED BY <1>2, <3>1, <3>2
  <2>2. CASE i > m
    <3>1. i - m \in 1 .. Len(l) - m /\ m + (i - m) = i
      BY <1>1, <2>2
    <3>2. (a \o t)[i] = t[i - m]
      BY <1>1, <1>2, <1>3, <2>2, <3>1
    <3>3. t[i - m] = l[i]
      BY <1>3, <3>1
    <3>4. QED BY <1>2, <3>2, <3>3
  <2>3. i <= m \/ i > m
    BY <1>1
  <2>4. QED BY <2>1, <2>2, <2>3
<1>6. a \o t = w
  BY <1>2, <1>4, <1>5, SameElements
<1>7. QED BY <1>6 DEF a, t, w

-----------------------------------------------------------------------------
(* Reading *)

LEMMA LinesType ==
    ASSUME FileInv, NEW c \in Convs
    PROVE  /\ Lines(c) \in Seq(Steps) /\ Len(Lines(c)) = Len(file[c]) /\ Len(file[c]) \in Nat
           /\ \A i \in 1 .. Len(file[c]) : Lines(c)[i] = [of |-> c, n |-> i, kind |-> file[c][i]]
<1>1. file[c] \in Seq(Kinds) /\ Len(file[c]) \in Nat /\ Len(file[c]) <= MaxLines
  BY DEF FileInv
<1>2. DOMAIN file[c] = 1 .. Len(file[c])
  BY <1>1
<1>3. ASSUME NEW i \in 1 .. Len(file[c])
      PROVE  [of |-> c, n |-> i, kind |-> file[c][i]] \in Steps
  BY <1>1, TranscriptAssumption DEF Steps
<1>4. Lines(c) \in [1 .. Len(file[c]) -> Steps]
  BY <1>2, <1>3 DEF Lines
<1>5. QED BY <1>1, <1>2, <1>4 DEF Lines

LEMMA SizeType ==
    ASSUME FileInv, NEW c \in Convs
    PROVE  /\ Size(c) \in 0 .. 2 * MaxLines /\ Len(file[c]) \in Nat
           /\ half[c] = None => Size(c) = 2 * Len(file[c])
           /\ half[c] # None => Size(c) = 2 * Len(file[c]) + 1
<1> DEFINE n == Len(file[c])
<1>1. /\ n \in Nat /\ n <= MaxLines /\ (half[c] # None => n < MaxLines) /\ MaxLines \in Nat
      /\ Size(c) = 2 * n + (IF half[c] = None THEN 0 ELSE 1)
  BY TranscriptAssumption DEF FileInv, Size
<1> HIDE DEF n
<1>2. CASE half[c] = None
  BY <1>1, <1>2 DEF n
<1>3. CASE half[c] # None
  BY <1>1, <1>3 DEF n
<1>4. QED BY <1>2, <1>3

LEMMA ReadType ==
    ASSUME FileInv, NEW c \in Convs, NEW p \in Nat
    PROVE  Read(c, p) \in Seq(Steps)
<1>1. FirstWhole(p) \in Nat /\ FirstWhole(p) >= 1
  BY DEF FirstWhole
<1>2. QED BY <1>1, LinesType DEF Read

LEMMA ReadFrom ==
    ASSUME FileInv, NEW c \in Convs, NEW m \in Nat
    PROVE  Read(c, 2 * m) = SubSeq(Lines(c), m + 1, Len(file[c]))
<1>1. FirstWhole(2 * m) = m + 1
  BY DEF FirstWhole
<1>2. QED BY <1>1 DEF Read

\* A conversation is loaded, in the middle of no batch if the view is intact.
LEMMA LoadsView ==
    ASSUME TInv, NEW c \in Convs, Loads(c), UNCHANGED <<file, half, batch>>,
           intact' \in BOOLEAN, intact' => batch = <<>> /\ ~Cuts(c)
    PROVE  /\ ViewInv'
           /\ active' \in Convs /\ steps' \in Seq(Steps) /\ pos' \in 0 .. 2 * MaxLines
<1> DEFINE l == Lines(c)
           n == Len(file[c])
<1>1. /\ active' = c /\ pos' = Size(c) /\ steps' = Read(c, 0) /\ Size(c)' = Size(c) /\ Lines(c)' = l
  BY DEF Loads, Size, Lines
<1>2. l \in Seq(Steps) /\ n \in Nat /\ Len(l) = n
  BY LinesType DEF TInv
<1>3. Read(c, 0) = SubSeq(l, 1, n)
  <2>1. Read(c, 2 * 0) = SubSeq(l, 0 + 1, n)
    BY ReadFrom DEF TInv
  <2>2. QED BY <2>1
<1>4. steps' \in Seq(Steps) /\ pos' \in 0 .. 2 * MaxLines /\ pos' <= Size(c)
  BY <1>1, ReadType, SizeType DEF TInv
<1>5. ASSUME intact' PROVE ReadUpTo(n)'
  <2>1. batch' = <<>> /\ half[c] = None
    BY <1>5 DEF Cuts
  <2>2. pos' = 2 * n
    BY <1>1, <2>1, SizeType DEF TInv
  <2>3. steps' \o batch' = SubSeq(l, 1, n)
    BY <1>1, <1>3, <1>4, <2>1, ConcatEmpty
  <2>4. QED BY <1>1, <2>2, <2>3 DEF ReadUpTo
<1>6. QED BY <1>1, <1>2, <1>4, <1>5 DEF ViewInv

-----------------------------------------------------------------------------
LEMMA TInit == Init => TInv
<1> SUFFICES ASSUME Init PROVE TInv
  OBVIOUS
<1>1. FileInv
  BY TranscriptAssumption DEF Init, FileInv
<1>2. BornInv /\ LoopInv
  BY DEF Init, BornInv, LoopInv, IsInjective
<1>3. ShownInv /\ ViewInv
  BY TranscriptAssumption DEF Init, ShownInv, ViewInv
<1>4. QED BY <1>1, <1>2, <1>3 DEF TInv

LEMMA NewestType == BornInv => Newest \in Convs \cup {None}
BY DEF BornInv, Newest, Last

LEMMA BeginStep ==
    ASSUME TInv, NEW c \in Convs, Begin(c)
    PROVE  TInv'
<1>1. born \in Seq(Convs) /\ IsInjective(born) /\ born' = Append(born, c) /\ ~Contains(born, c)
  BY DEF TInv, BornInv, Begin
<1>2. /\ born' \in Seq(Convs) /\ DOMAIN born' = 1 .. Len(born) + 1 /\ Len(born) \in Nat
      /\ born'[Len(born) + 1] = c /\ \A i \in 1 .. Len(born) : born'[i] = born[i]
  BY <1>1
<1>3. \A i \in 1 .. Len(born) : born[i] # c
  BY <1>1 DEF Contains
<1>4. IsInjective(born')
  BY <1>1, <1>2, <1>3 DEF IsInjective
<1>5. FileInv' /\ LoopInv' /\ ShownInv'
  BY DEF TInv, Begin, FileInv, LoopInv, ShownInv, view
<1>6. ViewInv'
  BY DEF TInv, Begin, ViewInv, view, Size, Lines, ReadUpTo
<1>7. QED BY <1>2, <1>4, <1>5, <1>6 DEF TInv, BornInv

\* What is read stays what it was when the transcript grows behind it.
LEMMA WriteStep ==
    ASSUME TInv, NEW c \in Convs, Write(c)
    PROVE  TInv'
<1>1. /\ FileInv /\ Len(file[c]) < MaxLines /\ Len(file[c]) \in Nat /\ MaxLines \in Nat
      /\ UNCHANGED <<born, view, at, batch, intact>> /\ file[c] \in Seq(Kinds)
  BY TranscriptAssumption DEF TInv, Write, FileInv
<1>2. \/ \E k \in Kinds :
            file' = [file EXCEPT ![c] = Append(@, k)] /\ half[c] = None /\ half' = half
      \/ \E k \in Kinds : half' = [half EXCEPT ![c] = k] /\ half[c] = None /\ file' = file
      \/ /\ half[c] \in Kinds /\ file' = [file EXCEPT ![c] = Append(@, half[c])]
         /\ half' = [half EXCEPT ![c] = None]
  BY <1>1 DEF Write, KindsOf, Kinds, FileInv
<1>3. FileInv' /\ (file' = file \/ \E k \in Kinds : file' = [file EXCEPT ![c] = Append(@, k)])
  <2>1. ASSUME NEW k \in Kinds
        PROVE  /\ Append(file[c], k) \in Seq(Kinds)
               /\ Len(Append(file[c], k)) = Len(file[c]) + 1
    BY <1>1
  <2>2. CASE \E k \in Kinds :
                file' = [file EXCEPT ![c] = Append(@, k)] /\ half[c] = None /\ half' = half
    <3>1. PICK k \in Kinds :
            file' = [file EXCEPT ![c] = Append(@, k)] /\ half[c] = None /\ half' = half
      BY <2>2
    <3>2. file' \in [Convs -> Seq(Kinds)] /\ file'[c] = Append(file[c], k) /\ half'[c] = None
      BY <1>1, <2>1, <3>1 DEF FileInv
    <3>3. \A d \in Convs : d # c => file'[d] = file[d] /\ half'[d] = half[d]
      BY <1>1, <3>1 DEF FileInv
    <3>4. Len(file'[c]) <= MaxLines
      BY <1>1, <2>1, <3>2
    <3>5. QED BY <1>1, <3>1, <3>2, <3>3, <3>4 DEF FileInv
  <2>3. CASE \E k \in Kinds : half' = [half EXCEPT ![c] = k] /\ half[c] = None /\ file' = file
    BY <1>1, <2>3 DEF FileInv
  <2>4. CASE /\ half[c] \in Kinds /\ file' = [file EXCEPT ![c] = Append(@, half[c])]
             /\ half' = [half EXCEPT ![c] = None]
    <3>1. file' \in [Convs -> Seq(Kinds)] /\ file'[c] = Append(file[c], half[c]) /\ half'[c] = None
      BY <1>1, <2>1, <2>4 DEF FileInv
    <3>2. /\ \A d \in Convs : d # c => file'[d] = file[d] /\ half'[d] = half[d]
          /\ half' \in [Convs -> Kinds \cup {None}]
      BY <1>1, <2>4 DEF FileInv
    <3>3. Len(file'[c]) <= MaxLines
      BY <1>1, <2>1, <2>4, <3>1
    <3>4. FileInv'
      BY <1>1, <3>1, <3>2, <3>3 DEF FileInv
    <3>5. QED BY <2>4, <3>4
  <2>5. QED BY <1>2, <2>2, <2>3, <2>4
<1>4. BornInv' /\ LoopInv' /\ ShownInv'
  BY <1>1 DEF TInv, BornInv, LoopInv, ShownInv, view
<1>5. ASSUME active # None PROVE ViewInv'
  <2>1. PICK a \in Convs : a = active /\ a = active'
    BY <1>1, <1>5 DEF TInv, ShownInv, view
  <2>2. /\ Len(file[a]) \in Nat /\ Len(file'[a]) \in Nat /\ Len(file[a]) <= Len(file'[a])
        /\ \A i \in 1 .. Len(file[a]) : file'[a][i] = file[a][i]
    <3>1. file[a] \in Seq(Kinds)
      BY <1>1 DEF FileInv
    <3>2. CASE file'[a] = file[a]
      BY <3>1, <3>2
    <3>3. CASE \E k \in Kinds : file'[a] = Append(file[a], k)
      BY <3>1, <3>3
    <3>4. file'[a] = file[a] \/ \E k \in Kinds : file'[a] = Append(file[a], k)
      BY <1>1, <1>3 DEF FileInv
    <3>5. QED BY <3>2, <3>3, <3>4
  <2>3. Size(a) <= Size(a)' /\ Size(a) \in Nat /\ Size(a)' \in Nat
    <3>1. CASE a # c
      <4>1. file'[a] = file[a] /\ half'[a] = half[a]
        BY <1>1, <1>2, <3>1 DEF FileInv
      <4>2. Size(a)' = Size(a)
        BY <4>1 DEF Size
      <4>3. Size(a) \in Nat
        BY <1>1, SizeType
      <4>4. QED BY <4>2, <4>3
    <3>2. CASE a = c
      <4>1. /\ half[a] = None => Size(a) = 2 * Len(file[a])
            /\ half[a] # None => Size(a) = 2 * Len(file[a]) + 1
        BY <1>1, SizeType
      <4>2. /\ half'[a] = None => Size(a)' = 2 * Len(file'[a])
            /\ half'[a] # None => Size(a)' = 2 * Len(file'[a]) + 1
        <5> DEFINE n == Len(file'[a])
        <5>1. Size(a)' = 2 * n + (IF half'[a] = None THEN 0 ELSE 1) /\ n \in Nat
          BY <2>2 DEF Size
        <5> HIDE DEF n
        <5>2. /\ half'[a] = None => Size(a)' = 2 * n
              /\ half'[a] # None => Size(a)' = 2 * n + 1
          BY <5>1
        <5>3. QED BY <5>2 DEF n
      <4>3. half[a] # None => Len(file'[a]) = Len(file[a]) + 1
        BY <1>1, <1>2, <3>2 DEF FileInv
      <4>4. QED BY <2>2, <4>1, <4>2, <4>3
    <3>3. QED BY <3>1, <3>2
  <2>4. ASSUME NEW m \in 0 .. Len(file[a])
        PROVE  SubSeq(Lines(a), 1, m) = SubSeq(Lines(a), 1, m)'
    <3> DEFINE l == Lines(a)
               k == Lines(a)'
    <3>1. /\ l \in Seq(Steps) /\ Len(l) = Len(file[a])
          /\ \A i \in 1 .. Len(file[a]) : l[i] = [of |-> a, n |-> i, kind |-> file[a][i]]
      BY <1>1, LinesType
    <3>2. /\ k = [n \in DOMAIN file'[a] |-> [of |-> a, n |-> n, kind |-> file'[a][n]]]
          /\ DOMAIN file'[a] = 1 .. Len(file'[a])
      BY <1>1, <1>3 DEF Lines, FileInv
    <3>3. \A i \in 1 .. m : k[i] = l[i] /\ i \in 1 .. Len(file'[a]) /\ i \in 1 .. Len(file[a])
      BY <2>2, <3>1, <3>2
    <3>4. SubSeq(l, 1, m) = [i \in 1 .. m |-> l[i]] /\ SubSeq(k, 1, m) = [i \in 1 .. m |-> k[i]]
      BY <2>2
    <3>5. QED BY <3>3, <3>4
  <2>5. pos' = pos /\ steps' \o batch' = steps \o batch /\ intact' = intact
    BY <1>1 DEF view
  <2>6. /\ pos <= Size(a) /\ pos \in Nat
        /\ intact => \E m \in 0 .. Len(file[a]) :
                        pos = 2 * m /\ steps \o batch = SubSeq(Lines(a), 1, m)
    <3>1. pos \in 0 .. 2 * MaxLines /\ a # None
      BY <1>5, <2>1 DEF TInv, ShownInv
    <3>2. Lines(active) = Lines(a) /\ Size(active) = Size(a)
      BY <2>1
    <3>3. QED BY <1>1, <1>5, <2>1, <3>1, <3>2 DEF TInv, ViewInv, ReadUpTo
  <2>7. pos' <= Size(a)'
    BY <2>3, <2>5, <2>6
  <2>8. ASSUME intact'
        PROVE  \E m \in 0 .. Len(file'[a]) :
                    pos' = 2 * m /\ steps' \o batch' = SubSeq(Lines(a), 1, m)'
    <3>1. PICK m \in 0 .. Len(file[a]) : pos = 2 * m /\ steps \o batch = SubSeq(Lines(a), 1, m)
      BY <2>5, <2>6, <2>8
    <3>2. m \in 0 .. Len(file'[a])
      BY <2>2
    <3>3. QED BY <2>4, <2>5, <3>1, <3>2
  <2>9. QED BY <2>1, <2>7, <2>8 DEF ViewInv, ReadUpTo
<1>6. active = None => ViewInv'
  BY <1>1 DEF ViewInv, view
<1>7. QED BY <1>3, <1>4, <1>5, <1>6 DEF TInv

\* Picking, supervising and following load a conversation or leave the view.
LEMMA ViewStays ==
    ASSUME TInv, UNCHANGED <<file, half, batch, active, steps, pos, intact>>
    PROVE  ViewInv'
BY DEF TInv, ViewInv, Size, Lines, ReadUpTo

LEMMA OpenStep ==
    ASSUME TInv, NEW c \in Convs, Open(c)
    PROVE  TInv'
<1>1. /\ Loads(c) /\ UNCHANGED <<file, half, born, supervised, at, batch>>
      /\ follow' \in BOOLEAN /\ intact' \in BOOLEAN /\ (intact' => batch = <<>> /\ ~Cuts(c))
  BY DEF Open, disk
<1>2. /\ ViewInv'
      /\ active' \in Convs /\ steps' \in Seq(Steps) /\ pos' \in 0 .. 2 * MaxLines
  BY <1>1, LoadsView
<1>3. FileInv' /\ BornInv' /\ LoopInv'
  BY <1>1 DEF TInv, FileInv, BornInv, LoopInv
<1>4. ShownInv'
  BY <1>1, <1>2 DEF TInv, ShownInv
<1>5. QED BY <1>2, <1>3, <1>4 DEF TInv

LEMMA BindsStep ==
    ASSUME TInv, NEW c \in Convs, Binds(c), UNCHANGED <<file, half, batch, follow>>
    PROVE  ViewInv' /\ ShownInv'
<1>1. CASE c \in {active, supervised}
  <2>1. UNCHANGED <<active, steps, pos, intact>> /\ supervised' = c
    BY <1>1 DEF Binds
  <2>2. QED BY <2>1, ViewStays DEF TInv, ShownInv
<1>2. CASE c \notin {active, supervised}
  <2>1. Loads(c) /\ intact' = (batch = <<>> /\ ~Cuts(c)) /\ supervised' = c
    BY <1>2 DEF Binds
  <2>2. intact' \in BOOLEAN /\ (intact' => batch = <<>> /\ ~Cuts(c))
    BY <2>1
  <2>3. /\ ViewInv'
        /\ active' \in Convs /\ steps' \in Seq(Steps) /\ pos' \in 0 .. 2 * MaxLines
    BY <2>1, <2>2, LoadsView
  <2>4. QED BY <2>1, <2>2, <2>3 DEF TInv, ShownInv
<1>3. QED BY <1>1, <1>2

LEMMA HookStep ==
    ASSUME TInv, NEW c \in Convs, HookCalls(c)
    PROVE  TInv'
<1>1. Binds(c) /\ UNCHANGED <<file, half, born, follow, at, batch>>
  BY DEF HookCalls, disk
<1>2. ViewInv' /\ ShownInv'
  BY <1>1, BindsStep
<1>3. FileInv' /\ BornInv' /\ LoopInv'
  BY <1>1 DEF TInv, FileInv, BornInv, LoopInv
<1>4. QED BY <1>2, <1>3 DEF TInv

LEMMA BindStep ==
    ASSUME TInv, Bind
    PROVE  TInv'
<1>1. at = "bind" /\ at' = "follow" /\ UNCHANGED <<file, half, born, follow, batch>>
  BY DEF Bind, disk, Goes
<1>2. FileInv' /\ BornInv' /\ LoopInv'
  BY <1>1 DEF TInv, FileInv, BornInv, LoopInv
<1>3. CASE supervised = None /\ \E c \in ToSet(born) : Binds(c)
  <2>1. PICK c \in ToSet(born) : Binds(c)
    BY <1>3
  <2>2. c \in Convs
    BY <2>1 DEF TInv, BornInv, ToSet
  <2>3. ViewInv' /\ ShownInv'
    BY <1>1, <2>1, <2>2, BindsStep
  <2>4. QED BY <1>2, <2>3 DEF TInv
<1>4. CASE UNCHANGED <<supervised, active, steps, pos, intact>>
  <2>1. ViewInv' /\ ShownInv'
    BY <1>1, <1>4, ViewStays DEF TInv, ShownInv
  <2>2. QED BY <1>2, <2>1 DEF TInv
<1>5. QED BY <1>3, <1>4 DEF Bind

LEMMA FollowStep ==
    ASSUME TInv, Follow
    PROVE  TInv'
<1>1. at = "follow" /\ at' = "read" /\ UNCHANGED <<file, half, born, supervised, follow, batch>>
  BY DEF Follow, disk, Goes
<1>2. FileInv' /\ BornInv' /\ LoopInv'
  BY <1>1 DEF TInv, FileInv, BornInv, LoopInv
<1>3. CASE Follows /\ active # Newest
  <2>1. PICK c \in Convs : c = Newest
    BY <1>3, NewestType DEF TInv, Follows
  <2>2. Loads(c) /\ intact' = ~Cuts(c)
    BY <1>3, <2>1 DEF Follow
  <2>3. batch = <<>>
    BY <1>1 DEF TInv, LoopInv
  <2>4. intact' \in BOOLEAN /\ (intact' => batch = <<>> /\ ~Cuts(c))
    BY <2>2, <2>3
  <2>5. /\ ViewInv'
        /\ active' \in Convs /\ steps' \in Seq(Steps) /\ pos' \in 0 .. 2 * MaxLines
    BY <1>1, <2>2, <2>4, LoadsView
  <2>6. ShownInv'
    BY <1>1, <2>4, <2>5 DEF TInv, ShownInv
  <2>7. QED BY <1>2, <2>5, <2>6 DEF TInv
<1>4. CASE ~(Follows /\ active # Newest)
  <2>1. UNCHANGED <<active, steps, pos, intact>>
    BY <1>4 DEF Follow
  <2>2. ViewInv' /\ ShownInv'
    BY <1>1, <2>1, ViewStays DEF TInv, ShownInv
  <2>3. QED BY <1>2, <2>2 DEF TInv
<1>5. QED BY <1>3, <1>4

\* What the transcript has grown by goes on where what is shown ends.
LEMMA ReadStep ==
    ASSUME TInv, ReadNew
    PROVE  TInv'
<1>1. /\ at = "read" /\ batch = <<>>
      /\ UNCHANGED <<file, half, born, supervised, follow, active, steps>>
  BY DEF TInv, LoopInv, ReadNew, disk
<1>2. FileInv' /\ BornInv'
  BY <1>1 DEF TInv, FileInv, BornInv
<1>3. CASE ~Grown
  <2>1. at' = "bind" /\ UNCHANGED <<pos, batch, intact>>
    BY <1>3 DEF ReadNew, Goes
  <2>2. LoopInv' /\ ShownInv' /\ ViewInv'
    BY <1>1, <2>1, ViewStays DEF TInv, LoopInv, ShownInv
  <2>3. QED BY <1>2, <2>2 DEF TInv
<1>4. CASE Grown
  <2>1. PICK c \in Convs : c = active /\ c = active' /\ c # None
    BY <1>1, <1>4 DEF Grown, TInv, ShownInv
  <2>2. /\ pos' = Size(c) /\ batch' = Read(c, pos) /\ intact' = (intact /\ ~Cuts(c))
        /\ at' = "send"
    BY <1>4, <2>1 DEF ReadNew, Goes
  <2>3. pos \in Nat /\ FileInv /\ intact \in BOOLEAN /\ steps \in Seq(Steps)
    BY TranscriptAssumption DEF TInv, ShownInv
  <2>4. batch' \in Seq(Steps) /\ pos' \in 0 .. 2 * MaxLines
    BY <2>2, <2>3, ReadType, SizeType
  <2>5. LoopInv' /\ ShownInv'
    BY <1>1, <2>2, <2>3, <2>4 DEF TInv, LoopInv, ShownInv
  <2>6. Size(c)' = Size(c) /\ Lines(c)' = Lines(c)
    BY <1>1 DEF Size, Lines
  <2>7. ASSUME intact'
        PROVE  \E m \in 0 .. Len(file'[c]) :
                    pos' = 2 * m /\ steps' \o batch' = SubSeq(Lines(c), 1, m)
    <3> DEFINE n == Len(file[c])
               l == Lines(c)
    <3>1. intact /\ half[c] = None
      BY <2>2, <2>7 DEF Cuts
    <3>2. PICK m \in 0 .. n : pos = 2 * m /\ steps \o batch = SubSeq(l, 1, m)
      <4>1. \E m \in 0 .. Len(file[active]) : ReadUpTo(m)
        BY <2>1, <3>1 DEF TInv, ViewInv
      <4>2. QED BY <2>1, <4>1 DEF ReadUpTo
    <3>3. l \in Seq(Steps) /\ Len(l) = n /\ n \in Nat
      BY <2>3, LinesType
    <3>4. steps = SubSeq(l, 1, m) /\ m \in Nat
      BY <1>1, <2>3, <3>2, ConcatEmpty
    <3>5. batch' = SubSeq(l, m + 1, n)
      BY <2>2, <2>3, <3>2, <3>4, ReadFrom
    <3>6. steps \o batch' = SubSeq(l, 1, n)
      BY <3>2, <3>3, <3>4, <3>5, PrefixGoesOn
    <3>7. pos' = 2 * n
      BY <2>2, <2>3, <3>1, SizeType
    <3>8. QED BY <1>1, <3>3, <3>6, <3>7
  <2>8. ViewInv'
    <3>1. pos' <= Size(c)'
      BY <2>2, <2>3, <2>4, <2>6
    <3>2. QED BY <2>1, <2>6, <2>7, <3>1 DEF ViewInv, ReadUpTo
  <2>9. QED BY <1>2, <2>5, <2>8 DEF TInv
<1>5. QED BY <1>3, <1>4

\* A batch that is given up leaves the view as it is, and no longer intact
\* unless nothing of the batch was left.
LEMMA RenameStep ==
    ASSUME TInv, SendRename
    PROVE  TInv'
<1>1. /\ at = "send" /\ batch # <<>>
      /\ UNCHANGED <<file, half, born, supervised, follow, active, steps, pos>>
  BY DEF SendRename, disk, view
<1>2. FileInv' /\ BornInv'
  BY <1>1 DEF TInv, FileInv, BornInv
<1>3. CASE Goes("renamed") /\ UNCHANGED <<batch, intact>>
  <2>1. LoopInv' /\ ShownInv' /\ ViewInv'
    BY <1>1, <1>3, ViewStays DEF TInv, LoopInv, ShownInv, Goes
  <2>2. QED BY <1>2, <2>1 DEF TInv
<1>4. CASE GivesUp(batch)
  <2>1. at' = "bind" /\ batch' = <<>> /\ intact' = FALSE
    BY <1>1, <1>4 DEF GivesUp, Goes
  <2>2. LoopInv'
    BY <2>1 DEF LoopInv
  <2>3. ShownInv'
    BY <1>1, <2>1 DEF TInv, ShownInv
  <2>4. ViewInv'
    BY <1>1, <2>1 DEF TInv, ViewInv, Size
  <2>5. QED BY <1>2, <2>2, <2>4, <2>3 DEF TInv
<1>5. QED BY <1>3, <1>4 DEF SendRename

LEMMA SendsStep ==
    ASSUME TInv, SendStep
    PROVE  TInv'
<1>1. /\ batch # <<>> /\ batch \in Seq(Steps) /\ steps \in Seq(Steps)
      /\ steps' = Append(steps, Head(batch))
      /\ UNCHANGED <<file, half, born, supervised, follow, active, pos>>
  BY DEF SendStep, TInv, LoopInv, ShownInv, disk
<1>2. FileInv' /\ BornInv'
  BY <1>1 DEF TInv, FileInv, BornInv
<1>3. /\ steps' \in Seq(Steps) /\ Tail(batch) \in Seq(Steps)
      /\ steps' \o Tail(batch) = steps \o batch
  BY <1>1, ConcatMoves
<1>4. /\ at' \in {"send", "bind"}
      /\ \/ at' = "send" /\ batch' = Tail(batch) /\ intact' = intact
         \/ at' = "bind" /\ batch' = <<>> /\ intact' = (intact /\ Tail(batch) = <<>>)
  BY DEF SendStep, GivesUp, Goes
<1>5. /\ batch' \in Seq(Steps) /\ intact' \in BOOLEAN
      /\ intact' => intact /\ steps' \o batch' = steps \o batch
  <2>1. intact \in BOOLEAN
    BY DEF TInv, ShownInv
  <2>2. CASE at' = "send" /\ batch' = Tail(batch) /\ intact' = intact
    BY <1>3, <2>1, <2>2
  <2>3. CASE at' = "bind" /\ batch' = <<>> /\ intact' = (intact /\ Tail(batch) = <<>>)
    <3>1. intact' \in BOOLEAN /\ (intact' => intact /\ Tail(batch) = <<>>)
      BY <2>3
    <3>2. intact' => intact /\ steps' \o batch' = steps \o batch
      BY <1>3, <2>3, <3>1
    <3>3. QED BY <2>3, <3>1, <3>2
  <2>4. QED BY <1>4, <2>2, <2>3
<1>6. LoopInv' /\ ShownInv'
  <2>1. LoopInv'
    BY <1>4, <1>5 DEF LoopInv
  <2>2. ShownInv'
    BY <1>1, <1>3, <1>5 DEF TInv, ShownInv
  <2>3. QED BY <2>1, <2>2
<1>7. ASSUME active # None PROVE ViewInv'
  <2>1. PICK c \in Convs : c = active /\ c = active'
    BY <1>1, <1>7 DEF TInv, ShownInv
  <2>2. /\ pos <= Size(c)
        /\ intact => \E m \in 0 .. Len(file[c]) :
                        pos = 2 * m /\ steps \o batch = SubSeq(Lines(c), 1, m)
    BY <1>7, <2>1 DEF TInv, ViewInv, ReadUpTo
  <2>3. Size(c)' = Size(c) /\ Lines(c)' = Lines(c) /\ file'[c] = file[c] /\ pos' = pos
    BY <1>1 DEF Size, Lines
  <2>4. QED BY <1>5, <2>1, <2>2, <2>3 DEF ViewInv, ReadUpTo
<1>8. active = None => ViewInv'
  BY <1>1 DEF ViewInv
<1>9. QED BY <1>2, <1>6, <1>7, <1>8 DEF TInv

LEMMA SentStep ==
    ASSUME TInv, Sent
    PROVE  TInv'
<1>1. /\ at' = "bind" /\ batch = <<>>
      /\ UNCHANGED <<file, half, born, supervised, follow, active, steps, pos, batch, intact>>
  BY DEF Sent, Goes, disk, view
<1>2. FileInv' /\ BornInv' /\ LoopInv' /\ ShownInv' /\ ViewInv'
  BY <1>1, ViewStays DEF TInv, FileInv, BornInv, LoopInv, ShownInv
<1>3. QED BY <1>2 DEF TInv

LEMMA StutterStep ==
    ASSUME TInv, UNCHANGED vars
    PROVE  TInv'
<1>1. UNCHANGED <<file, half, born, supervised, follow, active, steps, pos, at, batch, intact>>
  BY DEF vars, disk, view
<1>2. FileInv' /\ BornInv' /\ LoopInv' /\ ShownInv' /\ ViewInv'
  BY <1>1, ViewStays DEF TInv, FileInv, BornInv, LoopInv, ShownInv
<1>3. QED BY <1>2 DEF TInv

\* The inductive invariant: what is on disk, what the loop holds and what is
\* shown fit together after every step of the agents, the phones and the tick.
THEOREM TranscriptInvariant == Spec => []TInv
<1>1. TInv /\ [Next]_vars => TInv'
  <2> SUFFICES ASSUME TInv, [Next]_vars PROVE TInv'
    OBVIOUS
  <2>1. ASSUME NEW c \in Convs, Begin(c) \/ Write(c) \/ Open(c) \/ HookCalls(c) PROVE TInv'
    BY <2>1, BeginStep, WriteStep, OpenStep, HookStep
  <2>2. CASE TickStep
    BY <2>2, BindStep, FollowStep, ReadStep, RenameStep, SendsStep, SentStep DEF TickStep
  <2>3. QED BY <2>1, <2>2, StutterStep DEF Next
<1>2. QED BY TInit, <1>1, PTL DEF Spec

\* Every variable keeps its type.  Not by assignment alone: a transcript stays
\* within its bound only because a half line leaves room for the line it
\* becomes, the position within the file only because the file only grows, and
\* a step is only taken from a batch because a renaming is of its first one.
THEOREM TranscriptTypes == Spec => []TypeOK
<1>1. TInv => TypeOK
  <2> SUFFICES ASSUME TInv PROVE TypeOK
    OBVIOUS
  <2>1. ASSUME NEW c \in Convs PROVE file[c] \in BoundedSeq(Kinds, MaxLines)
    BY BoundedIs, TranscriptAssumption DEF TInv, FileInv
  <2>2. file \in [Convs -> BoundedSeq(Kinds, MaxLines)]
    BY <2>1 DEF TInv, FileInv
  <2>3. QED BY <2>2 DEF TInv, FileInv, BornInv, LoopInv, ShownInv, TypeOK
<1>2. QED BY <1>1, TranscriptInvariant, PTL

\* What a reconnecting phone is sent is the transcript, in order, each line
\* once, up to the position read, and the rest of the batch is next
\* (load_steps, check_for_updates and the loop of _watch_transcript): for any
\* number of conversations and lines, and wherever a phone, a hook or the tick
\* itself switches the view between two steps of a batch.
THEOREM ViewFollowsTranscript == Spec => []ViewIsTranscript
<1>1. TInv => ViewIsTranscript
  <2> SUFFICES ASSUME TInv, intact, active # None
               PROVE  steps \o batch = SubSeq(Lines(active), 1, pos \div 2)
    BY DEF ViewIsTranscript
  <2>1. PICK m \in 0 .. Len(file[active]) : ReadUpTo(m)
    BY DEF TInv, ViewInv
  <2>2. active \in Convs
    BY DEF TInv, ShownInv
  <2>3. Len(file[active]) \in Nat
    BY <2>2, SizeType DEF TInv
  <2>4. m \in Nat
    BY <2>1, <2>3
  <2>5. (2 * m) \div 2 = m
    BY <2>4
  <2>6. QED BY <2>1, <2>5 DEF ReadUpTo
<1>2. QED BY <1>1, TranscriptInvariant, PTL
=============================================================================
