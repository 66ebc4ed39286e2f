--------------------------- MODULE DataLog_proofs ---------------------------
(***************************************************************************)
(* Proofs about DataLog, for every size of the descriptor table and every  *)
(* number of faults and shortages: data.csv is a journal, and what a save  *)
(* announces is stored while no transfer fails and there is room.          *)
(***************************************************************************)
EXTENDS DataLog, TLAPS

Row == [boot |-> boot, n |-> n, cut |-> FALSE]

Before(a, b) == a.boot < b.boot \/ (a.boot = b.boot /\ a.n < b.n)

\* The card is behind FatFs's window, never beside it.
CardBehind ==
    /\ Len(card) <= Len(dir)
    /\ \A i \in DOMAIN card : card[i] = dir[i]

DirOrdered == \A i, j \in DOMAIN dir : i < j => Before(dir[i], dir[j])

\* What a save appends: its row, or the title of the boot and its row, the
\* first of them cut when there was no room for it.
OneLine  == todo = <<Row>> \/ todo = <<Cut(Row)>>
TwoLines == todo = <<Title, Row>> \/ todo = <<Cut(Title), Row>>

TodoShape ==
    pc \in Saving => n > 0 /\ ~isFirstSave /\ (OneLine \/ TwoLines)

\* The lines of this boot that are in the file already.
Past(line) ==
    \/ line.boot < boot
    \/ /\ line.boot = boot /\ ~isFirstSave
       /\ IF pc \in Saving THEN line.n < n /\ OneLine ELSE line.n <= n

AllPast == \A i \in DOMAIN dir : Past(dir[i])

\* A save under way holds one descriptor of the table.
FdHeld == pc \in Blocked => leaked < MaxFd

\* Once ejected, the card is not mounted and no transfer is under way.
Ejected ==
    /\ pc = "init" => autoSave
    /\ ~autoSave => ~mounted /\ pc \notin Blocked

IndInv == TypeOK /\ FdHeld /\ Ejected /\ CardBehind /\ DirOrdered /\ TodoShape /\ AllPast

-----------------------------------------------------------------------------
(* Sequences *)

\* Short sequences of lines.
LEMMA ShortSeqs ==
    ASSUME NEW S, NEW a \in S, NEW b \in S
    PROVE  <<>> \in Seq(S) /\ <<a>> \in Seq(S) /\ <<a, b>> \in Seq(S)
  <1>1. <<>> \in Seq(S)
    OBVIOUS
  <1>2. <<a>> \in Seq(S)
    OBVIOUS
  <1>3. <<a, b>> \in Seq(S)
    OBVIOUS
  <1> QED BY <1>1, <1>2, <1>3

\* The lines of a sequence are lines.
LEMMA ElementsAreLines ==
    ASSUME NEW s \in Seq(Line), NEW i \in DOMAIN s
    PROVE  s[i] \in Line /\ s[i].boot \in Nat /\ s[i].n \in Nat
  <1>1. ASSUME NEW S, NEW q \in Seq(S), NEW k \in DOMAIN q
        PROVE  q[k] \in S
    <2>1. k \in 1 .. Len(q)
      BY <1>1
    <2> QED BY <1>1, <2>1
  <1>2. s[i] \in Line
    BY <1>1
  <1> QED BY <1>2 DEF Line

\* What appending a line to a file gives.
LEMMA AppendFacts ==
    ASSUME NEW s \in Seq(Line), NEW l \in Line
    PROVE  /\ Append(s, l) \in Seq(Line)
           /\ Len(Append(s, l)) = Len(s) + 1
           /\ DOMAIN Append(s, l) = 1 .. Len(s) + 1
           /\ DOMAIN s = 1 .. Len(s)
           /\ \A i \in DOMAIN s : Append(s, l)[i] = s[i]
           /\ Append(s, l)[Len(s) + 1] = l
  OBVIOUS

\* A file stays ordered when a later line is appended to it.
LEMMA OrderedAppend ==
    ASSUME NEW s \in Seq(Line), NEW l \in Line,
           \A i, j \in DOMAIN s : i < j => Before(s[i], s[j]),
           \A i \in DOMAIN s : Before(s[i], l)
    PROVE  LET t == Append(s, l)
           IN  \A i, j \in DOMAIN t : i < j => Before(t[i], t[j])
  <1> DEFINE t == Append(s, l)
  <1>1. DOMAIN t = 1 .. Len(s) + 1 /\ DOMAIN s = 1 .. Len(s) /\ Len(s) \in Nat
    BY AppendFacts
  <1>2. /\ \A i \in DOMAIN s : t[i] = s[i]
        /\ t[Len(s) + 1] = l
    BY AppendFacts
  <1> HIDE DEF t
  <1>3. SUFFICES ASSUME NEW i \in DOMAIN t, NEW j \in DOMAIN t, i < j
                 PROVE  Before(t[i], t[j])
    BY DEF t
  <1>4. i \in DOMAIN s
    BY <1>1, <1>3
  <1>5. CASE j \in DOMAIN s
    BY <1>2, <1>3, <1>4, <1>5
  <1>6. CASE j = Len(s) + 1
    BY <1>2, <1>3, <1>4, <1>6
  <1> QED BY <1>1, <1>5, <1>6

\* The lines a save appends, one after the other.
LEMMA TodoFacts ==
    ASSUME NEW a, NEW b, NEW c
    PROVE  /\ Head(<<a>>) = a /\ Tail(<<a>>) = <<>>
           /\ Head(<<a, b>>) = a /\ Tail(<<a, b>>) = <<b>>
           /\ <<b>> # <<>> /\ <<a, b>> # <<c>>
  <1>1. Head(<<a>>) = a /\ Head(<<a, b>>) = a
    OBVIOUS
  <1>2. Len(<<a>>) = 1 /\ Len(<<c>>) = 1 /\ Len(<<a, b>>) = 2 /\ Len(<<>>) = 0
    OBVIOUS
  <1>3. <<b>> # <<>> /\ <<a, b>> # <<c>>
    BY <1>2
  <1>4. Tail(<<a>>) = <<>>
    OBVIOUS
  <1>5. Tail(<<a, b>>) = <<b>>
    OBVIOUS
  <1> QED BY <1>1, <1>3, <1>4, <1>5

\* The lines a save makes are lines of the journal, whole or cut.
LEMMA RowAndTitle ==
    ASSUME TypeOK
    PROVE  /\ Row \in Line /\ Row.n = n /\ Row.boot = boot /\ ~Row.cut
           /\ Title \in Line /\ Title.n = 0 /\ Title.boot = boot /\ ~Title.cut
           /\ Cut(Row) \in Line /\ Cut(Row).n = n /\ Cut(Row).boot = boot
           /\ Cut(Title) \in Line /\ Cut(Title).n = 0 /\ Cut(Title).boot = boot
           /\ Cut(Cut(Row)) = Cut(Row) /\ Cut(Cut(Title)) = Cut(Title)
  <1>1. boot \in Nat /\ n \in Nat
    BY DEF TypeOK
  <1> QED BY <1>1 DEF Row, Title, Line, Cut

\* The head of what a save has to append, and the rest.
LEMMA TodoHead ==
    ASSUME TypeOK
    PROVE  /\ OneLine =>
                /\ Head(todo) \in Line /\ Head(todo) \in {Row, Cut(Row)}
                /\ Head(todo).boot = boot /\ Head(todo).n = n
                /\ Tail(todo) = <<>>
           /\ TwoLines =>
                /\ Head(todo) \in Line /\ Head(todo) \in {Title, Cut(Title)}
                /\ Head(todo).boot = boot /\ Head(todo).n = 0
                /\ Tail(todo) = <<Row>> /\ <<Row>> # <<>> /\ ~OneLine
  <1>1. ASSUME OneLine
        PROVE  Head(todo) \in {Row, Cut(Row)} /\ Tail(todo) = <<>>
    BY <1>1, TodoFacts DEF OneLine
  <1>2. ASSUME TwoLines
        PROVE  /\ Head(todo) \in {Title, Cut(Title)} /\ Tail(todo) = <<Row>>
               /\ <<Row>> # <<>> /\ ~OneLine
    <2>1. ASSUME NEW t, todo = <<t, Row>>
          PROVE  Head(todo) = t /\ Tail(todo) = <<Row>> /\ <<Row>> # <<>> /\ ~OneLine
      BY <2>1, TodoFacts DEF OneLine
    <2> QED BY <1>2, <2>1 DEF TwoLines
  <1> QED BY <1>1, <1>2, RowAndTitle

\* A save whose first line is cut has as many lines to append as before.
LEMMA CutHead ==
    ASSUME TypeOK, OneLine \/ TwoLines,
           todo' = [todo EXCEPT ![1] = Cut(@)]
    PROVE  /\ OneLine => todo' = <<Cut(Row)>>
           /\ TwoLines => todo' = <<Cut(Title), Row>>
  <1>1. ASSUME NEW a, NEW b, NEW c
        PROVE  /\ [<<a>> EXCEPT ![1] = c] = <<c>>
               /\ [<<a, b>> EXCEPT ![1] = c] = <<c, b>>
    <2>1. [<<a>> EXCEPT ![1] = c] = <<c>>
      OBVIOUS
    <2>2. [<<a, b>> EXCEPT ![1] = c] = <<c, b>>
      OBVIOUS
    <2> QED BY <2>1, <2>2
  <1>2. Cut(Cut(Row)) = Cut(Row) /\ Cut(Cut(Title)) = Cut(Title)
    BY RowAndTitle
  <1>3. ASSUME NEW a, todo = <<a>>
        PROVE  todo' = <<Cut(a)>>
    <2>1. <<a>>[1] = a
      OBVIOUS
    <2>2. todo' = [<<a>> EXCEPT ![1] = Cut(a)]
      BY <1>3, <2>1
    <2> QED BY <1>1, <2>2
  <1>4. ASSUME NEW a, NEW b, todo = <<a, b>>
        PROVE  todo' = <<Cut(a), b>>
    <2>1. <<a, b>>[1] = a
      OBVIOUS
    <2>2. todo' = [<<a, b>> EXCEPT ![1] = Cut(a)]
      BY <1>4, <2>1
    <2> QED BY <1>1, <2>2
  <1> QED BY <1>2, <1>3, <1>4 DEF OneLine, TwoLines

-----------------------------------------------------------------------------
(* Type correctness *)

\* Going on to the next line keeps the types.
LEMMA NextLineType ==
    ASSUME TypeOK, TodoShape, pc \in Saving, NextLine
    PROVE  todo' \in Seq(Line) /\ pc' \in {"saved", "open"}
  <1>1. todo' = <<>> \/ todo' = <<Row>>
    BY TodoHead DEF NextLine, TodoShape
  <1>2. Row \in Line
    BY RowAndTitle
  <1>3. todo' \in Seq(Line)
    BY <1>1, <1>2, ShortSeqs
  <1> QED BY <1>3 DEF NextLine

\* The line being appended is a line, and so is the file with it.
LEMMA HeadOfTodo ==
    ASSUME TypeOK, TodoShape, pc \in Saving
    PROVE  Head(todo) \in Line /\ Append(dir, Head(todo)) \in Seq(Line)
  <1>1. Head(todo) \in Line
    BY TodoHead DEF TodoShape
  <1>2. dir \in Seq(Line)
    BY DEF TypeOK
  <1> QED BY <1>1, <1>2, AppendFacts

\* The variables have their types initially.
LEMMA InitType == Init => TypeOK
  <1>1. <<>> \in Seq(Line)
    OBVIOUS
  <1>2. ASSUME Init
        PROVE  mounted \in BOOLEAN /\ isFirstSave \in BOOLEAN /\ autoSave \in BOOLEAN
    BY <1>2, Zenon DEF Init
  <1>3. ASSUME Init
        PROVE  /\ pc = "init" /\ leaked \in 0 .. MaxFd
               /\ boot \in Nat /\ n \in Nat
               /\ faults \in 0 .. MaxFault /\ short \in 0 .. MaxShort
               /\ card \in Seq(Line) /\ dir \in Seq(Line) /\ todo \in Seq(Line)
    BY <1>1, <1>3, LogAssumption, SMT DEF Init
  <1> QED BY <1>2, <1>3 DEF TypeOK

\* Every step keeps the types, and no save takes more than MaxFd
\* descriptors.
LEMMA NextType ==
    ASSUME TypeOK, FdHeld, TodoShape, [Next]_vars
    PROVE  TypeOK'
  <1> USE LogAssumption DEF Saving, Blocked
  <1>1. CASE Mount
    BY <1>1 DEF Mount, TypeOK, fileVars
  <1>2. CASE Save
    <2>1. [boot |-> boot, n |-> n + 1, cut |-> FALSE] \in Line /\ Title \in Line
      BY RowAndTitle DEF TypeOK, Line
    <2>2. todo' \in Seq(Line)
      BY <1>2, <2>1, ShortSeqs DEF Save
    <2>3. mounted' \in BOOLEAN /\ isFirstSave' \in BOOLEAN /\ autoSave' \in BOOLEAN
      BY <1>2, Zenon DEF Save, TypeOK
    <2>4. pc' = "open" /\ n' \in Nat /\ UNCHANGED <<fileVars, leaked, boot, faults, short>>
      BY <1>2, SMT DEF Save, TypeOK
    <2> QED BY <2>2, <2>3, <2>4 DEF TypeOK, fileVars
  <1>3. CASE OpenRefused
    <2>1. todo' \in Seq(Line) /\ pc' \in {"saved", "open"}
      BY <1>3, NextLineType DEF OpenRefused
    <2>2. faults' \in 0 .. MaxFault /\ short' \in 0 .. MaxShort
      BY <1>3 DEF OpenRefused, Shortage, TypeOK
    <2> QED BY <1>3, <2>1, <2>2 DEF OpenRefused, TypeOK, fileVars
  <1>4. CASE Open
    BY <1>4 DEF Open, TypeOK, fileVars
  <1>5. CASE Opened \/ Written
    <2>1. /\ card' \in Seq(Line) /\ UNCHANGED <<mounted, dir, isFirstSave, autoSave,
                                               leaked, boot, n>>
      BY <1>5 DEF Opened, Written, WindowMoves, TypeOK
    <2>2. CASE (Fault \/ Shortage) /\ NextLine
      <3>1. todo' \in Seq(Line) /\ pc' \in {"saved", "open"}
        BY <1>5, <2>2, NextLineType DEF Opened, Written
      <3>2. faults' \in 0 .. MaxFault /\ short' \in 0 .. MaxShort
        BY <2>2 DEF Fault, Shortage, TypeOK
      <3> QED BY <2>1, <3>1, <3>2 DEF TypeOK
    <2>3. CASE pc' \in {"writing", "flushing"} /\ UNCHANGED <<todo, faults, short>>
      BY <2>1, <2>3 DEF TypeOK
    <2>4. CASE /\ pc = "writing" /\ Shortage /\ pc' = "flushing"
               /\ todo' = [todo EXCEPT ![1] = Cut(@)]
      <3>1. todo' = <<Cut(Row)>> \/ todo' = <<Cut(Title), Row>>
        BY <2>4, CutHead DEF TodoShape
      <3>2. todo' \in Seq(Line)
        BY <3>1, ShortSeqs, RowAndTitle
      <3>3. faults' \in 0 .. MaxFault /\ short' \in 0 .. MaxShort
        BY <2>4 DEF Shortage, TypeOK
      <3> QED BY <2>1, <2>4, <3>2, <3>3 DEF TypeOK
    <2> QED BY <1>5, <2>2, <2>3, <2>4 DEF Opened, Written
  <1>7. CASE Flushed
    <2>1. CASE CloseFailed
      <3>1. todo' \in Seq(Line) /\ pc' \in {"saved", "open"}
        BY <1>7, <2>1, NextLineType DEF Flushed, CloseFailed
      <3>2. /\ leaked' \in 0 .. MaxFd
            /\ faults' \in 0 .. MaxFault /\ short' \in 0 .. MaxShort
        BY <1>7, <2>1 DEF Flushed, CloseFailed, Fault, FdHeld, TypeOK
      <3> QED BY <1>7, <3>1, <3>2 DEF Flushed, TypeOK, fileVars
    <2>2. CASE pc' = "committing" /\ UNCHANGED <<todo, faults, short, leaked>>
      BY <1>7, <2>2 DEF Flushed, TypeOK, fileVars
    <2> QED BY <1>7, <2>1, <2>2 DEF Flushed
  <1>8. CASE Committed
    <2>1. /\ todo' \in Seq(Line) /\ pc' \in {"saved", "open"}
          /\ Append(dir, Head(todo)) \in Seq(Line)
      BY <1>8, NextLineType, HeadOfTodo DEF Committed, CloseFailed
    <2>2. /\ leaked' \in 0 .. MaxFd
          /\ faults' \in 0 .. MaxFault /\ short' \in 0 .. MaxShort
      BY <1>8 DEF Committed, CloseFailed, Fault, FdHeld, TypeOK
    <2> QED BY <1>8, <2>1, <2>2 DEF Committed, TypeOK
  <1>9. CASE Assert
    <2>1. Append(dir, Head(todo)) \in Seq(Line)
      BY <1>9, HeadOfTodo DEF Assert
    <2> QED BY <1>9, <2>1 DEF Assert, TypeOK
  <1>10. CASE Saved
    BY <1>10 DEF Saved, TypeOK, fileVars
  <1>11. CASE Eject
    BY <1>11 DEF Eject, Unmount, TypeOK
  <1>12. CASE ShellUnmount
    BY <1>12 DEF ShellUnmount, TypeOK
  <1>13. CASE Reset
    <2>1. pc = "committing" => Append(dir, Head(todo)) \in Seq(Line)
      BY HeadOfTodo
    <2>2. mounted' \in BOOLEAN /\ isFirstSave' \in BOOLEAN /\ autoSave' \in BOOLEAN
      BY <1>13, Zenon DEF Reset
    <2>3. <<>> \in Seq(Line)
      OBVIOUS
    <2>4. /\ pc' = "init" /\ leaked' \in 0 .. MaxFd
          /\ boot' \in Nat /\ n' \in Nat
          /\ faults' \in 0 .. MaxFault /\ short' \in 0 .. MaxShort
          /\ todo' \in Seq(Line)
      BY <1>13, <2>3, SMT DEF Reset, TypeOK
    <2>5. card' \in Seq(Line) /\ dir' \in Seq(Line)
      BY <1>13, <2>1 DEF Reset, TypeOK
    <2> QED BY <2>2, <2>4, <2>5 DEF TypeOK
  <1>14. CASE UNCHANGED vars
    BY <1>14 DEF vars, fileVars, TypeOK
  <1> QED
    BY <1>1, <1>2, <1>3, <1>4, <1>5, <1>7, <1>8, <1>9, <1>10, <1>11,
       <1>12, <1>13, <1>14
       DEF Next, MainThread, SaveStep, AutoSave, ManualSave
-----------------------------------------------------------------------------
(* The file *)

\* What a step does to the file as FatFs sees it: nothing, or what was only
\* in the window is dropped, or the line at the head of todo is appended.
FileStep ==
    \/ dir' = dir /\ card' \in {card, dir}
    \/ dir' = card /\ card' = card
    \/ /\ pc \in Saving /\ dir' = Append(dir, Head(todo))
       /\ card' \in {card, dir'}
       /\ \/ NextLine /\ UNCHANGED <<boot, n, isFirstSave>>
          \/ pc' \notin Saving /\ UNCHANGED <<boot, n, isFirstSave>>
          \/ pc' \notin Saving /\ boot' = boot + 1

\* Every step is a step of the file.
LEMMA NextFile ==
    ASSUME TypeOK, [Next]_vars
    PROVE  FileStep
  <1> USE DEF FileStep, fileVars
  <1>1. CASE Opened \/ Written
    BY <1>1 DEF Opened, Written, WindowMoves
  <1>2. CASE Committed
    BY <1>2 DEF Committed, CloseFailed, Saving, Blocked
  <1>3. CASE Assert
    BY <1>3 DEF Assert, Saving, Blocked
  <1>4. CASE Eject \/ ShellUnmount
    BY <1>4 DEF Eject, ShellUnmount, Unmount
  <1>5. CASE Reset
    BY <1>5 DEF Reset, Saving, Blocked
  <1>6. CASE Mount \/ Save \/ OpenRefused \/ Open \/ Flushed
             \/ Saved \/ UNCHANGED vars
    BY <1>6 DEF Mount, Save, OpenRefused, Open, Flushed, Saved, vars
  <1> QED
    BY <1>1, <1>2, <1>3, <1>4, <1>5, <1>6
       DEF Next, MainThread, SaveStep, AutoSave, ManualSave

\* The line at the head of todo comes after every line of the file.
LEMMA HeadComesAfter ==
    ASSUME TypeOK, TodoShape, AllPast, pc \in Saving, NEW i \in DOMAIN dir
    PROVE  Before(dir[i], Head(todo))
  <1>1. Past(dir[i]) /\ dir[i].boot \in Nat /\ dir[i].n \in Nat
    BY ElementsAreLines DEF AllPast, TypeOK
  <1>2. CASE OneLine
    BY <1>1, <1>2, TodoHead DEF Past, Before
  <1>3. CASE TwoLines
    <2>1. dir[i].boot < boot
      BY <1>1, <1>3, TodoHead DEF Past
    <2> QED BY <1>3, <2>1, TodoHead DEF Before
  <1> QED BY <1>2, <1>3 DEF TodoShape

\* The file stays in order.
LEMMA NextOrdered ==
    ASSUME TypeOK, CardBehind, DirOrdered, TodoShape, AllPast, [Next]_vars
    PROVE  DirOrdered'
  <1>1. CASE dir' = dir
    BY <1>1 DEF DirOrdered
  <1>2. CASE dir' = card
    <2>1. DOMAIN card \subseteq DOMAIN dir
      BY DEF CardBehind, TypeOK
    <2>2. \A i \in DOMAIN dir' : i \in DOMAIN dir /\ dir'[i] = dir[i]
      BY <1>2, <2>1 DEF CardBehind
    <2> QED BY <2>2 DEF DirOrdered
  <1>3. CASE pc \in Saving /\ dir' = Append(dir, Head(todo))
    <2>1. Head(todo) \in Line /\ dir \in Seq(Line)
      BY <1>3, HeadOfTodo DEF TypeOK
    <2>2. \A i \in DOMAIN dir : Before(dir[i], Head(todo))
      BY <1>3, HeadComesAfter
    <2> QED BY <1>3, <2>1, <2>2, OrderedAppend DEF DirOrdered
  <1> QED BY <1>1, <1>2, <1>3, NextFile DEF FileStep

\* The card stays behind the window.
LEMMA NextCardBehind ==
    ASSUME TypeOK, TodoShape, CardBehind, [Next]_vars
    PROVE  CardBehind'
  <1> USE DEF CardBehind
  <1>1. card \in Seq(Line) /\ dir \in Seq(Line)
    BY DEF TypeOK
  <1>2. CASE dir' = dir /\ card' \in {card, dir}
    BY <1>1, <1>2
  <1>3. CASE dir' = card /\ card' = card
    BY <1>1, <1>3
  <1>4. CASE pc \in Saving /\ dir' = Append(dir, Head(todo))
             /\ card' \in {card, dir'}
    <2>1. Head(todo) \in Line
      BY <1>4, HeadOfTodo
    <2>2. /\ Len(dir') = Len(dir) + 1 /\ DOMAIN dir = 1 .. Len(dir)
          /\ \A i \in DOMAIN dir : dir'[i] = dir[i]
      BY <1>1, <1>4, <2>1, AppendFacts
    <2>3. CASE card' = card
      BY <1>1, <2>2, <2>3
    <2>4. CASE card' = dir'
      BY <1>1, <2>2, <2>4
    <2> QED BY <1>4, <2>3, <2>4
  <1> QED BY <1>2, <1>3, <1>4, NextFile DEF FileStep
-----------------------------------------------------------------------------
(* What is still to be appended, and what is in the file already *)

\* What a step does to the save under way.
ControlStep ==
    \/ UNCHANGED <<boot, n, isFirstSave, todo>>
       /\ (pc' \in Saving <=> pc \in Saving)
    \/ /\ pc \in Saving /\ pc' \in Saving /\ UNCHANGED <<boot, n, isFirstSave>>
       /\ todo' = [todo EXCEPT ![1] = Cut(@)]
    \/ pc \in Saving /\ NextLine /\ UNCHANGED <<boot, n, isFirstSave>>
    \/ pc' \notin Saving /\ UNCHANGED <<boot, n, isFirstSave>>
    \/ pc' \notin Saving /\ boot' = boot + 1
    \/ Save

\* Every step is a step of the save.
LEMMA NextControl ==
    ASSUME [Next]_vars
    PROVE  ControlStep
  <1> USE DEF ControlStep, Saving, Blocked
  <1>1. CASE Mount \/ Assert \/ Saved
    BY <1>1 DEF Mount, Assert, Saved
  <1>2. CASE OpenRefused
    BY <1>2 DEF OpenRefused
  <1>3. CASE Opened
    BY <1>3 DEF Opened
  <1>4. CASE Written
    BY <1>4 DEF Written
  <1>5. CASE Flushed
    BY <1>5 DEF Flushed, CloseFailed
  <1>6. CASE Committed
    BY <1>6 DEF Committed, CloseFailed
  <1>7. CASE Open \/ Eject \/ ShellUnmount \/ UNCHANGED vars
    BY <1>7 DEF Open, Eject, ShellUnmount, vars
  <1>8. CASE Reset
    BY <1>8 DEF Reset
  <1> QED
    BY <1>1, <1>2, <1>3, <1>4, <1>5, <1>6, <1>7, <1>8
       DEF Next, MainThread, SaveStep, AutoSave, ManualSave

\* After the title comes the row, and after the row nothing.
LEMMA NextLineShape ==
    ASSUME TypeOK, TodoShape, pc \in Saving, NextLine, UNCHANGED <<boot, n>>
    PROVE  \/ OneLine /\ pc' \notin Saving
           \/ TwoLines /\ todo' = <<Row>>'
  <1>1. CASE OneLine
    <2>1. pc' = "saved"
      BY <1>1, TodoHead DEF NextLine
    <2> QED BY <1>1, <2>1 DEF Saving, Blocked
  <1>2. CASE TwoLines
    <2>1. todo' = <<Row>>
      BY <1>2, TodoHead DEF NextLine
    <2> QED BY <1>2, <2>1 DEF Row
  <1> QED BY <1>1, <1>2 DEF TodoShape

\* Cutting the line at the head leaves as many lines to append.
LEMMA CutShape ==
    ASSUME TypeOK, TodoShape, pc \in Saving, UNCHANGED <<boot, n>>,
           todo' = [todo EXCEPT ![1] = Cut(@)]
    PROVE  (OneLine /\ OneLine') \/ (TwoLines /\ TwoLines')
  <1>1. Row' = Row /\ Title' = Title
    BY DEF Row, Title
  <1>2. CASE OneLine
    <2>1. todo' = <<Cut(Row')>>
      BY <1>1, <1>2, CutHead
    <2> QED BY <1>2, <2>1 DEF OneLine, Cut
  <1>3. CASE TwoLines
    <2>1. todo' = <<Cut(Title'), Row'>>
      BY <1>1, <1>3, CutHead
    <2> QED BY <1>3, <2>1 DEF TwoLines, Cut
  <1> QED BY <1>2, <1>3 DEF TodoShape

\* A save always has its row left to append, alone or after the title.
LEMMA NextShape ==
    ASSUME TypeOK, TodoShape, [Next]_vars
    PROVE  TodoShape'
  <1>1. CASE UNCHANGED <<boot, n, isFirstSave, todo>>
             /\ (pc' \in Saving <=> pc \in Saving)
    BY <1>1 DEF TodoShape, OneLine, TwoLines, Row, Title, Cut
  <1>2. CASE pc \in Saving /\ NextLine /\ UNCHANGED <<boot, n, isFirstSave>>
    BY <1>2, NextLineShape DEF TodoShape, OneLine
  <1>3. CASE pc' \notin Saving
    BY <1>3 DEF TodoShape
  <1>4. CASE Save
    <2>1. n' > 0 /\ ~isFirstSave'
      BY <1>4 DEF Save, TypeOK
    <2>2. todo' = <<Row>>' \/ todo' = <<Title, Row>>'
      BY <1>4 DEF Save, Row, Title
    <2> QED BY <2>1, <2>2 DEF TodoShape, OneLine, TwoLines
  <1>5. CASE /\ pc \in Saving /\ pc' \in Saving
             /\ UNCHANGED <<boot, n, isFirstSave>>
             /\ todo' = [todo EXCEPT ![1] = Cut(@)]
    BY <1>5, CutShape DEF TodoShape
  <1> QED BY <1>1, <1>2, <1>3, <1>4, <1>5, NextControl DEF ControlStep

\* A line that was past stays so.
LEMMA PastKept ==
    ASSUME TypeOK, TodoShape, [Next]_vars, NEW l \in Line, Past(l)
    PROVE  Past(l)'
  <1>1. l.boot \in Nat /\ l.n \in Nat /\ boot \in Nat /\ n \in Nat
    BY DEF Line, TypeOK
  <1>2. CASE UNCHANGED <<boot, n, isFirstSave, todo>>
             /\ (pc' \in Saving <=> pc \in Saving)
    BY <1>2 DEF Past, OneLine, Row, Cut
  <1>3. CASE pc \in Saving /\ NextLine /\ UNCHANGED <<boot, n, isFirstSave>>
    <2>1. CASE OneLine /\ pc' \notin Saving
      BY <1>1, <1>3, <2>1 DEF Past
    <2>2. CASE TwoLines /\ todo' = <<Row>>'
      <3>1. ~OneLine
        BY <2>2, TodoHead
      <3>2. l.boot < boot
        BY <1>3, <3>1 DEF Past
      <3> QED BY <1>3, <3>2 DEF Past
    <2> QED BY <1>3, <2>1, <2>2, NextLineShape
  <1>4. CASE pc' \notin Saving /\ UNCHANGED <<boot, n, isFirstSave>>
    BY <1>1, <1>4 DEF Past
  <1>5. CASE pc' \notin Saving /\ boot' = boot + 1
    BY <1>1, <1>5 DEF Past
  <1>6. CASE Save
    <2>1. CASE l.boot < boot
      BY <1>6, <2>1 DEF Past, Save
    <2>2. CASE l.boot = boot /\ ~isFirstSave /\ l.n <= n
      <3>1. boot' = boot /\ n' = n + 1 /\ ~isFirstSave' /\ pc' \in Saving
        BY <1>6 DEF Save, Saving
      <3>2. todo' = <<Row>>'
        BY <1>6, <2>2 DEF Save, Row
      <3>3. l.n < n'
        BY <1>1, <2>2, <3>1
      <3> QED BY <2>2, <3>1, <3>2, <3>3 DEF Past, OneLine
    <2> QED BY <1>6, <2>1, <2>2 DEF Past, Save, Saving, Blocked
  <1>7. CASE /\ pc \in Saving /\ pc' \in Saving
             /\ UNCHANGED <<boot, n, isFirstSave>>
             /\ todo' = [todo EXCEPT ![1] = Cut(@)]
    <2>1. OneLine => OneLine'
      BY <1>7, CutShape, TodoHead
    <2> QED BY <1>7, <2>1 DEF Past
  <1> QED BY <1>2, <1>3, <1>4, <1>5, <1>6, <1>7, NextControl DEF ControlStep

\* The line that was appended is past.
LEMMA HeadPast ==
    ASSUME TypeOK, TodoShape, pc \in Saving, NEW l \in Line, l = Head(todo),
           \/ NextLine /\ UNCHANGED <<boot, n, isFirstSave>>
           \/ pc' \notin Saving /\ UNCHANGED <<boot, n, isFirstSave>>
           \/ pc' \notin Saving /\ boot' = boot + 1
    PROVE  Past(l)'
  <1>1. l.boot = boot /\ l.n <= n /\ ~isFirstSave
    <2>1. n \in Nat /\ n > 0 /\ ~isFirstSave
      BY DEF TodoShape, TypeOK
    <2> QED BY <2>1, TodoHead DEF TodoShape
  <1>2. boot \in Nat /\ n \in Nat
    BY DEF TypeOK
  <1>3. CASE NextLine /\ UNCHANGED <<boot, n, isFirstSave>>
    <2>1. CASE pc' \notin Saving
      BY <1>1, <1>3, <2>1 DEF Past
    <2>2. CASE TwoLines /\ todo' = <<Row>>'
      <3>1. l.n = 0 /\ n > 0
        BY <2>2, TodoHead DEF TodoShape
      <3> QED BY <1>1, <1>3, <2>2, <3>1 DEF Past, OneLine
    <2> QED BY <1>3, <2>1, <2>2, NextLineShape
  <1>4. CASE pc' \notin Saving /\ UNCHANGED <<boot, n, isFirstSave>>
    BY <1>1, <1>4 DEF Past
  <1>5. CASE pc' \notin Saving /\ boot' = boot + 1
    BY <1>1, <1>2, <1>5 DEF Past
  <1> QED BY <1>3, <1>4, <1>5

\* Every line of the file is past after every step.
LEMMA NextAllPast ==
    ASSUME TypeOK, CardBehind, TodoShape, AllPast, [Next]_vars
    PROVE  AllPast'
  <1>1. dir \in Seq(Line)
    BY DEF TypeOK
  <1>2. ASSUME NEW k \in DOMAIN dir, NEW l \in Line, l = dir[k]
        PROVE  Past(l)'
    <2>1. Past(l)
      BY <1>2 DEF AllPast
    <2> QED BY <2>1, PastKept
  <1>3. dir' \in Seq(Line)
    BY <1>1, HeadOfTodo, NextFile DEF FileStep, TypeOK
  <1>4. SUFFICES ASSUME NEW i \in DOMAIN dir', NEW l \in Line, l = dir'[i]
                 PROVE  Past(l)'
    <2>1. \A i \in DOMAIN dir' : dir'[i] \in Line
      BY <1>3, ElementsAreLines
    <2>2. \A i \in DOMAIN dir' : \A l \in Line : l = dir'[i] => Past(l)'
      BY <1>4
    <2> QED BY <2>1, <2>2 DEF AllPast, Past
  <1>5. CASE dir' = dir
    BY <1>2, <1>4, <1>5
  <1>6. CASE dir' = card
    <2>1. i \in DOMAIN dir /\ l = dir[i]
      BY <1>4, <1>6 DEF CardBehind, TypeOK
    <2> QED BY <1>2, <2>1
  <1>7. CASE dir' # dir /\ dir' # card
    <2>1. Head(todo) \in Line /\ pc \in Saving /\ dir' = Append(dir, Head(todo))
      BY <1>7, HeadOfTodo, NextFile DEF FileStep
    <2>2. (i \in DOMAIN dir /\ l = dir[i]) \/ l = Head(todo)
      BY <1>1, <1>4, <2>1, AppendFacts
    <2>3. CASE l = Head(todo)
      BY <1>7, <2>1, <2>3, HeadPast, NextFile DEF FileStep
    <2> QED BY <1>2, <2>2, <2>3
  <1> QED BY <1>5, <1>6, <1>7
-----------------------------------------------------------------------------
(* Descriptors and the ejected card *)

\* A save goes on to a transfer only with a descriptor.
LEMMA NextFdHeld ==
    ASSUME FdHeld, [Next]_vars
    PROVE  FdHeld'
  <1> USE DEF FdHeld, Blocked
  <1>1. CASE Mount \/ Save \/ Saved \/ Assert \/ Reset
    BY <1>1 DEF Mount, Save, Saved, Assert, Reset
  <1>2. CASE OpenRefused \/ Committed
    BY <1>2 DEF OpenRefused, Committed, CloseFailed, NextLine
  <1>3. CASE Open
    BY <1>3, LogAssumption DEF Open
  <1>4. CASE Opened \/ Written \/ Flushed
    BY <1>4 DEF Opened, Written, Flushed, CloseFailed, NextLine
  <1>5. CASE Eject \/ ShellUnmount \/ UNCHANGED vars
    BY <1>5 DEF Eject, ShellUnmount, vars
  <1> QED
    BY <1>1, <1>2, <1>3, <1>4, <1>5
       DEF Next, MainThread, SaveStep, AutoSave, ManualSave

\* No transfer is started on a card that was ejected.
LEMMA NextEjected ==
    ASSUME Ejected, [Next]_vars
    PROVE  Ejected'
  <1> USE DEF Ejected, Blocked
  <1>1. CASE Mount \/ Save \/ Saved \/ Assert \/ Reset
    BY <1>1 DEF Mount, Save, Saved, Assert, Reset
  <1>2. CASE OpenRefused \/ Committed
    BY <1>2 DEF OpenRefused, Committed, CloseFailed, NextLine
  <1>3. CASE Open
    BY <1>3 DEF Open
  <1>4. CASE Opened \/ Written \/ Flushed
    BY <1>4 DEF Opened, Written, Flushed, CloseFailed, NextLine
  <1>5. CASE Eject \/ ShellUnmount \/ UNCHANGED vars
    BY <1>5 DEF Eject, Unmount, ShellUnmount, vars
  <1> QED
    BY <1>1, <1>2, <1>3, <1>4, <1>5
       DEF Next, MainThread, SaveStep, AutoSave, ManualSave

\* A step writes the card only from a transfer, or is a reset.
LEMMA CardWrittenInTransfer ==
    ASSUME [Next]_vars, pc \notin Blocked
    PROVE  card' = card
  <1> USE DEF Blocked, fileVars
  <1>1. CASE Mount \/ Save \/ Saved \/ Assert \/ Reset
    BY <1>1 DEF Mount, Save, Saved, Assert, Reset
  <1>2. CASE OpenRefused \/ Open \/ Opened \/ Written \/ Flushed \/ Committed
    BY <1>2 DEF OpenRefused, Open, Opened, Written, Flushed, Committed
  <1>3. CASE Eject \/ ShellUnmount \/ UNCHANGED vars
    BY <1>3 DEF Eject, ShellUnmount, vars
  <1> QED
    BY <1>1, <1>2, <1>3
       DEF Next, MainThread, SaveStep, AutoSave, ManualSave

-----------------------------------------------------------------------------
(* The theorems *)

\* The inductive invariant holds initially.
LEMMA InitInv == Init => IndInv
  <1> SUFFICES ASSUME Init PROVE IndInv
    OBVIOUS
  <1>1. TypeOK
    BY InitType
  <1>2. FdHeld /\ Ejected /\ TodoShape
    BY DEF Init, FdHeld, Ejected, TodoShape, Saving, Blocked
  <1>3. CardBehind /\ DirOrdered /\ AllPast
    BY DEF Init, CardBehind, DirOrdered, AllPast
  <1> QED BY <1>1, <1>2, <1>3 DEF IndInv

\* Every step keeps the inductive invariant.
LEMMA NextInv == IndInv /\ [Next]_vars => IndInv'
  BY NextType, NextFdHeld, NextEjected, NextCardBehind, NextOrdered,
     NextShape, NextAllPast DEF IndInv

\* The inductive invariant is one of the specification.
LEMMA Inductive == Spec => []IndInv
  BY InitInv, NextInv, PTL DEF Spec

\* The variables of DataLog have their types, and the descriptors that
\* close() does not give back never exceed the table (fd_new refuses first).
THEOREM LogTypes == Spec => []TypeOK
  <1>1. IndInv => TypeOK
    BY DEF IndInv
  <1> QED BY <1>1, Inductive, PTL

\* Nothing on the card is lost by a step.
LEMMA CardGrows ==
    ASSUME IndInv, [Next]_vars
    PROVE  Len(card') >= Len(card) /\ \A i \in DOMAIN card : card'[i] = card[i]
  <1>1. card \in Seq(Line) /\ dir \in Seq(Line) /\ CardBehind
    BY DEF IndInv, TypeOK
  <1>2. CASE card' \in {card, dir}
    BY <1>1, <1>2 DEF CardBehind
  <1>3. CASE pc \in Saving /\ card' = Append(dir, Head(todo))
    <2>1. Head(todo) \in Line
      BY <1>3, HeadOfTodo DEF IndInv
    <2>2. /\ Len(card') = Len(dir) + 1 /\ DOMAIN dir = 1 .. Len(dir)
          /\ \A i \in DOMAIN dir : card'[i] = dir[i]
      BY <1>1, <1>3, <2>1, AppendFacts
    <2> QED BY <1>1, <2>2 DEF CardBehind
  <1> QED BY <1>2, <1>3, NextFile DEF FileStep, IndInv

\* The beginning of an ordered file is ordered.
LEMMA PrefixOrdered ==
    ASSUME NEW c \in Seq(Line), NEW d \in Seq(Line),
           Len(c) <= Len(d), \A i \in DOMAIN c : c[i] = d[i],
           \A i, j \in DOMAIN d : i < j => Before(d[i], d[j])
    PROVE  Abstract!Ordered(c)
  <1>1. \A i \in DOMAIN c : i \in DOMAIN d /\ c[i] = d[i]
    OBVIOUS
  <1> QED BY <1>1 DEF Before, Abstract!Ordered, Abstract!Before

\* DataLog implements Journal: whatever fails, is ejected, unmounted or reset,
\* no line that is on the card is lost, doubled or out of order.
THEOREM LogIsJournal == Spec => ImplementsJournal
  <1>1. Init => Abstract!Init
    BY DEF Init, Abstract!Init
  <1>2. IndInv /\ IndInv' /\ [Next]_vars => [Abstract!Grow]_card
    <2> SUFFICES ASSUME IndInv, IndInv', [Next]_vars
                 PROVE  Abstract!Grow
      OBVIOUS
    <2>1. /\ card' \in Seq(Line) /\ dir' \in Seq(Line)
          /\ Len(card') <= Len(dir') /\ \A i \in DOMAIN card' : card'[i] = dir'[i]
          /\ \A i, j \in DOMAIN dir' : i < j => Before(dir'[i], dir'[j])
      BY DEF IndInv, TypeOK, CardBehind, DirOrdered, Before
    <2>2. Abstract!Ordered(card')
      BY <2>1, PrefixOrdered
    <2> QED BY <2>2, CardGrows DEF Abstract!Grow, Abstract!Ordered
  <1> QED BY <1>1, <1>2, Inductive, PTL DEF Spec, ImplementsJournal, Abstract!Spec

\* After SD_CARD_eject the card is not written before the next reset.
THEOREM EjectedIsFrozen == Spec => EjectedFrozen
  <1>1. IndInv /\ [Next]_vars
            => [~autoSave /\ boot' = boot => card' = card]_vars
    BY CardWrittenInTransfer DEF IndInv, Ejected
  <1> QED BY <1>1, Inductive, PTL DEF Spec, EjectedFrozen
-----------------------------------------------------------------------------
(* What a save promises while no transfer fails and there is room *)

\* In a file, every row has the title of its boot above it.
Titled(s) ==
    \A i \in DOMAIN s :
        s[i].n > 0 =>
            \E j \in 1 .. i : s[j] = [boot |-> s[i].boot, n |-> 0, cut |-> FALSE]

In(s, l) == \E i \in DOMAIN s : s[i] = l

AllWhole(s) == \A i \in DOMAIN s : ~s[i].cut

\* The title of this boot is on the card, or is the line being appended.  A
\* volume taken away before the title was written takes its rows with it.
TitlePending ==
    (mounted \/ pc \in Blocked) /\ ~isFirstSave =>
        In(card, Title) \/ (pc \in Saving /\ todo = <<Title, Row>>)

Faultless ==
    /\ leaked = 0 /\ card = dir
    /\ Titled(card) /\ AllWhole(card)
    /\ TitlePending
    /\ pc \in Saving => todo = <<Row>> \/ todo = <<Title, Row>>
    /\ pc = "saved" /\ mounted => In(card, Row)
    /\ pc = "init" => isFirstSave

FaultlessInv == faults = 0 /\ short = 0 => Faultless

\* A title, or a row whose title is there, can be appended.
LEMMA TitledAppend ==
    ASSUME NEW s \in Seq(Line), NEW l \in Line, Titled(s),
           l.n = 0 \/ In(s, [boot |-> l.boot, n |-> 0, cut |-> FALSE])
    PROVE  Titled(Append(s, l))
  <1> DEFINE t == Append(s, l)
  <1>1. /\ DOMAIN t = 1 .. Len(s) + 1 /\ DOMAIN s = 1 .. Len(s)
        /\ Len(s) \in Nat
        /\ \A i \in DOMAIN s : t[i] = s[i]
        /\ t[Len(s) + 1] = l
    BY AppendFacts
  <1> HIDE DEF t
  <1>2. SUFFICES ASSUME NEW i \in DOMAIN t, t[i].n > 0
                 PROVE  \E j \in 1 .. i : t[j] = [boot |-> t[i].boot, n |-> 0, cut |-> FALSE]
    BY DEF Titled, t
  <1>3. CASE i \in DOMAIN s
    <2>1. PICK j \in 1 .. i : s[j] = [boot |-> s[i].boot, n |-> 0, cut |-> FALSE]
      BY <1>1, <1>2, <1>3 DEF Titled
    <2>2. j \in DOMAIN s
      BY <1>1, <1>3
    <2> QED BY <1>1, <1>3, <2>1, <2>2
  <1>4. CASE i = Len(s) + 1
    <2>1. t[i] = l
      BY <1>1, <1>4
    <2>2. l.n # 0
      BY <1>2, <2>1
    <2>3. In(s, [boot |-> l.boot, n |-> 0, cut |-> FALSE])
      BY <2>2, Zenon
    <2>4. PICK j \in DOMAIN s : s[j] = [boot |-> l.boot, n |-> 0, cut |-> FALSE]
      BY <2>3, Zenon DEF In
    <2>5. j \in 1 .. i
      BY <1>1, <1>4
    <2>6. t[j] = s[j]
      BY <1>1, <2>4
    <2>7. t[j] = [boot |-> t[i].boot, n |-> 0, cut |-> FALSE]
      BY <2>4, <2>1, <2>6, Zenon
    <2> QED BY <2>5, <2>7, Zenon
  <1>5. i \in DOMAIN s \/ i = Len(s) + 1
    BY <1>1, <1>2
  <1> QED BY <1>3, <1>4, <1>5, Zenon

\* The line being appended may go to the card.
LEMMA HeadTitled ==
    ASSUME TypeOK, TodoShape, Faultless, pc \in Blocked
    PROVE  Titled(Append(dir, Head(todo)))
  <1>1. Head(todo) \in Line /\ dir \in Seq(Line) /\ Titled(dir)
    BY HeadOfTodo DEF TypeOK, Saving, Faultless
  <1>2. CASE todo = <<Title, Row>>
    <2>1. Head(todo).n = 0
      BY <1>2, TodoFacts, RowAndTitle
    <2> QED BY <1>1, <2>1, TitledAppend
  <1>3. CASE todo = <<Row>>
    <2>1. Head(todo) = Row /\ todo # <<Title, Row>>
      BY <1>3, TodoFacts
    <2>2. In(dir, Title)
      BY <2>1 DEF Faultless, TitlePending, TodoShape, Saving
    <2>3. In(dir, [boot |-> Head(todo).boot, n |-> 0, cut |-> FALSE])
      BY <2>1, <2>2, RowAndTitle DEF Title
    <2> QED BY <1>1, <2>3, TitledAppend
  <1> QED BY <1>2, <1>3 DEF Faultless, Saving

\* What is in a file stays in it when a line is appended, and the line is.
LEMMA InAppend ==
    ASSUME NEW s \in Seq(Line), NEW l \in Line
    PROVE  In(Append(s, l), l) /\ \A k : In(s, k) => In(Append(s, l), k)
  <1> DEFINE t == Append(s, l)
  <1>1. /\ DOMAIN t = 1 .. Len(s) + 1 /\ DOMAIN s = 1 .. Len(s)
        /\ Len(s) \in Nat
        /\ \A i \in DOMAIN s : t[i] = s[i]
        /\ t[Len(s) + 1] = l
    BY AppendFacts
  <1> HIDE DEF t
  <1>2. Len(s) + 1 \in DOMAIN t
    BY <1>1
  <1>3. In(t, l)
    BY <1>1, <1>2 DEF In
  <1>4. \A k : In(s, k) => In(t, k)
    BY <1>1 DEF In
  <1> QED BY <1>3, <1>4 DEF t

\* A whole line can be appended to whole lines, and the line being appended
\* is one.
LEMMA WholeAppend ==
    ASSUME TypeOK, TodoShape, Faultless, pc \in Saving
    PROVE  AllWhole(Append(dir, Head(todo))) /\ ~Head(todo).cut
  <1>1. ~Head(todo).cut
    BY TodoFacts, RowAndTitle DEF Faultless
  <1>2. Head(todo) \in Line /\ dir \in Seq(Line) /\ AllWhole(dir)
    BY HeadOfTodo DEF TypeOK, Faultless
  <1> QED BY <1>1, <1>2, AppendFacts DEF AllWhole

\* Every step keeps the promises, as long as its transfer succeeds and there
\* is room.
LEMMA NextFaultless ==
    ASSUME TypeOK, TodoShape, FaultlessInv, [Next]_vars
    PROVE  FaultlessInv'
  <1>1. SUFFICES ASSUME faults' = 0, short' = 0
                 PROVE  Faultless'
    BY DEF FaultlessInv
  <1>2. ~Fault /\ ~Shortage
    BY <1>1 DEF Fault, Shortage, TypeOK
  <1>3. faults = 0 /\ short = 0 /\ Faultless
    BY <1>1, <1>2
       DEF FaultlessInv, Next, MainThread, SaveStep, AutoSave, ManualSave,
           Mount, Save, OpenRefused, Open, Opened, Written, Flushed,
           Committed, CloseFailed, Assert, Saved, Eject, ShellUnmount, Reset,
           vars
  <1>4. /\ card = dir /\ leaked = 0 /\ Titled(card) /\ TitlePending
        /\ AllWhole(card)
        /\ pc \in Saving => todo = <<Row>> \/ todo = <<Title, Row>>
        /\ pc = "saved" /\ mounted => In(card, Row)
        /\ pc = "init" => isFirstSave
    BY <1>3 DEF Faultless
  <1> USE LogAssumption DEF Saving, Blocked
  <1>5. ASSUME UNCHANGED <<fileVars, boot, n, leaked, isFirstSave, todo>>,
               mounted' => mounted, pc' \in Saving => pc \in Saving,
               pc' \notin {"saved", "init"}, pc \in Saving => pc' \in Saving,
               pc = "open" => mounted
        PROVE  Faultless'
    <2>1. Titled(card)' /\ Row' = Row /\ Title' = Title
      BY <1>4, <1>5 DEF Titled, Title, Row, fileVars
    <2>2. TitlePending'
      BY <1>4, <1>5, <2>1 DEF TitlePending, fileVars
    <2>3. pc' \in Saving => todo' = <<Row'>> \/ todo' = <<Title', Row'>>
      BY <1>4, <1>5, <2>1
    <2>4. card' = dir' /\ leaked' = 0 /\ AllWhole(card')
      BY <1>4, <1>5 DEF fileVars
    <2> QED BY <1>4, <1>5, <2>1, <2>2, <2>3, <2>4 DEF Faultless, AllWhole
  <1>6. ASSUME ~mounted', pc' \notin Blocked, leaked' = 0, card' = dir',
               Titled(card)', AllWhole(card)', pc' = "init" => isFirstSave',
               pc' \in Saving => todo' = <<Row'>> \/ todo' = <<Title', Row'>>
        PROVE  Faultless'
    BY <1>6 DEF Faultless, TitlePending
  <1>7. card' = card => Titled(card)' /\ AllWhole(card)'
    BY <1>4 DEF Titled, AllWhole
  <1>8. CASE Mount
    <2>1. pc = "init" /\ pc' = "idle" /\ UNCHANGED <<card, dir, leaked, isFirstSave>>
      BY <1>8 DEF Mount, fileVars
    <2>2. isFirstSave'
      BY <1>4, <2>1
    <2> QED BY <1>4, <1>7, <2>1, <2>2 DEF Faultless, TitlePending
  <1>9. CASE Save
    <2>1. /\ pc = "idle" /\ pc' = "open" /\ Row' = [boot |-> boot, n |-> n + 1, cut |-> FALSE]
          /\ Title' = Title /\ UNCHANGED <<card, dir, leaked, mounted>>
      BY <1>9 DEF Save, fileVars, Row, Title
    <2>2. todo' = IF isFirstSave THEN <<Title, Row'>> ELSE <<Row'>>
      BY <1>9, <2>1 DEF Save
    <2>3. TitlePending'
      BY <1>4, <2>1, <2>2 DEF TitlePending
    <2> QED BY <1>4, <1>7, <2>1, <2>2, <2>3 DEF Faultless
  <1>10. CASE OpenRefused
    <2>1. /\ ~mounted' /\ UNCHANGED <<card, dir, leaked, boot, n>>
          /\ pc' \notin Blocked \cup {"init"} /\ NextLine /\ pc = "open"
      BY <1>2, <1>4, <1>10, LogAssumption DEF OpenRefused, NextLine, fileVars
    <2>2. pc' \in Saving => todo' = <<Row>>'
      BY <2>1, NextLineShape
    <2> QED BY <1>4, <1>6, <1>7, <2>1, <2>2
  <1>11. CASE Open
    BY <1>5, <1>11 DEF Open
  <1>12. CASE Opened \/ Written \/ Flushed
    <2>1. /\ pc \in Blocked /\ pc' \in Blocked
          /\ UNCHANGED <<boot, n, leaked, isFirstSave, todo, mounted>>
      BY <1>2, <1>12 DEF Opened, Written, Flushed, CloseFailed
    <2>2. UNCHANGED fileVars
      BY <1>2, <1>4, <1>12 DEF Opened, Written, WindowMoves, Flushed, CloseFailed, fileVars
    <2> QED BY <1>5, <2>1, <2>2
  <1>13. CASE Committed
    <2>1. /\ pc = "committing" /\ NextLine /\ card' = Append(dir, Head(todo)) /\ dir' = card'
          /\ UNCHANGED <<boot, n, leaked, isFirstSave, mounted>>
      BY <1>2, <1>13 DEF Committed, CloseFailed
    <2>2. AllWhole(card)'
      BY <1>3, <2>1, WholeAppend DEF AllWhole
    <2>3. pc' \in Saving => todo' = <<Row>>'
      BY <2>1, NextLineShape
    <2>4. Titled(card)'
      <3>1. Titled(Append(dir, Head(todo)))
        BY <1>3, <2>1, HeadTitled
      <3> QED BY <2>1, <3>1 DEF Titled
    <2>5. Row' = Row /\ Title' = Title
      BY <2>1 DEF Row, Title
    <2>6. In(card', Head(todo)) /\ \A k : In(card, k) => In(card', k)
      <3>1. Head(todo) \in Line /\ dir \in Seq(Line)
        BY <2>1, HeadOfTodo DEF TypeOK
      <3> QED BY <1>4, <2>1, <3>1, InAppend
    <2>7. CASE todo = <<Title, Row>>
      <3>1. Head(todo) = Title /\ Tail(todo) = <<Row>> /\ <<Row>> # <<>>
        BY <2>7, TodoFacts
      <3>2. pc' = "open"
        BY <2>1, <3>1 DEF NextLine
      <3>3. In(card', Title')
        BY <2>5, <2>6, <3>1
      <3> QED BY <1>4, <2>1, <2>4, <2>2, <2>3, <3>2, <3>3 DEF Faultless, TitlePending
    <2>8. CASE todo = <<Row>>
      <3>1. Head(todo) = Row /\ todo # <<Title, Row>>
        BY <2>8, TodoFacts
      <3>2. In(card, Title)
        BY <1>4, <2>1, <3>1 DEF TitlePending, TodoShape
      <3>3. In(card', Title') /\ In(card', Row')
        BY <2>5, <2>6, <3>1, <3>2
      <3>4. pc' \in {"saved", "open"}
        BY <2>1 DEF NextLine
      <3> QED BY <1>4, <2>1, <2>4, <2>2, <2>3, <3>3, <3>4 DEF Faultless, TitlePending
    <2> QED BY <1>4, <2>1, <2>7, <2>8
  <1>14. CASE Assert \/ Reset
    <2>1. /\ ~mounted' /\ pc' \notin Blocked /\ leaked' = 0 /\ dir' = card'
          /\ pc' = "init" => isFirstSave'
          /\ \/ card' = card
             \/ pc \in Blocked /\ card' = Append(dir, Head(todo))
      BY <1>4, <1>14 DEF Assert, Reset
    <2>2. Titled(card)'
      <3>1. pc \in Blocked => Titled(Append(dir, Head(todo)))
        BY <1>3, HeadTitled
      <3>2. CASE card' = card
        BY <1>7, <3>2
      <3>3. CASE pc \in Blocked /\ card' = Append(dir, Head(todo))
        BY <3>1, <3>3 DEF Titled
      <3> QED BY <2>1, <3>2, <3>3
    <2>3. AllWhole(card)'
      BY <1>3, <1>7, <2>1, WholeAppend DEF AllWhole
    <2>4. pc' \notin Saving
      BY <1>14 DEF Assert, Reset
    <2> QED BY <1>6, <2>1, <2>2, <2>3, <2>4
  <1>15. CASE Saved
    <2>1. /\ pc = "saved" /\ pc' = "idle"
          /\ UNCHANGED <<fileVars, boot, n, leaked, isFirstSave, todo, mounted>>
      BY <1>15 DEF Saved
    <2> QED BY <1>5, <2>1
  <1>16. CASE Eject
    <2>1. /\ ~mounted' /\ pc' = "idle" /\ leaked' = 0 /\ pc' \notin Saving
          /\ card' = card /\ dir' = card
      BY <1>4, <1>16 DEF Eject, Unmount
    <2> QED BY <1>6, <1>7, <2>1
  <1>17. CASE ShellUnmount
    <2>1. /\ pc' = pc /\ ~mounted' /\ card' = card /\ dir' = dir /\ pc # "open"
          /\ UNCHANGED <<boot, n, leaked, isFirstSave, todo>> /\ pc # "saved"
          /\ pc # "init"
      BY <1>4, <1>17 DEF ShellUnmount
    <2> QED BY <1>5, <2>1 DEF fileVars
  <1>18. CASE UNCHANGED vars
    BY <1>3, <1>18 DEF vars, fileVars, Faultless, TitlePending, Titled,
                       AllWhole, Title, Row
  <1> QED
    BY <1>8, <1>9, <1>10, <1>11, <1>12, <1>13, <1>14, <1>15, <1>16, <1>17, <1>18
       DEF Next, MainThread, SaveStep, AutoSave, ManualSave

\* It holds of the empty card.
LEMMA InitFaultless == Init => FaultlessInv
  BY DEF Init, FaultlessInv, Faultless, Titled, AllWhole, TitlePending, Saving, Blocked

\* The promises hold in every state of the specification.
LEMMA AlwaysFaultless == Spec => []FaultlessInv
  <1>1. IndInv => TypeOK /\ TodoShape
    BY DEF IndInv
  <1> QED BY <1>1, Inductive, InitFaultless, NextFaultless, PTL DEF Spec

\* As long as no transfer fails and there is room, a row on the card has the
\* title of its boot above it, wherever a reset or an unmount of the shell
\* cuts a save off.
THEOREM RowsHaveTitles == Spec => []TitleFirst
  <1>1. FaultlessInv => TitleFirst
    BY DEF FaultlessInv, Faultless, Titled, TitleFirst
  <1> QED BY <1>1, AlwaysFaultless, PTL

\* As long as no transfer fails, there is room in memory and on the card, and
\* the card stays mounted, the row that the LCD announces as saved is covered
\* by the directory entry on the card, whole and on a row of its own.
THEOREM SavedIsStored == Spec => []StoredIfMounted
  <1>1. ASSUME TypeOK, FaultlessInv
        PROVE  StoredIfMounted
    <2>1. SUFFICES ASSUME Faultless, pc = "saved", mounted
                   PROVE  OnRow(card, Row)
      BY <1>1 DEF FaultlessInv, StoredIfMounted, Row
    <2>2. PICK i \in DOMAIN card : card[i] = Row
      BY <2>1 DEF Faultless, In
    <2>3. i > 1 => i - 1 \in DOMAIN card
      BY <1>1, <2>2 DEF TypeOK
    <2>4. i > 1 => ~card[i - 1].cut
      BY <2>1, <2>3 DEF Faultless, AllWhole
    <2> QED BY <1>1, <2>2, <2>4, RowAndTitle DEF OnRow
  <1>2. IndInv => TypeOK
    BY DEF IndInv
  <1> QED BY <1>1, <1>2, Inductive, AlwaysFaultless, PTL

-----------------------------------------------------------------------------
(* A save                                                                  *)

\* The line after a file that is not torn stands on a row of its own.
LEMMA AppendOnRow ==
    ASSUME NEW f \in Seq(Line), NEW l \in Line, ~l.cut, ~Torn(f)
    PROVE  OnRow(Append(f, l), l)
  <1> DEFINE t == Append(f, l)
             k == Len(f) + 1
  <1>1. /\ DOMAIN t = 1 .. k /\ DOMAIN f = 1 .. Len(f) /\ Len(f) \in Nat
        /\ \A i \in DOMAIN f : t[i] = f[i]
        /\ t[k] = l
    BY AppendFacts
  <1> HIDE DEF t
  <1>2. ASSUME k > 1
        PROVE  ~t[k - 1].cut
    <2>1. Len(f) \in DOMAIN f /\ k - 1 = Len(f) /\ f # <<>>
      <3>1. Len(<<>>) = 0
        OBVIOUS
      <3> QED BY <1>1, <1>2, <3>1
    <2> QED BY <1>1, <2>1 DEF Torn
  <1>3. k \in DOMAIN t
    BY <1>1
  <1>4. OnRow(t, l)
    BY <1>1, <1>2, <1>3 DEF OnRow
  <1> QED BY <1>4 DEF t

\* sdcard_appendNewData loses a line only to a transfer that fails under it,
\* to a missing card, for want of a descriptor, or for want of room in memory,
\* on the card or on the row that the card had no room to end.
THEOREM LinesAreLostByFault == Spec => LostByFault
  <1> DEFINE Kept == OnRow(card', Head(todo))
             Excused ==
                 \/ faults' > faults \/ leaked = MaxFd \/ ~mounted
                 \/ short' > short \/ Head(todo).cut \/ Torn(dir)
  <1>1. ASSUME TypeOK, TodoShape, Next, boot' = boot, pc \in Saving, todo' # todo
        PROVE  Kept \/ Excused
    <2>1. (Fault => faults' > faults) /\ (Shortage => short' > short)
      BY <1>1 DEF Fault, Shortage, TypeOK
    <2>2. CASE OpenRefused
      BY <2>1, <2>2 DEF OpenRefused
    <2>3. CASE Opened \/ Written \/ Flushed
      BY <1>1, <2>1, <2>3 DEF Opened, Written, Flushed, CloseFailed
    <2>4. CASE Committed
      <3>1. CASE CloseFailed
        BY <2>1, <3>1 DEF CloseFailed
      <3>2. CASE card' = Append(dir, Head(todo))
        <4>1. Head(todo) \in Line /\ dir \in Seq(Line)
          BY <1>1, <2>4, HeadOfTodo DEF TypeOK, Committed
        <4> QED BY <3>2, <4>1, AppendOnRow
      <3> QED BY <2>4, <3>1, <3>2 DEF Committed
    <2>5. ~(Mount \/ Save \/ Open \/ Assert \/ Saved \/ Eject \/ ShellUnmount \/ Reset)
      BY <1>1 DEF Mount, Save, Open, Assert, Saved, Eject, ShellUnmount, Reset, Saving,
                  Blocked, TypeOK
    <2> QED
      BY <1>1, <2>2, <2>3, <2>4, <2>5 DEF Next, MainThread, SaveStep, AutoSave, ManualSave
  <1>2. IndInv /\ [Next]_vars =>
           [boot' = boot /\ pc \in Saving /\ todo' # todo => Kept \/ Excused]_vars
    BY <1>1 DEF IndInv
  <1> QED
    BY <1>2, Inductive, PTL DEF Spec, LostByFault

\* The steps a line takes, and those a save may still take.
Place == [open |-> 5, opening |-> 4, writing |-> 3, flushing |-> 2, committing |-> 1]

StepsLeft ==
    IF pc = "saved" THEN 1
    ELSE IF pc \in Saving THEN 5 * (Len(todo) - 1) + Place[pc] + 1
    ELSE 0

\* Every step of a save brings its end nearer, and nothing but a reset and
\* the steps of the save themselves moves it.
SaveShortens ==
    [][/\ SaveStep => StepsLeft' < StepsLeft
       /\ StepsLeft > 0 /\ ~SaveStep => StepsLeft' = StepsLeft \/ boot' # boot]_vars

\* Lines to go are one or two.
LEMMA StepsAre ==
    ASSUME TypeOK, TodoShape
    PROVE  /\ pc \in Saving => Len(todo) \in 1 .. 2 /\ Place[pc] \in 1 .. 5
           /\ StepsLeft \in 0 .. 11 /\ (pc \in Saving => StepsLeft > 1)
           /\ StepsLeft > 0 <=> pc \in Saving \cup {"saved"}
  <1>1. pc \in Saving => Len(todo) \in 1 .. 2
    BY DEF TodoShape, OneLine, TwoLines
  <1>2. pc \in Saving => Place[pc] \in 1 .. 5
    BY DEF Saving, Blocked, Place
  <1>3. CASE pc \in Saving
    <2>1. StepsLeft = 5 * (Len(todo) - 1) + Place[pc] + 1
      BY <1>3 DEF StepsLeft, Saving, Blocked
    <2> DEFINE l == Len(todo)
               p == Place[pc]
    <2>2. l \in 1 .. 2 /\ p \in 1 .. 5
      BY <1>1, <1>2, <1>3
    <2>3. StepsLeft = 5 * (l - 1) + p + 1
      BY <2>1
    <2> HIDE DEF l, p
    <2>4. StepsLeft \in 2 .. 11
      BY <2>2, <2>3
    <2> QED
      BY <1>1, <1>2, <1>3, <2>4
  <1>4. CASE pc \notin Saving
    BY <1>4 DEF StepsLeft, Saving, Blocked
  <1> QED
    BY <1>3, <1>4

\* A line that is done with takes its steps along.
LEMMA LineDone ==
    ASSUME TypeOK, TodoShape, pc \in Saving, NextLine, boot' = boot
    PROVE  StepsLeft' < StepsLeft
  <1>1. Len(todo) \in 1 .. 2 /\ Place[pc] \in 1 .. 5
    BY StepsAre
  <1>2. CASE todo' = <<>>
    <2>1. StepsLeft' = 1
      BY <1>2 DEF NextLine, StepsLeft
    <2> QED
      BY <2>1, StepsAre
  <1>3. CASE todo' # <<>>
    <2>1. todo \in Seq(Line) /\ todo # <<>>
      <3>1. Len(<<>>) = 0
        OBVIOUS
      <3>2. 0 \notin 1 .. 2
        OBVIOUS
      <3> QED BY <1>1, <3>1, <3>2, Zenon DEF TypeOK
    <2>2. Len(todo') = Len(todo) - 1
      BY <2>1 DEF NextLine
    <2>3. pc' = "open" /\ Place[pc'] = 5
      BY <1>3 DEF NextLine, Place
    <2> QED
      BY <1>1, <2>2, <2>3 DEF StepsLeft, Saving, Blocked
  <1> QED
    BY <1>2, <1>3

\* SaveEnds, but for the fairness: a save is over after eleven steps at most.
THEOREM SaveIsShort == Spec => [](StepsLeft <= 11) /\ SaveShortens
  <1>1. ASSUME TypeOK, TodoShape, Next, SaveStep
        PROVE  StepsLeft' < StepsLeft
    <2>1. StepsLeft \in 0 .. 11 /\ (pc \in Saving => Len(todo) \in 1 .. 2)
      BY <1>1, StepsAre
    <2>2. CASE Open
      BY <2>1, <2>2 DEF Open, StepsLeft, Place, Saving, Blocked
    <2>3. CASE Assert \/ Saved
      BY <1>1, <2>1, <2>3, StepsAre DEF Assert, Saved, StepsLeft, Saving, Blocked
    <2>4. CASE NextLine /\ SaveStep /\ pc \in Saving
      <3>1. boot' = boot
        BY <2>4 DEF SaveStep, OpenRefused, Open, Opened, Written, Flushed, Committed, Assert, Saved
      <3> QED BY <1>1, <2>4, <3>1, LineDone
    <2>5. CASE OpenRefused \/ Opened \/ Written \/ Flushed \/ Committed
      <3>1. CASE NextLine
        BY <1>1, <2>4, <2>5, <3>1 DEF OpenRefused, Opened, Written, Flushed, Committed, Saving, Blocked
      <3>2. CASE Opened /\ pc' = "writing" /\ todo' = todo
        BY <2>1, <3>2 DEF Opened, StepsLeft, Place, Saving, Blocked
      <3>3. CASE /\ Written /\ pc' = "flushing"
                 /\ todo' = todo \/ todo' = [todo EXCEPT ![1] = Cut(@)]
        <4>1. pc = "writing" /\ pc \in Saving
          BY <3>3 DEF Written, Saving, Blocked
        <4>2. Len(todo') = Len(todo)
          <5>1. CASE OneLine /\ todo' # todo
            BY <1>1, <3>3, <5>1, CutHead DEF OneLine
          <5>2. CASE TwoLines /\ todo' # todo
            BY <1>1, <3>3, <5>2, CutHead DEF TwoLines
          <5> QED BY <1>1, <4>1, <5>1, <5>2 DEF TodoShape
        <4> QED BY <2>1, <3>3, <4>1, <4>2 DEF StepsLeft, Place, Saving, Blocked
      <3>4. CASE Flushed /\ pc' = "committing" /\ todo' = todo
        BY <2>1, <3>4 DEF Flushed, StepsLeft, Place, Saving, Blocked
      <3> QED
        BY <2>5, <3>1, <3>2, <3>3, <3>4 DEF OpenRefused, Opened, Written, Flushed, Committed, CloseFailed
    <2> QED
      BY <1>1, <2>2, <2>3, <2>5 DEF SaveStep
  <1>2. ASSUME TypeOK, TodoShape, Next, ~SaveStep, StepsLeft > 0
        PROVE  StepsLeft' = StepsLeft \/ boot' # boot
    <2>1. pc \in Saving \cup {"saved"}
      BY <1>2, StepsAre
    <2>2. ShellUnmount \/ Reset
      BY <1>2, <2>1 DEF Next, MainThread, Mount, AutoSave, ManualSave, Save, Eject, Saving, Blocked
    <2>3. CASE ShellUnmount
      BY <2>3 DEF ShellUnmount, StepsLeft
    <2>4. CASE Reset
      BY <1>2, <2>4 DEF Reset, TypeOK
    <2> QED
      BY <2>2, <2>3, <2>4
  <1>3. IndInv => StepsLeft <= 11
    BY StepsAre DEF IndInv
  <1>4. IndInv /\ [Next]_vars =>
           [/\ SaveStep => StepsLeft' < StepsLeft
            /\ StepsLeft > 0 /\ ~SaveStep => StepsLeft' = StepsLeft \/ boot' # boot]_vars
    BY <1>1, <1>2 DEF IndInv
  <1> QED
    BY <1>3, <1>4, Inductive, PTL DEF Spec, SaveShortens
=============================================================================
