----------------------------- MODULE Sdio_proofs -----------------------------
(***************************************************************************)
(* Proofs about Sdio, for every number of retries and of faults.           *)
(*                                                                         *)
(* The interrupt finds its package because of the order of the thread's    *)
(* steps: it sets the package before it opens the interrupt and closes the *)
(* interrupt before it clears the package, and the interrupt itself only   *)
(* ever takes flags out of the mask (Served).                              *)
(*                                                                         *)
(* That requests leave nothing behind and return what happened holds for   *)
(* the faults that keep the order of command, response and block.  Then    *)
(* the thread waits in one of six phases (Waiting), each of which leads to *)
(* the next by a step of the card or the interrupt, and is woken only when *)
(* everything has come to rest (Rest); a late card or a garbled response   *)
(* breaks this, and with it the properties.                                *)
(***************************************************************************)
EXTENDS Sdio, TLAPS

\* The package is set while the interrupt may be open.
Served ==
    /\ at \in {"open", "send", "wait", "poll", "close"} => pkg # "none"
    /\ at = "clear" => mask = {}
    /\ mask # {} => pkg # "none"

\* The inductive invariant.
SdioInv == TypeOK /\ Served

-----------------------------------------------------------------------------
\* The names of the commands are different.
LEMMA Commands ==
    /\ {"read", "write", "status"} \subseteq {"none", "read", "write", "status"}
    /\ \A c \in {"read", "write", "status"} : c # "none"
  OBVIOUS

\* A fault is counted.
LEMMA HitTypes ==
    ASSUME TypeOK,
           NoHit \/ \E k \in {"lost", "garbled", "data", "fifo", "slow"} : Hit(k)
    PROVE  /\ faults' \in 0 .. MaxFaults
           /\ hit' \subseteq {"lost", "garbled", "data", "fifo", "slow"}
  <1>1. CASE NoHit
    BY <1>1 DEF NoHit, TypeOK
  <1>2. ASSUME NEW k \in {"lost", "garbled", "data", "fifo", "slow"}, Hit(k)
        PROVE  /\ faults' \in 0 .. MaxFaults
               /\ hit' \subseteq {"lost", "garbled", "data", "fifo", "slow"}
    <2>1. faults' \in 0 .. MaxFaults
      BY <1>2, SdioAssumption, SMT DEF Hit, TypeOK
    <2> QED
      BY <1>2, <2>1, Zenon DEF Hit, TypeOK
  <1> QED
    BY <1>1, <1>2

\* mmcsd_send_request sets a package, with the interrupt still closed or open.
LEMMA BeginKeeps ==
    ASSUME SdioInv, NEW c \in {"read", "write", "status"}, Begin(c),
           op' \in {"none", "read", "write"}, retries' \in 0 .. Tries - 1,
           answer' = answer, mine' \in BOOLEAN, moved' \in BOOLEAN
    PROVE  SdioInv'
  <1>1. dpsm' \in {"off", "waiting", "moving"}
    BY DEF Begin, SdioInv, TypeOK
  <1>2. cmdErr' \in BOOLEAN /\ dataErr' \in BOOLEAN
    BY DEF Begin
  <1>3. /\ at' = "open" /\ cmd' = c /\ pkg' = c
        /\ UNCHANGED <<event, mask, sta, resp, cpsm, card, faults, hit>>
    BY DEF Begin
  <1>4. TypeOK'
    BY <1>1, <1>2, <1>3, Commands, Zenon DEF SdioInv, TypeOK
  <1>5. Served'
    BY <1>3, Commands DEF Served
  <1> QED
    BY <1>4, <1>5 DEF SdioInv

\* A request, a retry and the question for the status begin a command.
LEMMA CommandsKeep ==
    ASSUME SdioInv,
           (\E o \in {"read", "write"} : Request(o)) \/ Retry \/ Status
    PROVE  SdioInv'
  <1>1. /\ retries \in 0 .. Tries - 1 /\ Tries \in Nat \ {0}
        /\ cmd \in {"read", "write", "status"} /\ op \in {"none", "read", "write"}
        /\ mine \in BOOLEAN /\ moved \in BOOLEAN
    BY SdioAssumption DEF SdioInv, TypeOK
  <1>2. ASSUME NEW o \in {"read", "write"}, Request(o) PROVE SdioInv'
    <2>1. retries' \in 0 .. Tries - 1
      BY <1>1, <1>2, SMT DEF Request
    <2>2. o \in {"read", "write", "status"} /\ Begin(o)
      BY <1>2 DEF Request
    <2> QED
      BY <1>2, <2>1, <2>2, BeginKeeps DEF Request
  <1>3. CASE Retry
    <2>1. retries' \in 0 .. Tries - 1
      BY <1>1, <1>3, SMT DEF Retry
    <2> QED
      BY <1>1, <1>3, <2>1, BeginKeeps DEF Retry
  <1>4. CASE Status
    <2>1. retries' \in 0 .. Tries - 1
      BY <1>1, <1>4, SMT DEF Status
    <2>2. op = "write"
      BY <1>4 DEF Status, StatusDue
    <2> QED
      BY <1>1, <1>4, <2>1, <2>2, BeginKeeps DEF Status
  <1> QED
    BY <1>2, <1>3, <1>4

-----------------------------------------------------------------------------
\* The interrupt of the command is opened, and the command sent.
LEMMA SentKeeps == SdioInv /\ (Open \/ Send) => SdioInv'
  <1> SUFFICES ASSUME SdioInv PROVE Open \/ Send => SdioInv'
    OBVIOUS
  <1> USE DEF SdioInv
  <1>1. CASE Open
    <2>1. mask' \subseteq Flags
      BY <1>1, Zenon DEF Open, TypeOK, Flags, Errors, DataErrors
    <2>2. TypeOK'
      BY <1>1, <2>1, SMT DEF Open, TypeOK, history
    <2>3. Served'
      BY <1>1 DEF Open, Served
    <2> QED
      BY <2>2, <2>3
  <1>2. CASE Send
    <2>1. TypeOK'
      BY <1>2, Commands, SMT DEF Send, TypeOK, history
    <2>2. Served'
      BY <1>2 DEF Send, Served
    <2> QED
      BY <2>1, <2>2
  <1> QED
    BY <1>1, <1>2

\* The thread waits for the response and for the data.
LEMMA WaitKeeps == SdioInv /\ (Received \/ TimedOut \/ Poll) => SdioInv'
  <1> SUFFICES ASSUME SdioInv PROVE Received \/ TimedOut \/ Poll => SdioInv'
    OBVIOUS
  <1> USE DEF SdioInv
  <1>1. AfterWait \in {"close", "poll"}
    BY DEF AfterWait
  <1>2. CASE Received
    <2>1. /\ at = "wait" /\ at' \in {"close", "poll", "fault"}
          /\ event' = {} /\ answer' = resp
          /\ cmdErr' \in BOOLEAN /\ dataErr' \in BOOLEAN
          /\ UNCHANGED <<op, cmd, retries, pkg, mask, sta, resp, cpsm, dpsm,
                         card, history>>
      BY <1>1, <1>2 DEF Received
    <2>2. TypeOK'
      BY <2>1, SMT DEF TypeOK, history
    <2>3. Served'
      BY <2>1 DEF Served
    <2> QED
      BY <2>2, <2>3
  <1>3. CASE TimedOut
    <2>1. NoHit \/ Hit("slow")
      BY <1>3 DEF TimedOut
    <2>2. /\ at = "wait" /\ at' \in {"close", "poll"} /\ cmdErr' \in BOOLEAN
          /\ UNCHANGED <<op, cmd, retries, dataErr, answer, pkg, event, mask,
                         sta, resp, cpsm, dpsm, card, mine, moved>>
      BY <1>1, <1>3 DEF TimedOut
    <2>3. TypeOK'
      BY <2>1, <2>2, HitTypes, SMT DEF TypeOK
    <2>4. Served'
      BY <2>2 DEF Served
    <2> QED
      BY <2>3, <2>4
  <1>4. CASE Poll
    <2>1. NoHit \/ Hit("slow")
      BY <1>4 DEF Poll
    <2>2. /\ at = "poll" /\ at' = "close"
          /\ UNCHANGED <<op, cmd, retries, dataErr, answer, pkg, event, mask,
                         sta, resp, cpsm, dpsm, card, mine, moved>>
      BY <1>4 DEF Poll
    <2>3. cmdErr' \in BOOLEAN
      BY <1>4 DEF Poll, TypeOK
    <2>4. TypeOK'
      BY <2>1, <2>2, <2>3, HitTypes, SMT DEF TypeOK
    <2>5. Served'
      BY <2>2 DEF Served
    <2> QED
      BY <2>4, <2>5
  <1> QED
    BY <1>2, <1>3, <1>4

\* The interrupt is closed, the package cleared, the request answered.
LEMMA EndKeeps == SdioInv /\ (Close \/ Clear \/ Return) => SdioInv'
  <1> SUFFICES ASSUME SdioInv PROVE Close \/ Clear \/ Return => SdioInv'
    OBVIOUS
  <1> USE DEF SdioInv
  <1>1. CASE Close
    <2>1. mask' \subseteq Flags
      BY <1>1 DEF Close
    <2>2. TypeOK'
      BY <1>1, <2>1, SMT DEF Close, TypeOK, history
    <2>3. Served'
      BY <1>1 DEF Close, Served
    <2> QED
      BY <2>2, <2>3
  <1>2. CASE Clear
    <2>1. TypeOK'
      BY <1>2, SMT DEF Clear, TypeOK, history
    <2>2. Served'
      BY <1>2 DEF Clear, Served
    <2> QED
      BY <2>1, <2>2
  <1>3. CASE Return
    <2>1. TypeOK'
      BY <1>3, SMT DEF Return, TypeOK, history
    <2>2. Served'
      BY <1>3 DEF Return, Served
    <2> QED
      BY <2>1, <2>2
  <1> QED
    BY <1>1, <1>2, <1>3

\* The interrupt takes flags out of the mask and leaves the package alone.
LEMMA InterruptKeeps == SdioInv /\ Interrupt => SdioInv'
  <1> SUFFICES ASSUME SdioInv, Interrupt PROVE SdioInv'
    OBVIOUS
  <1> USE DEF SdioInv
  <1>1. UNCHANGED <<thread, resp, cpsm, card, history>>
    BY DEF Interrupt
  <1>2. mask' \subseteq mask
    BY DEF Interrupt
  <1>3. sta' \subseteq Flags /\ event' \subseteq Flags /\ mask' \subseteq Flags
    <2>1. sta \subseteq Flags /\ event \subseteq Flags /\ mask \subseteq Flags
      BY DEF TypeOK
    <2> QED
      BY <1>2, <2>1 DEF Interrupt
  <1>4. dpsm' \in {"off", "waiting", "moving"}
    BY DEF Interrupt, TypeOK
  <1>5. TypeOK'
    BY <1>1, <1>3, <1>4, SMT DEF TypeOK, thread, history
  <1>6. Served'
    BY <1>1, <1>2, Zenon DEF Served, thread
  <1> QED
    BY <1>5, <1>6

-----------------------------------------------------------------------------
\* The peripheral and the card leave the thread and the mask alone.
LEMMA PeripheralKeeps ==
    ASSUME SdioInv, UNCHANGED <<thread, event, mask>>,
           NoHit \/ \E k \in {"lost", "garbled", "data", "fifo", "slow"} : Hit(k),
           sta' \subseteq Flags, resp' \in {"ready", "busy"},
           cpsm' \in {"none", "read", "write", "status"},
           dpsm' \in {"off", "waiting", "moving"},
           card' \in {"tran", "rcv", "data", "prg"},
           mine' \in BOOLEAN, moved' \in BOOLEAN
    PROVE  SdioInv'
  <1>1. /\ faults' \in 0 .. MaxFaults
        /\ hit' \subseteq {"lost", "garbled", "data", "fifo", "slow"}
    BY HitTypes DEF SdioInv
  <1>2. TypeOK'
    BY <1>1, SMT DEF SdioInv, TypeOK, thread
  <1>3. Served'
    BY Zenon DEF SdioInv, Served, thread
  <1> QED
    BY <1>2, <1>3 DEF SdioInv

\* The command path ends with a flag, and the card may take the command.
LEMMA RespondKeeps == SdioInv /\ Respond => SdioInv'
  <1> SUFFICES ASSUME SdioInv, Respond PROVE SdioInv'
    OBVIOUS
  <1> USE DEF SdioInv
  <1>1. sta' \subseteq Flags
    <2>1. {"rend", "ccrc", "ctime"} \subseteq Flags /\ sta \subseteq Flags
      BY DEF Flags, Errors, TypeOK
    <2> QED
      BY <2>1 DEF Respond
  <1>2. NoHit \/ \E k \in {"lost", "garbled", "data", "fifo", "slow"} : Hit(k)
    BY DEF Respond
  <1>3. resp' \in {"ready", "busy"}
    BY DEF Respond, TypeOK
  <1>4. Taken => card' \in {"tran", "rcv", "data", "prg"} /\ mine' \in BOOLEAN
    BY DEF Taken, TypeOK, Respond
  <1>5. card' \in {"tran", "rcv", "data", "prg"} /\ mine' \in BOOLEAN
    BY <1>4 DEF Respond, NotTaken, TypeOK
  <1>6. /\ cpsm' = "none"
        /\ UNCHANGED <<thread, event, mask, dpsm, moved>>
    BY DEF Respond
  <1> QED
    BY <1>1, <1>2, <1>3, <1>5, <1>6, PeripheralKeeps, SMT DEF TypeOK

\* A block is moved, the card is ready again, or the data path gives up.
LEMMA DataKeeps == SdioInv /\ (Blocks \/ BusyEnds \/ PathTimesOut) => SdioInv'
  <1> SUFFICES ASSUME SdioInv PROVE Blocks \/ BusyEnds \/ PathTimesOut => SdioInv'
    OBVIOUS
  <1> USE DEF SdioInv
  <1>1. /\ {"dend", "dcrc", "fifo", "dtime"} \subseteq Flags /\ sta \subseteq Flags
        /\ resp \in {"ready", "busy"}
        /\ cpsm \in {"none", "read", "write", "status"}
        /\ dpsm \in {"off", "waiting", "moving"}
        /\ card \in {"tran", "rcv", "data", "prg"}
        /\ mine \in BOOLEAN /\ moved \in BOOLEAN
    BY DEF TypeOK, Flags, Errors, DataErrors
  <1>2. CASE BlockStarts
    <2>1. NoHit
      BY <1>2 DEF BlockStarts, NoHit, history
    <2> QED
      BY <1>1, <1>2, <2>1, PeripheralKeeps DEF BlockStarts, history
  <1>3. CASE BlockRead
    <2>1. NoHit \/ \E k \in {"lost", "garbled", "data", "fifo", "slow"} : Hit(k)
      BY <1>3 DEF BlockRead
    <2>2. /\ sta' \subseteq Flags /\ moved' \in BOOLEAN
          /\ dpsm' \in {"off", "waiting", "moving"}
      BY <1>1, <1>3 DEF BlockRead, PathEnds
    <2>3. card' = "tran" /\ UNCHANGED <<thread, event, mask, resp, cpsm, mine>>
      BY <1>3 DEF BlockRead
    <2> QED
      BY <1>1, <2>1, <2>2, <2>3, PeripheralKeeps
  <1>4. CASE BlockWritten
    <2>1. NoHit \/ \E k \in {"lost", "garbled", "data", "fifo", "slow"} : Hit(k)
      BY <1>4 DEF BlockWritten
    <2>2. /\ sta' \subseteq Flags /\ moved' \in BOOLEAN
          /\ dpsm' \in {"off", "waiting", "moving"}
          /\ card' \in {"tran", "rcv", "data", "prg"}
      BY <1>1, <1>4 DEF BlockWritten, PathEnds
    <2>3. UNCHANGED <<thread, event, mask, resp, cpsm, mine>>
      BY <1>4 DEF BlockWritten
    <2> QED
      BY <1>1, <2>1, <2>2, <2>3, PeripheralKeeps
  <1>5. CASE BusyEnds
    <2>1. NoHit
      BY <1>5 DEF BusyEnds, NoHit, history
    <2>2. sta' \subseteq Flags /\ dpsm' \in {"off", "waiting", "moving"}
      BY <1>1, <1>5 DEF BusyEnds, PathEnds
    <2>3. /\ card' = "tran"
          /\ UNCHANGED <<thread, event, mask, resp, cpsm, mine, moved>>
      BY <1>5 DEF BusyEnds, history
    <2> QED
      BY <1>1, <2>1, <2>2, <2>3, PeripheralKeeps
  <1>6. CASE PathTimesOut
    <2>1. sta' \subseteq Flags /\ dpsm' = "off" /\ Hit("slow")
      BY <1>1, <1>6 DEF PathTimesOut, PathEnds
    <2>2. UNCHANGED <<thread, event, mask, resp, cpsm, card, mine, moved>>
      BY <1>6 DEF PathTimesOut
    <2> QED
      BY <1>1, <2>1, <2>2, PeripheralKeeps
  <1> QED
    BY <1>2, <1>3, <1>4, <1>5, <1>6 DEF Blocks

\* The invariant holds in every state.
LEMMA SdioInvariance == Spec => []SdioInv
  <1>1. Init => SdioInv
    <2> SUFFICES ASSUME Init PROVE SdioInv
      OBVIOUS
    <2>1. retries \in 0 .. Tries - 1 /\ faults \in 0 .. MaxFaults
      BY SdioAssumption, SMT DEF Init
    <2>2. TypeOK
      BY <2>1, Zenon DEF Init, TypeOK
    <2>3. Served
      BY DEF Init, Served
    <2> QED
      BY <2>2, <2>3 DEF SdioInv
  <1>2. SdioInv /\ [Next]_vars => SdioInv'
    <2>1. SdioInv /\ Next => SdioInv'
      BY CommandsKeep, SentKeeps, WaitKeeps, EndKeeps, InterruptKeeps,
         RespondKeeps, DataKeeps DEF Next, Driver
    <2>2. SdioInv /\ UNCHANGED vars => SdioInv'
      BY SMT DEF vars, thread, history, SdioInv, TypeOK, Served
    <2> QED
      BY <2>1, <2>2
  <1> QED
    BY <1>1, <1>2, PTL DEF Spec

-----------------------------------------------------------------------------
\* The retries of SEND_STATUS never run below zero, and the driver stays at
\* its steps, whatever the card and the peripheral do.
THEOREM SdioTypes == Spec => []TypeOK
  <1>1. SdioInv => TypeOK
    BY DEF SdioInv
  <1> QED
    BY <1>1, SdioInvariance, PTL

\* rthw_sdio_irq_process never runs with sdio->pkg cleared: flags that come in
\* after the thread has given up find the interrupt closed.
THEOREM PackageIsServed == Spec => []PackageServed
  <1>1. SdioInv => PackageServed
    BY DEF SdioInv, Served, PackageServed, Pending
  <1> QED
    BY <1>1, SdioInvariance, PTL

-----------------------------------------------------------------------------
(* What a request leaves behind, as long as responses come as they were    *)
(* sent and in time.                                                       *)

\* The faults that keep the order of commands, responses and blocks.
InOrder == hit \subseteq {"lost", "data", "fifo"}
Refusals == hit \subseteq {"data"}

\* The commands of a request.
Commanded ==
    /\ op = "none" => at = "idle"
    /\ op = "read" => cmd = "read"
    /\ op = "write" => cmd \in {"write", "status"}
    /\ cmd # "status" => retries = 0

\* The data path when a command is sent.
PathOf(c) == IF c = "read" THEN "waiting" ELSE "off"

\* What the thread needs open to be woken.
Opened == Errors \cup {"rend"} \cup (IF cmd = "status" THEN {} ELSE {"dend"})

\* Neither the data path nor the card has anything left to do.
Still ==
    /\ cpsm = "none" /\ dpsm \in {"off", PathOf(cmd)}
    /\ card \in {"tran", "rcv"} /\ (Refusals => card = "tran")

\* The flags that end a command.
Ends == IF cmd = "status" THEN {"rend", "ctime"}
        ELSE {"dend", "ctime", "dcrc", "fifo"}

\* One flag has ended the command; that of the response to a read may still
\* be there.
Result(flags) ==
    \E end \in Ends :
        /\ end \in flags
        /\ flags \subseteq {end} \cup (IF cmd = "read" THEN {"rend"} ELSE {})
        /\ end = "dend" => moved
        /\ cmd = "write" /\ Refusals => moved \/ end = "dcrc"

\* Between commands nothing is left: no event, no flag, nothing on its way.
Rest == event = {} /\ sta = {} /\ Still

\* While the thread waits: the command is on its way ...
Sent ==
    /\ event = {} /\ sta = {} /\ cpsm = cmd /\ dpsm = PathOf(cmd)
    /\ card \in {"tran", "rcv"} /\ (Refusals => card = "tran")

\* ... a block is to come ...
Fetching ==
    /\ cmd = "read" /\ event = {} /\ sta \subseteq {"rend"} /\ cpsm = "none"
    /\ card = "data" /\ dpsm \in {"waiting", "moving"} /\ mine

\* ... the interrupt is to start the block of a write ...
Answered ==
    /\ cmd = "write" /\ event = {} /\ sta = {"rend"} /\ cpsm = "none"
    /\ card = "rcv" /\ dpsm = "off" /\ mine

\* ... the block is sent or stored ...
Storing ==
    /\ cmd = "write" /\ event = {} /\ sta = {} /\ cpsm = "none"
    /\ card \in {"rcv", "prg"} /\ dpsm = "moving" /\ mine
    /\ card = "prg" => moved

\* ... the command has ended, and the interrupt is due ...
Ended == event = {} /\ Still /\ Result(sta)

\* ... or has come, and may come once more for the response.
Woken ==
    /\ event # {} /\ Still /\ Result(event)
    /\ sta \subseteq {"rend"} /\ (cmd # "read" => sta = {})

Waiting ==
    /\ pkg = cmd /\ "rend" \in mask
    /\ event = {} => Opened \subseteq mask
    /\ Sent \/ Fetching \/ Answered \/ Storing \/ Ended \/ Woken

Phase ==
    /\ at # "wait" => Rest
    /\ at \in {"open", "send"} => pkg = cmd /\ dpsm = PathOf(cmd)
    /\ at = "send" => Opened \subseteq mask
    /\ at = "wait" => Waiting
    /\ at # "fault"

\* A command has come to its end, unless it is the first of a request.
Done ==
    /\ at \notin {"open", "send", "wait"} /\ op = "read" /\ ~cmdErr => moved
    /\ op = "write" /\ Refusals =>
           \/ at \in {"open", "send", "wait"} /\ cmd = "write"
           \/ moved \/ dataErr

OrderInv == Commanded /\ (InOrder => Phase /\ Done)

\* What holds before a step.
Before == TypeOK /\ Commanded /\ InOrder /\ Phase /\ Done

\* A flag that ends a command is one the thread has opened.
LEMMA EndsOpened == Ends \subseteq Opened
  BY DEF Ends, Opened, Errors, DataErrors

\* The faults so far are remembered.
LEMMA HitGrows == Next => hit \subseteq hit'
  <1>1. (\E k \in {"lost", "garbled", "data", "fifo", "slow"} : Hit(k)) \/ NoHit
        => hit \subseteq hit'
    BY DEF Hit, NoHit
  <1>2. (\E o \in {"read", "write"} : Request(o)) \/ Retry \/ Status
        => hit \subseteq hit'
    BY DEF Request, Retry, Status, Begin
  <1>3. TimedOut \/ Poll \/ PathTimesOut => hit \subseteq hit'
    BY <1>1 DEF TimedOut, Poll, PathTimesOut
  <1>4. Open \/ Send \/ Received \/ Close \/ Clear \/ Return \/ Interrupt
        => hit \subseteq hit'
    BY DEF Open, Send, Received, Close, Clear, Return, Interrupt, history
  <1>5. Respond => hit \subseteq hit'
    BY <1>1 DEF Respond
  <1>6. Blocks \/ BusyEnds => hit \subseteq hit'
    BY <1>1 DEF Blocks, BlockStarts, BlockRead, BlockWritten, BusyEnds, history
  <1> QED
    BY <1>2, <1>3, <1>4, <1>5, <1>6 DEF Next, Driver

\* The peripheral and the interrupt leave the thread alone.
LEMMA ThreadAlone ==
    Interrupt \/ Respond \/ Blocks \/ BusyEnds \/ PathTimesOut => UNCHANGED thread
  BY DEF Interrupt, Respond, Blocks, BlockStarts, BlockRead, BlockWritten,
         BusyEnds, PathTimesOut

\* A read sends its command alone, a write its own and those for the status.
LEMMA CommandedKeeps == Commanded /\ Next => Commanded'
  <1> SUFFICES ASSUME Commanded, Next PROVE Commanded'
    OBVIOUS
  <1>1. ASSUME NEW o \in {"read", "write"}, Request(o) PROVE Commanded'
    BY <1>1 DEF Request, Begin, Commanded
  <1>2. CASE Retry \/ Status
    BY <1>2 DEF Retry, Status, StatusDue, Begin, Commanded
  <1>3. CASE Open \/ Send \/ Received \/ TimedOut \/ Poll \/ Close \/ Clear
             \/ Return
    BY <1>3 DEF Open, Send, Received, TimedOut, Poll, Close, Clear, Return,
                Commanded
  <1>4. CASE Interrupt \/ Respond \/ Blocks \/ BusyEnds \/ PathTimesOut
    BY <1>4, ThreadAlone DEF thread, Commanded
  <1> QED
    BY <1>1, <1>2, <1>3, <1>4 DEF Next, Driver

-----------------------------------------------------------------------------
\* A command begins with nothing left of the one before.
LEMMA BeginInOrder ==
    ASSUME Before, NEW c \in {"read", "write", "status"}, Begin(c),
           at \in {"idle", "answer"},
           op' \in {"read", "write"},
           op' = "read" => c = "read",
           op' = "write" => c # "read",
           c = "status" => op = "write" /\ at = "answer" /\ moved' = moved
    PROVE  Phase' /\ Done'
  <1>1. Rest
    BY DEF Before, Phase
  <1>2. c = "status" => cmd # "read"
    BY DEF Before, Commanded
  <1>3. /\ at' = "open" /\ cmd' = c /\ pkg' = c
        /\ UNCHANGED <<event, mask, sta, resp, cpsm, card, faults, hit>>
        /\ c = "status" => dataErr' = dataErr
    BY DEF Begin, Before, TypeOK
  <1>4. dpsm' = PathOf(c)
    BY <1>1, <1>2 DEF Begin, Rest, Still, PathOf
  <1>5. Rest'
    BY <1>1, <1>3, <1>4 DEF Rest, Still, Refusals, PathOf
  <1>6. Phase'
    BY <1>3, <1>4, <1>5 DEF Phase, PathOf
  <1>7. Done'
    <2>1. c = "status" /\ Refusals => moved \/ dataErr
      BY DEF Before, Done
    <2> QED
      BY <1>3, <2>1 DEF Done, Refusals
  <1> QED
    BY <1>6, <1>7

\* A request, a retry of the status and the status after a write.
LEMMA CommandsInOrder ==
    ASSUME Before,
           (\E o \in {"read", "write"} : Request(o)) \/ Retry \/ Status
    PROVE  Phase' /\ Done'
  <1>1. ASSUME NEW o \in {"read", "write"}, Request(o) PROVE Phase' /\ Done'
    <2>1. /\ o \in {"read", "write", "status"} /\ o # "status"
          /\ Begin(o) /\ at \in {"idle", "answer"} /\ op' = o
      BY <1>1 DEF Request
    <2> QED
      BY <2>1, BeginInOrder
  <1>2. CASE Retry
    <2>1. retries # 0
      BY <1>2, SMT DEF Retry
    <2>2. cmd = "status" /\ op = "write"
      BY <1>2, <2>1 DEF Retry, Before, Commanded, TypeOK
    <2>3. Begin("status") /\ at = "answer" /\ op' = op /\ moved' = moved
      BY <1>2, <2>2 DEF Retry
    <2> QED
      BY <2>2, <2>3, BeginInOrder
  <1>3. CASE Status
    <2>1. Begin("status") /\ at = "answer" /\ op = "write"
          /\ op' = op /\ moved' = moved
      BY <1>3 DEF Status, StatusDue
    <2> QED
      BY <2>1, BeginInOrder
  <1> QED
    BY <1>1, <1>2, <1>3

\* The interrupt is opened and the command sent.
LEMMA SentInOrder ==
    ASSUME Before, Open \/ Send
    PROVE  Phase' /\ Done'
  <1>1. Rest /\ pkg = cmd /\ dpsm = PathOf(cmd)
    BY DEF Before, Phase, Open, Send
  <1>2. CASE Open
    <2>1. /\ at' = "send"
          /\ UNCHANGED <<op, cmd, cmdErr, dataErr, pkg, event, sta, cpsm, dpsm,
                         card, mine, moved, hit>>
      BY <1>2 DEF Open, history
    <2>2. Opened' \subseteq mask'
      BY <1>2 DEF Open, Opened
    <2>3. Rest'
      BY <1>1, <2>1 DEF Rest, Still, Refusals
    <2>4. Phase'
      BY <1>1, <2>1, <2>2, <2>3 DEF Phase
    <2>5. Done'
      BY <1>2, <2>1 DEF Before, Done, Refusals, Open
    <2> QED
      BY <2>4, <2>5
  <1>3. CASE Send
    <2>1. /\ at' = "wait" /\ cpsm' = cmd
          /\ UNCHANGED <<op, cmd, cmdErr, dataErr, pkg, event, mask, sta, dpsm,
                         card, mine, moved, hit>>
      BY <1>3 DEF Send, history
    <2>2. Opened \subseteq mask /\ "rend" \in Opened /\ Opened' = Opened
      BY <1>3, <2>1 DEF Before, Phase, Send, Opened
    <2>3. Sent'
      BY <1>1, <2>1 DEF Rest, Still, Sent, Refusals
    <2>4. Phase'
      BY <1>1, <2>1, <2>2, <2>3 DEF Phase, Waiting
    <2>5. Done'
      BY <1>3, <2>1 DEF Before, Done, Refusals, Send
    <2> QED
      BY <2>4, <2>5
  <1> QED
    BY <1>2, <1>3

\* The thread is woken when the interrupt has nothing more to do.
LEMMA ReceivedInOrder ==
    ASSUME Before, Received, ~Pending
    PROVE  Phase' /\ Done'
  <1>1. at = "wait" /\ event # {} /\ Waiting
    BY DEF Before, Phase, Received
  <1>2. Woken /\ "rend" \in mask
    BY <1>1 DEF Waiting, Sent, Fetching, Answered, Storing, Ended
  <1>3. sta = {}
    BY <1>2 DEF Woken, Pending
  <1>4. PICK end \in Ends :
            /\ end \in event
            /\ event \subseteq
                   {end} \cup (IF cmd = "read" THEN {"rend"} ELSE {})
            /\ end = "dend" => moved
            /\ cmd = "write" /\ Refusals => moved \/ end = "dcrc"
    BY <1>2 DEF Woken, Result
  <1>5. cmd = "status" => event \cap DataErrors = {}
    BY <1>4 DEF Ends, DataErrors
  <1>6. /\ at' \in {"close", "poll"} /\ event' = {}
        /\ UNCHANGED <<op, cmd, pkg, mask, sta, cpsm, dpsm, card, mine, moved,
                       hit>>
    BY <1>5 DEF Received, AfterWait, history
  <1>7. Rest'
    BY <1>2, <1>3, <1>6 DEF Woken, Rest, Still, Refusals
  <1>8. Phase'
    BY <1>6, <1>7 DEF Phase
  <1>9. op = "read" /\ ~cmdErr' => moved
    <2> SUFFICES ASSUME op = "read", ~cmdErr' PROVE moved
      OBVIOUS
    <2>1. cmd = "read"
      BY DEF Before, Commanded
    <2>2. event \cap Errors = {} \/ "ccrc" \in event
      BY DEF Received
    <2>3. end = "dend"
      BY <1>4, <2>1, <2>2 DEF Ends, Errors, DataErrors
    <2> QED
      BY <1>4, <2>3
  <1>10. op = "write" /\ Refusals => moved \/ dataErr'
    <2>1. CASE cmd = "write"
      <3>1. end = "dcrc" => dataErr'
        BY <1>4, <2>1 DEF Received, DataErrors
      <3> QED
        BY <1>4, <2>1, <3>1
    <2>2. CASE cmd # "write"
      <3>1. op = "write" /\ Refusals => moved \/ dataErr
        BY <2>2 DEF Before, Done
      <3>2. dataErr => dataErr'
        BY DEF Received
      <3> QED
        BY <3>1, <3>2
    <2> QED
      BY <2>1, <2>2
  <1>11. Done'
    BY <1>6, <1>9, <1>10 DEF Done, Refusals
  <1> QED
    BY <1>8, <1>11

\* Without a card that is late there is always something to wait for.
LEMMA TimedOutLate == Before /\ TimedOut /\ ~Pending => Hit("slow")
  <1> SUFFICES ASSUME Before, TimedOut, ~Pending, ~Coming PROVE FALSE
    BY DEF TimedOut
  <1>1. /\ at = "wait" /\ event = {} /\ cpsm = "none"
        /\ cmd \in {"read", "write", "status"}
    BY DEF TimedOut, Before, TypeOK
  <1>2. Waiting /\ Opened \subseteq mask /\ "rend" \in mask
    BY <1>1 DEF Before, Phase, Waiting
  <1>3. CASE Sent
    BY <1>1, <1>3 DEF Sent
  <1>4. CASE Fetching
    BY <1>4 DEF Fetching, Coming
  <1>5. CASE Answered
    BY <1>2, <1>5 DEF Answered, Pending
  <1>6. CASE Storing
    BY <1>6 DEF Storing, Coming
  <1>7. CASE Ended
    <2>1. PICK end \in Ends : end \in sta
      BY <1>7 DEF Ended, Result
    <2> QED
      BY <2>1, <1>2, EndsOpened DEF Pending
  <1>8. CASE Woken
    BY <1>1, <1>8 DEF Woken
  <1> QED
    BY <1>2, <1>3, <1>4, <1>5, <1>6, <1>7, <1>8 DEF Waiting

\* After the wait nothing happens but that the interrupt is closed, the
\* package cleared and the request answered.
LEMMA AfterInOrder ==
    ASSUME Before, Poll \/ Close \/ Clear \/ Return, InOrder'
    PROVE  Phase' /\ Done'
  <1>1. /\ at \notin {"open", "send", "wait"}
        /\ at' \notin {"open", "send", "wait", "fault"}
        /\ UNCHANGED <<op, cmd, dataErr, event, sta, cpsm, dpsm, card, mine,
                       moved>>
    BY DEF Poll, Close, Clear, Return, history
  <1>2. Rest
    BY <1>1 DEF Before, Phase
  <1>3. dpsm # "moving" /\ sta = {}
    BY <1>2 DEF Rest, Still, PathOf
  <1>4. cmdErr' = cmdErr /\ hit' = hit
    BY <1>3 DEF Poll, Close, Clear, Return, NoHit, history, Before, TypeOK
  <1>5. Rest'
    BY <1>1, <1>2, <1>4 DEF Rest, Still, Refusals
  <1>6. Phase'
    BY <1>1, <1>5 DEF Phase
  <1>7. Done'
    BY <1>1, <1>4 DEF Before, Done, Refusals
  <1> QED
    BY <1>6, <1>7

-----------------------------------------------------------------------------
\* The interrupt comes while the thread waits: it starts the block of a
\* write, or wakes the thread, or takes the response of a read.
LEMMA InterruptInOrder ==
    ASSUME Before, Interrupt
    PROVE  Phase' /\ Done'
  <1>1. /\ UNCHANGED <<at, op, cmd, cmdErr, dataErr, pkg, cpsm, card, mine,
                       moved, hit>>
        /\ sta # {}
    BY DEF Interrupt, thread, history, Pending
  <1>2. at = "wait" /\ Waiting
    BY <1>1 DEF Before, Phase, Rest
  <1>3. pkg = cmd /\ "rend" \in mask
    BY <1>2 DEF Waiting
  <1>4. Done'
    BY <1>1 DEF Before, Done, Refusals
  <1>5. "rend" \notin Errors /\ "dend" \notin Errors /\ Opened' = Opened
    BY <1>1 DEF Errors, DataErrors, Opened
  <1>6. CASE Fetching
    <2>1. sta = {"rend"} /\ cmd = "read"
      BY <1>1, <1>6 DEF Fetching
    <2>2. sta \cap Errors = {} /\ ~Completes /\ Cleared = {"rend", "dend"}
      BY <1>3, <1>5, <2>1 DEF Completes, Cleared
    <2>3. sta' = {} /\ UNCHANGED <<mask, event, dpsm>>
      BY <1>3, <2>1, <2>2 DEF Interrupt
    <2>4. Fetching'
      BY <1>1, <1>6, <2>3 DEF Fetching
    <2> QED
      BY <1>1, <1>2, <1>4, <1>5, <2>3, <2>4 DEF Phase, Waiting
  <1>7. CASE Answered
    <2>1. sta = {"rend"} /\ cmd = "write"
      BY <1>7 DEF Answered
    <2>2. sta \cap Errors = {} /\ ~Completes /\ Cleared = {"rend", "dend"}
      BY <1>3, <1>5, <2>1 DEF Completes, Cleared
    <2>3. sta' = {} /\ dpsm' = "moving" /\ UNCHANGED <<mask, event>>
      BY <1>3, <2>1, <2>2 DEF Interrupt
    <2>4. Storing'
      BY <1>1, <1>7, <2>3 DEF Answered, Storing
    <2> QED
      BY <1>1, <1>2, <1>4, <1>5, <2>3, <2>4 DEF Phase, Waiting
  <1>8. CASE Ended
    <2>1. PICK end \in Ends :
              /\ end \in sta
              /\ sta \subseteq
                     {end} \cup (IF cmd = "read" THEN {"rend"} ELSE {})
              /\ end = "dend" => moved
              /\ cmd = "write" /\ Refusals => moved \/ end = "dcrc"
      BY <1>8 DEF Ended, Result
    <2>2. Completes
      BY <1>3, <2>1 DEF Completes, Ends, Errors, DataErrors
    <2>3. event' = sta /\ mask' = mask \ Errors
      BY <1>8, <2>2 DEF Interrupt, Ended
    <2>4. end \in Cleared
      BY <2>1 DEF Cleared, Ends, Errors, DataErrors
    <2>5. sta' \subseteq {"rend"} /\ (cmd # "read" => sta' = {})
      BY <2>1, <2>4 DEF Interrupt
    <2>6. dpsm' = dpsm
      <3>1. cmd = "write" => "rend" \notin sta
        BY <2>1 DEF Ends
      <3> QED
        BY <1>3, <3>1 DEF Interrupt
    <2>7. Still'
      BY <1>1, <1>8, <2>6 DEF Ended, Still, Refusals
    <2>8. Result(event)'
      BY <1>1, <2>1, <2>3 DEF Result, Ends, Refusals
    <2>9. Woken'
      BY <1>1, <2>3, <2>5, <2>7, <2>8 DEF Woken
    <2>10. "rend" \in mask' /\ event' # {}
      BY <1>1, <1>3, <1>5, <2>3
    <2> QED
      BY <1>1, <1>2, <1>3, <1>4, <2>9, <2>10 DEF Phase, Waiting
  <1>9. CASE Woken
    <2>1. sta = {"rend"} /\ cmd = "read"
      BY <1>1, <1>9 DEF Woken
    <2>2. sta \cap Errors = {} /\ ~Completes /\ Cleared = {"rend", "dend"}
      BY <1>3, <1>5, <2>1 DEF Completes, Cleared
    <2>3. sta' = {} /\ UNCHANGED <<mask, event, dpsm>>
      BY <1>3, <2>1, <2>2 DEF Interrupt
    <2>4. Still' /\ Result(event)'
      BY <1>1, <1>9, <2>3 DEF Woken, Still, Result, Ends, Refusals
    <2>5. Woken'
      BY <1>9, <2>3, <2>4 DEF Woken
    <2> QED
      BY <1>1, <1>2, <1>4, <1>5, <2>3, <2>5 DEF Phase, Waiting
  <1> QED
    BY <1>1, <1>2, <1>6, <1>7, <1>8, <1>9 DEF Waiting, Sent, Storing

\* The command path ends: the card has taken the command, or it is lost.
LEMMA RespondInOrder ==
    ASSUME Before, Respond, InOrder'
    PROVE  Phase' /\ Done'
  <1>1. /\ UNCHANGED <<at, op, cmd, cmdErr, dataErr, pkg, event, mask, dpsm,
                       moved>>
        /\ cpsm # "none" /\ cpsm' = "none"
    BY DEF Respond, thread
  <1>2. at = "wait" /\ Waiting /\ Sent
    BY <1>1 DEF Before, Phase, Rest, Still, Waiting, Fetching, Answered,
                Storing, Ended, Woken
  <1>3. Opened' = Opened /\ hit \subseteq hit'
    BY <1>1 DEF Opened, Respond, Hit, NoHit
  <1>4. Done'
    BY <1>1, <1>3 DEF Before, Done, Refusals
  <1>5. /\ event = {} /\ sta = {} /\ cpsm = cmd /\ dpsm = PathOf(cmd)
        /\ card \in {"tran", "rcv"} /\ cmd \in {"read", "write", "status"}
    BY <1>2 DEF Sent, Before, TypeOK
  <1>6. CASE Taken /\ NoHit /\ sta' = sta \cup {"rend"}
    <2>1. hit' = hit /\ sta' = {"rend"}
      BY <1>5, <1>6 DEF NoHit
    <2>2. CASE cmd = "read"
      <3>1. card' = "data" /\ mine' = TRUE
        BY <1>5, <1>6, <2>2 DEF Taken
      <3>2. Fetching'
        BY <1>1, <1>5, <2>1, <2>2, <3>1 DEF Fetching, PathOf
      <3> QED
        BY <1>1, <1>2, <1>3, <1>4, <3>2 DEF Phase, Waiting
    <2>3. CASE cmd = "write"
      <3>1. card' = "rcv" /\ mine' = TRUE
        BY <1>5, <1>6, <2>3 DEF Taken
      <3>2. Answered'
        BY <1>1, <1>5, <2>1, <2>3, <3>1 DEF Answered, PathOf
      <3> QED
        BY <1>1, <1>2, <1>3, <1>4, <3>2 DEF Phase, Waiting
    <2>4. CASE cmd = "status"
      <3>1. card' = card
        BY <1>5, <1>6, <2>4 DEF Taken
      <3>2. Result(sta)'
        BY <1>1, <2>1, <2>4 DEF Result, Ends
      <3>3. Still'
        BY <1>1, <1>2, <1>5, <2>1, <3>1 DEF Still, Sent, Refusals
      <3>4. Ended'
        BY <1>1, <1>5, <3>2, <3>3 DEF Ended
      <3> QED
        BY <1>1, <1>2, <1>3, <1>4, <3>4 DEF Phase, Waiting
    <2> QED
      BY <1>5, <2>2, <2>3, <2>4
  <1>7. CASE /\ NotTaken /\ (IF Takes THEN Hit("lost") ELSE NoHit)
             /\ sta' = sta \cup {"ctime"}
    <2>1. sta' = {"ctime"} /\ card' = card
      BY <1>5, <1>7 DEF NotTaken
    <2>2. cmd = "write" => ~Refusals'
      <3> SUFFICES ASSUME cmd = "write", Refusals' PROVE FALSE
        OBVIOUS
      <3>1. Refusals
        BY <1>3 DEF Refusals
      <3>2. Takes
        BY <1>2, <3>1 DEF Sent, Takes
      <3>3. "lost" \in hit'
        BY <1>7, <3>2 DEF Hit
      <3> QED
        BY <3>3 DEF Refusals
    <2>3. Result(sta)'
      BY <1>1, <1>5, <2>1, <2>2 DEF Result, Ends
    <2>4. Still'
      BY <1>1, <1>2, <1>3, <1>5, <2>1 DEF Still, Sent, Refusals
    <2>5. Ended'
      BY <1>1, <1>5, <2>3, <2>4 DEF Ended
    <2> QED
      BY <1>1, <1>2, <1>3, <1>4, <2>5 DEF Phase, Waiting
  <1>8. ~Hit("garbled")
    BY DEF Hit, InOrder
  <1> QED
    BY <1>6, <1>7, <1>8 DEF Respond

\* A block is only moved while the thread waits for it.
LEMMA DataInOrder ==
    ASSUME Before, Blocks \/ BusyEnds, InOrder'
    PROVE  Phase' /\ Done'
  <1>1. /\ UNCHANGED <<at, op, cmd, cmdErr, dataErr, pkg, event, mask, cpsm,
                       mine>>
        /\ moved => moved'
    BY DEF Blocks, BlockStarts, BlockRead, BlockWritten, BusyEnds, thread,
           history, Before, TypeOK
  <1>2. hit \subseteq hit' /\ Opened' = Opened
    BY <1>1 DEF Blocks, BlockStarts, BlockRead, BlockWritten, BusyEnds,
                history, Hit, NoHit, Opened
  <1>3. Done'
    BY <1>1, <1>2 DEF Before, Done, Refusals
  <1>4. card \in {"data", "prg"} \/ dpsm = "moving"
    BY DEF Blocks, BlockStarts, BlockRead, BlockWritten, BusyEnds
  <1>5. at = "wait" /\ Waiting /\ (Fetching \/ Storing)
    BY <1>4 DEF Before, Phase, Rest, Still, Waiting, Sent, Answered,
                Ended, Woken, PathOf
  <1>6. Fetching' \/ Storing' \/ Ended' => Phase'
    BY <1>1, <1>2, <1>5 DEF Phase, Waiting
  <1>7. CASE Fetching
    <2>1. /\ cmd = "read" /\ event = {} /\ sta \subseteq {"rend"}
          /\ cpsm = "none" /\ card = "data" /\ dpsm \in {"waiting", "moving"}
          /\ mine
      BY <1>7 DEF Fetching
    <2>2. op = "read"
      BY <1>5, <2>1 DEF Before, Commanded, TypeOK
    <2>3. CASE BlockStarts
      <3>1. Fetching'
        BY <1>1, <2>1, <2>3 DEF BlockStarts, Fetching
      <3> QED
        BY <1>3, <1>6, <3>1
    <2>4. CASE BlockRead
      <3>1. card' = "tran" /\ dpsm = "moving"
        BY <2>1, <2>4 DEF BlockRead
      <3>2. PICK end \in {"dend", "dcrc", "fifo"} :
                PathEnds(end) /\ (end = "dend" => moved')
        BY <2>1, <2>2, <2>4, <3>1 DEF BlockRead
      <3>3. Result(sta)'
        BY <1>1, <2>1, <3>2 DEF Result, Ends, PathEnds
      <3>4. Still'
        BY <1>1, <2>1, <3>1, <3>2 DEF Still, PathEnds
      <3>5. Ended'
        BY <1>1, <2>1, <3>3, <3>4 DEF Ended
      <3> QED
        BY <1>3, <1>6, <3>5
    <2>5. ~BlockWritten /\ ~BusyEnds
      BY <2>1, <2>2 DEF BlockWritten, BusyEnds
    <2> QED
      BY <2>3, <2>4, <2>5 DEF Blocks
  <1>8. CASE Storing
    <2>1. /\ cmd = "write" /\ event = {} /\ sta = {} /\ cpsm = "none"
          /\ card \in {"rcv", "prg"} /\ dpsm = "moving" /\ mine
          /\ card = "prg" => moved
      BY <1>8 DEF Storing
    <2>2. op = "write"
      BY <1>5, <2>1 DEF Before, Commanded, TypeOK
    <2>3. ~BlockStarts /\ ~BlockRead
      BY <2>1 DEF BlockStarts, BlockRead
    <2>4. CASE BusyEnds
      <3>1. /\ card' = "tran" /\ PathEnds("dend") /\ moved'
        BY <1>1, <2>1, <2>2, <2>4 DEF BusyEnds
      <3>2. Result(sta)'
        BY <1>1, <2>1, <3>1 DEF Result, Ends, PathEnds
      <3>3. Still'
        BY <1>1, <2>1, <3>1 DEF Still, PathEnds
      <3>4. Ended'
        BY <1>1, <2>1, <3>2, <3>3 DEF Ended
      <3> QED
        BY <1>3, <1>6, <3>4
    <2>5. CASE BlockWritten
      <3>1. CASE card' = "prg" /\ moved' = (moved \/ mine) /\ UNCHANGED <<dpsm, sta>>
        <4>1. Storing'
          BY <1>1, <2>1, <3>1 DEF Storing
        <4> QED
          BY <1>3, <1>6, <4>1
      <3>2. CASE Hit("data") /\ card' = "tran" /\ PathEnds("dcrc")
        <4>1. Result(sta)'
          BY <1>1, <2>1, <3>2 DEF Result, Ends, PathEnds
        <4>2. Still'
          BY <1>1, <2>1, <3>2 DEF Still, PathEnds
        <4>3. Ended'
          BY <1>1, <2>1, <4>1, <4>2 DEF Ended
        <4> QED
          BY <1>3, <1>6, <4>3
      <3>3. CASE Hit("fifo") /\ card' = card /\ PathEnds("fifo")
        <4>1. ~Refusals'
          BY <3>3 DEF Hit, Refusals
        <4>2. Result(sta)'
          BY <1>1, <2>1, <3>3, <4>1 DEF Result, Ends, PathEnds
        <4>3. Still'
          BY <1>1, <2>1, <2>5, <3>3, <4>1 DEF Still, PathEnds, BlockWritten
        <4>4. Ended'
          BY <1>1, <2>1, <4>2, <4>3 DEF Ended
        <4> QED
          BY <1>3, <1>6, <4>4
      <3> QED
        BY <2>1, <2>5, <3>1, <3>2, <3>3 DEF BlockWritten
    <2> QED
      BY <2>3, <2>4, <2>5 DEF Blocks
  <1> QED
    BY <1>5, <1>7, <1>8

\* The order of a request holds in every state.
LEMMA OrderInvariance == Spec => []OrderInv
  <1>1. Init => OrderInv
    BY DEF Init, OrderInv, Commanded, Phase, Rest, Still, Done
  <1>2. ASSUME TypeOK, OrderInv, Next, InOrder' PROVE Phase' /\ Done'
    <2>1. Before
      BY <1>2, HitGrows DEF OrderInv, Before, InOrder
    <2>2. CASE (\E o \in {"read", "write"} : Request(o)) \/ Retry \/ Status
      BY <2>1, <2>2, CommandsInOrder
    <2>3. CASE Open \/ Send
      BY <2>1, <2>3, SentInOrder
    <2>4. CASE Received /\ ~Pending
      BY <2>1, <2>4, ReceivedInOrder
    <2>5. ~(TimedOut /\ ~Pending) /\ ~PathTimesOut
      <3>1. ~Hit("slow")
        BY <1>2 DEF Hit, InOrder
      <3> QED
        BY <2>1, <3>1, TimedOutLate DEF PathTimesOut
    <2>6. CASE Poll \/ Close \/ Clear \/ Return
      BY <1>2, <2>1, <2>6, AfterInOrder
    <2>7. CASE Interrupt
      BY <2>1, <2>7, InterruptInOrder
    <2>8. CASE Respond
      BY <1>2, <2>1, <2>8, RespondInOrder
    <2>9. CASE Blocks \/ BusyEnds
      BY <1>2, <2>1, <2>9, DataInOrder
    <2> QED
      BY <1>2, <2>2, <2>3, <2>4, <2>5, <2>6, <2>7, <2>8, <2>9 DEF Next, Driver
  <1>3. TypeOK /\ OrderInv /\ [Next]_vars => OrderInv'
    <2>1. TypeOK /\ OrderInv /\ Next => OrderInv'
      BY <1>2, CommandedKeeps DEF OrderInv
    <2>2. OrderInv /\ UNCHANGED vars => OrderInv'
      <3> SUFFICES ASSUME OrderInv, UNCHANGED vars PROVE OrderInv'
        OBVIOUS
      <3>1. Commanded' /\ Done' = Done /\ InOrder' = InOrder
        BY DEF vars, thread, history, OrderInv, Commanded, Done, InOrder, Refusals
      <3>2. Still' = Still /\ Result(sta)' = Result(sta)
            /\ Result(event)' = Result(event) /\ Opened' = Opened
        BY DEF vars, thread, history, Still, Result, Ends, Opened, Refusals
      <3>3. Phase => Phase'
        BY <3>2 DEF vars, thread, history, Phase, Rest, Waiting, Sent, Fetching,
                    Answered, Storing, Ended, Woken, Refusals
      <3> QED
        BY <3>1, <3>3 DEF OrderInv
    <2> QED
      BY <2>1, <2>2
  <1> QED
    BY <1>1, <1>3, SdioTypes, PTL DEF Spec

\* rthw_sdio_send_command leaves neither an event nor a flag to the next
\* command, whatever is lost, refused or served too late by the DMA.
THEOREM NothingIsLeft == Spec => []NothingLeft
  <1>1. OrderInv => NothingLeft
    BY DEF OrderInv, InOrder, Phase, Rest, Still, NothingLeft
  <1> QED
    BY <1>1, OrderInvariance, PTL

\* rt_mmcsd_req_blk: a read that returns RT_EOK has read its block.
THEOREM ReadIsDelivered == Spec => []ReadDelivered
  <1>1. OrderInv => ReadDelivered
    BY DEF OrderInv, InOrder, Done, ReadDelivered
  <1> QED
    BY <1>1, OrderInvariance, PTL

\* rt_mmcsd_req_blk: a write the card has refused is not reported as done,
\* however often its status is asked for.
THEOREM RefusalIsReported == Spec => []RefusalReported
  <1>1. OrderInv => RefusalReported
    BY DEF OrderInv, InOrder, Refusals, Done, RefusalReported
  <1> QED
    BY <1>1, OrderInvariance, PTL

-----------------------------------------------------------------------------
(* The refinement of Transfer                                              *)

\* A command of the request is being sent or waited for.
Asking == at \in {"open", "send", "wait"}

\* The block is moved while the thread waits, and its end is in a flag.
MoveSeen ==
    cmd # "status" =>
        /\ at \in {"open", "send"} => ~moved
        /\ at = "wait" => (moved <=> card = "prg" \/ "dend" \in sta \cup event)

\* The errors of a read tell whether its block was moved.
ReadTold ==
    op = "read" =>
        /\ Asking => ~dataErr
        /\ ~Asking => (moved <=> ~cmdErr) /\ (dataErr => cmdErr)

\* Those of a write do when nothing but blocks was refused.
WriteTold ==
    op = "write" =>
        /\ Asking /\ cmd = "write" => ~dataErr
        /\ at = "idle" => cmd = "status"
        /\ Refusals =>
               /\ cmd = "status" \/ ~Asking => (moved <=> ~dataErr)
               /\ cmd = "status" /\ ~Asking => ~cmdErr
               /\ cmd = "status" /\ at = "wait" => "ctime" \notin sta \cup event

Told == MoveSeen /\ ReadTold /\ WriteTold

-----------------------------------------------------------------------------
\* A command begins with its block unmoved, and a status command with what
\* became of the block of the write.
LEMMA BeginTold ==
    ASSUME Before, Told, (\E o \in {"read", "write"} : Request(o)) \/ Retry \/ Status,
           ~Pending
    PROVE  Told'
  <1> USE DEF Before, TypeOK, Commanded, Phase, Rest, Still, Told, MoveSeen,
              ReadTold, WriteTold, Asking, Refusals, Begin, history
  <1>1. CASE \E o \in {"read", "write"} : Request(o)
    BY <1>1 DEF Request
  <1>2. CASE Retry
    BY <1>2 DEF Retry
  <1>3. CASE Status
    BY <1>3 DEF Status, StatusDue
  <1> QED
    BY <1>1, <1>2, <1>3

\* The steps up to the wait.
LEMMA SentTold ==
    ASSUME Before, Told, Open \/ Send
    PROVE  Told'
  <1> USE DEF Before, TypeOK, Commanded, Phase, Rest, Still, Told, MoveSeen,
              ReadTold, WriteTold, Asking, Refusals, history
  <1>1. CASE Open
    BY <1>1 DEF Open
  <1>2. CASE Send
    BY <1>2 DEF Send
  <1> QED
    BY <1>1, <1>2

\* The event that wakes the thread is the end of its block, or its refusal.
LEMMA ReceivedTold ==
    ASSUME Before, Told, Received
    PROVE  Told'
  <1> USE DEF Before, TypeOK, Commanded, Phase, Waiting, Sent, Fetching,
              Answered, Storing, Ended, Woken, Still, Result, Ends, Told,
              MoveSeen, ReadTold, WriteTold, Asking, Refusals, history,
              Received, AfterWait, Errors, DataErrors
  <1>1. Woken
    OBVIOUS
  <1>2. CASE cmd = "status"
    BY <1>1, <1>2
  <1>3. CASE cmd = "read"
    BY <1>1, <1>3
  <1>4. CASE cmd = "write"
    BY <1>1, <1>4
  <1> QED
    BY <1>2, <1>3, <1>4

\* The steps after the wait find nothing more to report.
LEMMA AfterTold ==
    ASSUME Before, Told, ~Pending, Poll \/ Close \/ Clear \/ Return
    PROVE  Told'
  <1> USE DEF Before, TypeOK, Commanded, Phase, Rest, Still, PathOf, Told,
              MoveSeen, ReadTold, WriteTold, Asking, Refusals, history, NoHit
  <1>1. CASE Poll
    BY <1>1 DEF Poll
  <1>2. CASE Close
    BY <1>2 DEF Close
  <1>3. CASE Clear
    BY <1>3 DEF Clear
  <1>4. CASE Return
    BY <1>4 DEF Return, StatusDue
  <1> QED
    BY <1>1, <1>2, <1>3, <1>4

\* The interrupt hands the flag of the end on as an event.
LEMMA InterruptTold ==
    ASSUME Before, Told, Interrupt
    PROVE  Told'
  <1> USE DEF Before, TypeOK, Commanded, Phase, Rest, Waiting, Sent, Fetching,
              Answered, Storing, Ended, Woken, Still, Result, Ends, Told,
              MoveSeen, ReadTold, WriteTold, Asking, Refusals, history, thread,
              Interrupt, Pending, Cleared, Completes, Errors, DataErrors
  <1>1. CASE at # "wait"
    BY <1>1
  <1>2. CASE at = "wait"
    BY <1>2
  <1> QED
    BY <1>1, <1>2

\* A response is no end of a block, and is missing only by a fault.
LEMMA RespondTold ==
    ASSUME Before, Told, Respond, InOrder'
    PROVE  Told'
  <1> USE DEF Before, TypeOK, Commanded, Phase, Rest, Waiting, Sent, Fetching,
              Answered, Storing, Ended, Woken, Still, Result, Ends, Told,
              MoveSeen, ReadTold, WriteTold, Asking, Refusals, history, thread,
              Respond, Taken, NotTaken, Takes, Hit, NoHit, InOrder
  <1>1. Sent /\ at = "wait" /\ UNCHANGED <<at, op, cmd, cmdErr, dataErr, event, moved>>
    OBVIOUS
  <1>2. card' # "prg" /\ sta' \in {{"rend"}, {"ccrc"}, {"ctime"}}
    BY <1>1
  <1>3. Refusals' => Refusals /\ sta' = {"rend"}
    <2>1. Refusals' => NoHit
      BY <1>1
    <2> QED
      BY <1>1, <2>1
  <1> QED
    BY <1>1, <1>2, <1>3

\* A block that is moved ends with its flag, or is in the card, which is busy.
LEMMA DataTold ==
    ASSUME Before, Told, Blocks \/ BusyEnds, InOrder'
    PROVE  Told'
  <1> USE DEF Before, TypeOK, Commanded, Phase, Rest, Waiting, Sent, Fetching,
              Answered, Storing, Ended, Woken, Still, Result, Ends, Told,
              MoveSeen, ReadTold, WriteTold, Asking, Refusals, history, thread,
              PathEnds, Hit, NoHit, InOrder
  <1>1. CASE BlockStarts
    BY <1>1 DEF BlockStarts
  <1>2. CASE BlockRead
    BY <1>2 DEF BlockRead
  <1>3. CASE BlockWritten
    <2>1. /\ Storing /\ at = "wait" /\ card = "rcv" /\ ~moved
          /\ UNCHANGED <<at, op, cmd, cmdErr, dataErr, event>>
      BY <1>3 DEF BlockWritten, PathOf
    <2>2. moved' <=> card' = "prg"
      <3>1. mine
        BY <2>1
      <3>2. CASE card' = "prg" /\ moved' = (moved \/ mine)
        BY <3>1, <3>2
      <3>3. CASE card' # "prg" /\ moved' = moved
        BY <2>1, <3>3
      <3> HIDE DEF Before, TypeOK, Phase, Waiting
      <3> QED
        BY <1>3, <2>1, <3>2, <3>3, Zenon DEF BlockWritten
    <2>3. "dend" \notin sta'
      BY <1>3, <2>1 DEF BlockWritten
    <2>4. Refusals' => Refusals
      BY <1>3 DEF BlockWritten
    <2> QED
      BY <2>1, <2>2, <2>3, <2>4
  <1>4. CASE BusyEnds
    BY <1>4 DEF BusyEnds
  <1> QED
    BY <1>1, <1>2, <1>3, <1>4 DEF Blocks

\* In order, what is told of a block is what became of it.
LEMMA ToldInvariance == Spec => [](InOrder => Told)
  <1> DEFINE Inv == TypeOK /\ OrderInv /\ (InOrder => Told)
  <1>1. Init => (InOrder => Told)
    BY DEF Init, Told, MoveSeen, ReadTold, WriteTold, Asking
  <1>2. ASSUME Inv, Next, InOrder' PROVE Told'
    <2>1. Before /\ Told
      BY <1>2, HitGrows DEF OrderInv, Before, InOrder
    <2>2. CASE ~Pending /\ ((\E o \in {"read", "write"} : Request(o)) \/ Retry \/ Status)
      BY <2>1, <2>2, BeginTold
    <2>3. CASE Open \/ Send
      BY <2>1, <2>3, SentTold
    <2>4. CASE Received
      BY <2>1, <2>4, ReceivedTold
    <2>5. ~(TimedOut /\ ~Pending) /\ ~PathTimesOut
      <3>1. ~Hit("slow")
        BY <1>2 DEF Hit, InOrder
      <3> QED
        BY <2>1, <3>1, TimedOutLate DEF PathTimesOut
    <2>6. CASE ~Pending /\ (Poll \/ Close \/ Clear \/ Return)
      BY <2>1, <2>6, AfterTold
    <2>7. CASE Interrupt
      BY <2>1, <2>7, InterruptTold
    <2>8. CASE Respond
      BY <1>2, <2>1, <2>8, RespondTold
    <2>9. CASE Blocks \/ BusyEnds
      BY <1>2, <2>1, <2>9, DataTold
    <2> QED
      BY <1>2, <2>2, <2>3, <2>4, <2>5, <2>6, <2>7, <2>8, <2>9 DEF Next, Driver
  <1>3. Inv /\ [Next]_vars => (InOrder => Told)'
    <2>1. UNCHANGED vars /\ (InOrder => Told) => (InOrder => Told)'
      BY DEF vars, thread, history, InOrder, Told, MoveSeen, ReadTold, WriteTold, Asking,
             Refusals
    <2> QED
      BY <1>2, <2>1
  <1> QED
    BY <1>1, <1>3, SdioTypes, OrderInvariance, PTL DEF Spec

\* Outside of the calls and returns of a request, a step moves a block or
\* does not, and counts a fault or does not, but never both.
LEMMA OtherSteps ==
    ASSUME TypeOK, Next, ~(\E o \in {"read", "write"} : Request(o)),
           ~(~Pending /\ Return)
    PROVE  /\ op' = op /\ (at' = "idle" <=> at = "idle")
           /\ at = "idle" => cmdErr' = cmdErr /\ dataErr' = dataErr
           /\ \/ moved' = moved
              \/ BlockRead /\ dpsm = "moving" /\ moved' = (moved \/ mine) /\ hit' = hit
              \/ BlockWritten /\ card = "rcv" /\ moved' = (moved \/ mine) /\ hit' = hit
  <1>1. CASE Driver
    BY <1>1 DEF Driver, Begin, history, Open, Send, Received, TimedOut, Poll, Close,
               Clear, Retry, Status, AfterWait
  <1>2. CASE Interrupt \/ Respond \/ BlockStarts \/ BusyEnds \/ PathTimesOut
    BY <1>2 DEF Interrupt, Respond, BlockStarts, BusyEnds, PathTimesOut, thread, history
  <1>3. CASE BlockRead
    BY <1>3 DEF BlockRead, thread, NoHit
  <1>4. CASE BlockWritten
    BY <1>4 DEF BlockWritten, thread, NoHit
  <1> QED
    BY <1>1, <1>2, <1>3, <1>4 DEF Next, Blocks

\* As long as things happen in order, a block is only moved during its
\* request, and once.
LEMMA MovedInTime ==
    ASSUME Before, Told,
           \/ BlockRead /\ dpsm = "moving"
           \/ BlockWritten /\ card = "rcv"
    PROVE  at = "wait" /\ ~moved
  <1> USE DEF Before, TypeOK, Commanded, Phase, Rest, Waiting, Sent, Fetching,
              Answered, Storing, Ended, Woken, Still, PathOf, Told, MoveSeen
  <1>1. CASE BlockRead /\ dpsm = "moving"
    BY <1>1 DEF BlockRead
  <1>2. CASE BlockWritten /\ card = "rcv"
    BY <1>2 DEF BlockWritten
  <1> QED
    BY <1>1, <1>2

\* Faults only take trust away.
LEMMA TrustFalls ==
    ASSUME TypeOK, hit \subseteq hit', op' = op
    PROVE  Trusted' = Trusted \/ Trusted' = "none"
               \/ (Trusted = "full" /\ Trusted' = "order")
  BY DEF Trusted, TypeOK

\* A request is in the abstract one of Transfer, and its result the one that
\* is to be trusted.
THEOREM RequestIsTransfer == Spec => ImplementsTransfer
  <1> DEFINE Inv == TypeOK /\ OrderInv /\ (InOrder => Told)
  <1>1. Init => Transfers!Init
    BY DEF Init, Transfers!Init, Trusted
  <1>2. ASSUME Inv, Next PROVE [Transfers!Next]_Transfers!vars
    <2>1. CASE \E o \in {"read", "write"} : Request(o)
      BY <1>2, <2>1 DEF Request, Begin, Transfers!Next, Transfers!Ask, Transfers!Operations, Transfers!Trust, Trusted
    <2>2. CASE ~Pending /\ Return
      <3>1. Trusted = "full" => (~cmdErr /\ ~dataErr <=> moved)
        BY <1>2, <2>2
           DEF Return, StatusDue, Trusted, Told, ReadTold, WriteTold, Asking, InOrder,
               Refusals, OrderInv, Commanded, TypeOK
      <3>2. /\ at' = "idle" /\ at # "idle" /\ op # "none"
            /\ UNCHANGED <<op, cmdErr, dataErr, moved, hit>>
        BY <1>2, <2>2 DEF Return, history, OrderInv, Commanded
      <3> QED
        BY <3>1, <3>2 DEF Transfers!Next, Transfers!Return, Trusted
    <2>3. CASE ~(\E o \in {"read", "write"} : Request(o)) /\ ~(~Pending /\ Return)
      <3>1. hit \subseteq hit'
        BY <1>2, HitGrows
      <3>2. /\ op' = op /\ (at' = "idle" <=> at = "idle")
            /\ at = "idle" => cmdErr' = cmdErr /\ dataErr' = dataErr
        BY <1>2, <2>3, OtherSteps
      <3>3. CASE moved' = moved
        BY <1>2, <3>1, <3>2, <3>3, TrustFalls DEF Transfers!Next, Transfers!Upset, Transfers!vars
      <3>4. CASE moved' # moved
        <4>1. moved' = TRUE /\ hit' = hit
          BY <1>2, <2>3, <3>4, OtherSteps DEF TypeOK
        <4>2. InOrder => at = "wait" /\ ~moved /\ op # "none"
          BY <1>2, <2>3, <3>4, OtherSteps, MovedInTime DEF Before, OrderInv, Commanded
        <4>3. Trusted # "none" => InOrder
          BY DEF Trusted, InOrder
        <4>4. Trusted' = Trusted
          BY <3>2, <4>1 DEF Trusted
        <4> QED
          BY <3>2, <4>1, <4>2, <4>3, <4>4 DEF Transfers!Next, Transfers!Move
      <3> QED
        BY <3>3, <3>4
    <2> QED
      BY <2>1, <2>2, <2>3
  <1>3. UNCHANGED vars => UNCHANGED Transfers!vars
    BY DEF vars, thread, history, Transfers!vars, Trusted
  <1> QED
    BY <1>1, <1>2, <1>3, SdioTypes, OrderInvariance, ToldInvariance, PTL
       DEF Spec, ImplementsTransfer, Transfers!Spec

-----------------------------------------------------------------------------
(* How long a request takes *)

\* The steps of the thread that are left of the command that is being sent.
OfCommand ==
    CASE at = "open"  -> 7 [] at = "send"  -> 6 [] at = "wait"   -> 5
      [] at = "poll"  -> 4 [] at = "close" -> 3 [] at = "clear"  -> 2
      [] at = "answer" -> 1 [] OTHER -> 0

\* The steps that are left of the request when the card is not busy: seven for
\* each retry of the command, and for each try of the status after a write.
ToGo ==
    IF at \in {"idle", "fault"} THEN 0
    ELSE OfCommand + (7 * retries + (IF cmd = "write" THEN 7 * Tries ELSE 0))

\* rt_mmcsd_req_blk asks again since the card is busy.
AsksAgain == at = "answer" /\ cmd = "status" /\ ~cmdErr /\ answer = "busy"

\* Every step of the thread counts down, but for the question of a busy card;
\* what the peripheral, the card and the interrupt do does not count.
CountsDown ==
    [][/\ Driver => ToGo' < ToGo \/ AsksAgain
       /\ at # "idle" /\ ~Driver => ToGo' = ToGo]_vars

\* The steps that are left, at each step.
LEMMA OfCommandIs ==
    /\ at = "open" => OfCommand = 7
    /\ at = "send" => OfCommand = 6
    /\ at = "wait" => OfCommand = 5
    /\ at = "poll" => OfCommand = 4
    /\ at = "close" => OfCommand = 3
    /\ at = "clear" => OfCommand = 2
    /\ at = "answer" => OfCommand = 1
  BY DEF OfCommand

\* The same after a step.
LEMMA OfCommandNext ==
    /\ at' = "open" => OfCommand' = 7
    /\ at' = "send" => OfCommand' = 6
    /\ at' = "wait" => OfCommand' = 5
    /\ at' = "poll" => OfCommand' = 4
    /\ at' = "close" => OfCommand' = 3
    /\ at' = "clear" => OfCommand' = 2
    /\ at' = "answer" => OfCommand' = 1
  BY DEF OfCommand

\* A step within a command counts down.
LEMMA CommandCounts ==
    ASSUME TypeOK,
           Open \/ Send \/ Received \/ TimedOut \/ Poll \/ Close \/ Clear \/ Return
    PROVE  ToGo' < ToGo
  <1> DEFINE More == 7 * retries + (IF cmd = "write" THEN 7 * Tries ELSE 0)
  <1>1. More \in Nat
    BY SdioAssumption DEF TypeOK
  <1>2. cmd' = cmd /\ retries' = retries
    BY Zenon DEF Open, Send, Received, TimedOut, Poll, Close, Clear, Return
  <1>3. More' = More
    BY <1>2
  <1>4. /\ at \notin {"idle", "fault"} => ToGo = OfCommand + More
        /\ at' \notin {"idle", "fault"} => ToGo' = OfCommand' + More'
        /\ at' \in {"idle", "fault"} => ToGo' = 0
    BY DEF ToGo
  <1>5. \/ at = "open"   /\ at' = "send"
        \/ at = "send"   /\ at' = "wait"
        \/ at = "wait"   /\ at' \in {"poll", "close", "fault"}
        \/ at = "poll"   /\ at' = "close"
        \/ at = "close"  /\ at' = "clear"
        \/ at = "clear"  /\ at' = "answer"
        \/ at = "answer" /\ at' = "idle"
    <2>1. ASSUME Received \/ TimedOut
          PROVE  at = "wait" /\ at' \in {"poll", "close", "fault"}
      BY <2>1, Zenon DEF Received, TimedOut, AfterWait
    <2> QED
      BY <2>1, Zenon DEF Open, Send, Poll, Close, Clear, Return
  <1> HIDE DEF More
  <1> QED
    BY <1>1, <1>3, <1>4, <1>5, OfCommandIs, OfCommandNext

\* A retry and the first question for the status use up seven steps, to spend
\* six; the questions of a busy card are not counted.
LEMMA BeginCounts ==
    ASSUME TypeOK, Commanded, Retry \/ Status
    PROVE  ToGo' < ToGo \/ AsksAgain
  <1>1. /\ at = "answer" /\ at' = "open" /\ OfCommand = 1 /\ OfCommand' = 7
        /\ retries \in Nat /\ Tries \in Nat \ {0}
    BY OfCommandIs, OfCommandNext, SdioAssumption
       DEF Retry, Status, Begin, TypeOK
  <1>2. CASE Retry
    BY <1>1, <1>2, SMT DEF Retry, Begin, ToGo
  <1>3. CASE Status
    BY <1>1, <1>3, SMT
       DEF Status, StatusDue, Begin, ToGo, AsksAgain, Commanded, TypeOK
  <1> QED
    BY <1>2, <1>3

\* Only the thread changes what is left of its request.
LEMMA NextCounts ==
    ASSUME TypeOK, Commanded, [Next]_vars
    PROVE  /\ Driver => ToGo' < ToGo \/ AsksAgain
           /\ at # "idle" /\ ~Driver => ToGo' = ToGo
  <1>1. CASE Driver
    BY <1>1, CommandCounts, BeginCounts DEF Driver
  <1>2. CASE at # "idle" /\ ~Driver
    <2>1. at' = at /\ cmd' = cmd /\ retries' = retries
      BY <1>2, Zenon
         DEF Next, Request, Interrupt, Respond, Blocks, BlockStarts, BlockRead,
             BlockWritten, BusyEnds, PathTimesOut, vars, thread
    <2> QED
      BY <1>2, <2>1, Zenon DEF ToGo, OfCommand
  <1> QED
    BY <1>1, <1>2

\* What is left never exceeds a write and all tries of its status.
LEMMA ToGoBound ==
    ASSUME TypeOK, Commanded
    PROVE  ToGo \in 0 .. 7 * (Tries + 1)
  <1>1. OfCommand \in 0 .. 7 /\ retries \in 0 .. Tries - 1 /\ Tries \in Nat
    BY SdioAssumption DEF OfCommand, TypeOK
  <1> QED
    BY <1>1, SMT DEF ToGo, Commanded, TypeOK

\* Behind RequestEnds: with any faults, a request ends within 7 * (Tries + 1)
\* steps of the thread, unless the card says it is busy, and then within the
\* 7 * Tries steps of the question that follows, unless it says so again.
THEOREM RequestIsShort ==
    Spec => [](ToGo \in 0 .. 7 * (Tries + 1)) /\ CountsDown
  <1>1. SdioInv => TypeOK
    BY DEF SdioInv
  <1>2. OrderInv => Commanded
    BY DEF OrderInv
  <1>3. TypeOK /\ Commanded => ToGo \in 0 .. 7 * (Tries + 1)
    BY ToGoBound
  <1>4. TypeOK /\ Commanded /\ [Next]_vars =>
          [/\ Driver => ToGo' < ToGo \/ AsksAgain
           /\ at # "idle" /\ ~Driver => ToGo' = ToGo]_vars
    BY NextCounts
  <1> QED
    BY <1>1, <1>2, <1>3, <1>4, SdioInvariance, OrderInvariance, PTL
       DEF Spec, CountsDown
=============================================================================
