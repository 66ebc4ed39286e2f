-------------------------------- MODULE Sdio --------------------------------
(***************************************************************************)
(* The transfer of one block to or from the SD card: rt_mmcsd_req_blk of   *)
(* block_dev.c, mmcsd_send_request of mmcsd_core.c, the request, the wait  *)
(* and the interrupt of drv_sdio.c, and what they see of the SDIO          *)
(* peripheral (its status flags, its command path and its data path) and   *)
(* of the card.                                                            *)
(*                                                                         *)
(* One thread makes requests: host->bus_lock lets in one at a time.  The   *)
(* file system of the data log moves single blocks, so that no stop        *)
(* command is sent.  All three commands have a response R1.                *)
(*                                                                         *)
(* A fault is a command that is lost, a response that is, or is garbled, a *)
(* data block that is garbled, a FIFO the DMA serves too late, or a card   *)
(* that takes longer than the driver waits.                                *)
(***************************************************************************)
EXTENDS Naturals

CONSTANTS
    Tries,      \* retries of SEND_STATUS, 5 in the code
    MaxFaults   \* faults in a behaviour

ASSUME SdioAssumption == Tries \in Nat \ {0} /\ MaxFaults \in Nat

VARIABLES
    at,         \* the next step of the thread; "idle" between requests
    op,         \* "read" or "write", the request; "none" before the first
    cmd,        \* the command of the request that is being sent
    retries,    \* cmd->retries
    cmdErr,     \* cmd.err, which write and status commands share
    dataErr,    \* data.err
    answer,     \* cmd.resp[0]: the card is "ready" or "busy" (state 7)
    pkg,        \* sdio->pkg, the command in it, or "none"
    event,      \* sdio->event, the flags that were sent
    \* the peripheral and the card
    mask, sta,  \* the interrupt mask and the status flags
    resp,       \* the response register
    cpsm,       \* the command that is on its way, or "none"
    dpsm,       \* the data path: "off", "waiting" or "moving"
    card,       \* "tran", "rcv", "data" or "prg"
    \* history variables
    mine,       \* the command the card works on is of this request
    moved,      \* the block of this request was moved
    faults, hit \* the number of faults, and their kinds

thread == <<at, op, cmd, retries, cmdErr, dataErr, answer, pkg>>
history == <<mine, moved, faults, hit>>
vars == <<thread, event, mask, sta, resp, cpsm, dpsm, card, history>>

DataErrors == {"dcrc", "dtime"}

\* HW_SDIO_ERRORS; "fifo" is TXUNDERR or RXOVERR.
Errors == {"ccrc", "ctime", "fifo"} \cup DataErrors

Flags == {"rend", "dend"} \cup Errors

Init ==
    /\ at = "idle" /\ op = "none" /\ cmd = "status" /\ retries = 0
    /\ cmdErr = FALSE /\ dataErr = FALSE /\ answer = "ready" /\ pkg = "none"
    /\ event = {} /\ mask = {} /\ sta = {} /\ resp = "ready"
    /\ cpsm = "none" /\ dpsm = "off" /\ card = "tran"
    /\ mine = FALSE /\ moved = FALSE /\ faults = 0 /\ hit = {}

\* One more fault, of kind k.
Hit(k) ==
    /\ faults < MaxFaults
    /\ faults' = faults + 1 /\ hit' = hit \cup {k}

NoHit == UNCHANGED <<faults, hit>>

\* An interrupt is due: it comes before the next step of the thread.
Pending == sta \cap mask # {}

-----------------------------------------------------------------------------
(* The thread *)

\* Faulty variant: the error of the data is reset with that of the command.
BeginAfresh(c) ==
    /\ at' = "open" /\ cmd' = c /\ pkg' = c
    /\ cmdErr' = FALSE /\ dataErr' = FALSE
    /\ dpsm' = CASE c = "read" -> "waiting" [] c = "write" -> "off"
                 [] c = "status" -> dpsm
    /\ UNCHANGED <<event, mask, sta, resp, cpsm, card, faults, hit>>

\* mmcsd_send_request and rthw_sdio_send_command: the errors are reset, the
\* package is set and the data path configured.  It waits for the block of a
\* read at once; that of a write is sent later.
Begin(c) ==
    /\ at' = "open" /\ cmd' = c /\ pkg' = c
    /\ cmdErr' = FALSE /\ dataErr' = (c = "status" /\ dataErr)
    /\ dpsm' = CASE c = "read" -> "waiting" [] c = "write" -> "off"
                 [] c = "status" -> dpsm
    /\ UNCHANGED <<event, mask, sta, resp, cpsm, card, faults, hit>>

\* rt_mmcsd_req_blk: a block is read or written, without a retry.
Request(o) ==
    /\ at = "idle"
    /\ op' = o /\ Begin(o) /\ retries' = 0
    /\ mine' = FALSE /\ moved' = FALSE
    /\ UNCHANGED answer

\* "open irq"
Open ==
    /\ at = "open" /\ at' = "send"
    /\ mask' = mask \cup Errors \cup {"rend"}
                    \cup (IF cmd = "status" THEN {} ELSE {"dend"})
    /\ UNCHANGED <<op, cmd, retries, cmdErr, dataErr, answer, pkg, event, sta,
                   resp, cpsm, dpsm, card, history>>

\* "send cmd"
Send ==
    /\ at = "send" /\ at' = "wait"
    /\ cpsm' = cmd
    /\ UNCHANGED <<op, cmd, retries, cmdErr, dataErr, answer, pkg, event,
                   mask, sta, resp, dpsm, card, history>>

AfterWait == IF cmd = "status" THEN "close" ELSE "poll"

\* Faulty variant: only a timeout of the command is an error.
ReceivedTimeoutOnly ==
    /\ at = "wait" /\ event # {}
    /\ event' = {} /\ answer' = resp
    /\ cmdErr' = ("ctime" \in event)
    /\ dataErr' = (dataErr \/ (cmd # "status" /\ event \cap DataErrors # {}))
    /\ at' = AfterWait
    /\ UNCHANGED <<op, cmd, retries, pkg, mask, sta, resp, cpsm, dpsm, card,
                   history>>

\* rthw_sdio_wait_completed: an event is there.  RESP_R1 & (RESP_R3 | RESP_R4)
\* is not 0, so that a response R1 may be garbled.  A command without data has
\* no data->err to write to: the processor faults, or writes to address 12.
Received ==
    /\ at = "wait" /\ event # {}
    /\ event' = {} /\ answer' = resp
    /\ cmdErr' = \/ event \cap Errors # {} /\ "ccrc" \notin event
                 \/ "ctime" \in event
    /\ dataErr' = (dataErr \/ (cmd # "status" /\ event \cap DataErrors # {}))
    /\ at' \in {AfterWait} \cup
               (IF cmd = "status" /\ event \cap DataErrors # {}
                THEN {"fault"} ELSE {})
    /\ UNCHANGED <<op, cmd, retries, pkg, mask, sta, resp, cpsm, dpsm, card,
                   history>>

\* A block is still on its way.
Coming == dpsm = "moving" \/ (dpsm = "waiting" /\ card = "data")

\* rthw_sdio_wait_completed: five seconds are over.  The command path is done
\* long before.
TimedOut ==
    /\ at = "wait" /\ event = {} /\ cpsm = "none"
    /\ at' = AfterWait /\ cmdErr' = TRUE
    /\ IF Coming THEN Hit("slow") ELSE NoHit
    /\ UNCHANGED <<op, cmd, retries, dataErr, answer, pkg, event, mask, sta,
                   resp, cpsm, dpsm, card, mine, moved>>

\* "Waiting for data to be sent to completion": count reaches 0, or the data
\* path does not move.
Poll ==
    /\ at = "poll" /\ at' = "close"
    /\ \/ /\ dpsm = "moving" /\ Hit("slow")
          /\ cmdErr' = TRUE
       \/ /\ dpsm # "moving" /\ NoHit
          /\ cmdErr' = (cmdErr \/ sta \cap Errors # {})
    /\ UNCHANGED <<op, cmd, retries, dataErr, answer, pkg, event, mask, sta,
                   resp, cpsm, dpsm, card, mine, moved>>

\* Faulty variant: the package is cleared while the interrupt is open.
CloseLate ==
    /\ at = "close" /\ at' = "clear"
    /\ pkg' = "none"
    /\ UNCHANGED <<op, cmd, retries, cmdErr, dataErr, answer, event, mask, sta,
                   resp, cpsm, dpsm, card, history>>

\* "close irq, keep sdio irq"
Close ==
    /\ at = "close" /\ at' = "clear"
    /\ mask' = {}
    /\ UNCHANGED <<op, cmd, retries, cmdErr, dataErr, answer, pkg, event, sta,
                   resp, cpsm, dpsm, card, history>>

\* "clear pkg"
Clear ==
    /\ at = "clear" /\ at' = "answer"
    /\ pkg' = "none"
    /\ UNCHANGED <<op, cmd, retries, cmdErr, dataErr, answer, event, mask, sta,
                   resp, cpsm, dpsm, card, history>>

\* mmcsd_send_request: cmd->err && cmd->retries > 0
Retry ==
    /\ at = "answer" /\ cmdErr /\ retries > 0
    /\ Begin(cmd) /\ retries' = retries - 1
    /\ UNCHANGED <<op, answer, mine, moved>>

\* Faulty variant: the condition of the loop is inverted.
StatusDueWhileReady ==
    op = "write" /\ (cmd = "write" \/ (~cmdErr /\ answer = "ready"))

\* rt_mmcsd_req_blk: a write asks for the status until the card is ready,
\* unless the status cannot be read.
StatusDue == op = "write" /\ (cmd = "write" \/ (~cmdErr /\ answer = "busy"))

Status ==
    /\ at = "answer" /\ ~(cmdErr /\ retries > 0) /\ StatusDue
    /\ Begin("status") /\ retries' = Tries - 1
    /\ UNCHANGED <<op, answer, mine, moved>>

\* rt_mmcsd_req_blk returns: RT_EOK if neither error is set.
Return ==
    /\ at = "answer" /\ ~(cmdErr /\ retries > 0) /\ ~StatusDue
    /\ at' = "idle"
    /\ UNCHANGED <<op, cmd, retries, cmdErr, dataErr, answer, pkg, event, mask,
                   sta, resp, cpsm, dpsm, card, history>>

-----------------------------------------------------------------------------
(* The interrupt *)

\* Faulty variant: the error flags are not cleared.
ClearedAnswers == {"rend", "dend"}

\* The flags the interrupt clears.
Cleared == IF sta \cap Errors # {} THEN Errors ELSE {"rend", "dend"}

\* Faulty variant: any response wakes the thread.
CompletesEarly == sta # {}

\* The interrupt wakes the thread.
Completes ==
    \/ sta \cap Errors # {} \/ "dend" \in sta
    \/ "rend" \in sta /\ pkg = "status"

\* rthw_sdio_irq_process: an answered write starts its data.
Interrupt ==
    /\ Pending
    /\ sta' = sta \ Cleared
    /\ dpsm' = IF sta \cap Errors = {} /\ "rend" \in sta /\ pkg = "write"
               THEN "moving" ELSE dpsm
    /\ IF Completes THEN mask' = mask \ Errors /\ event' = event \cup sta
       ELSE UNCHANGED <<mask, event>>
    /\ UNCHANGED <<thread, resp, cpsm, card, history>>

-----------------------------------------------------------------------------
(* The peripheral and the card *)

\* In other states the card does not answer.
Takes == cpsm = "status" \/ card = "tran"

\* The card takes the command.
Taken ==
    /\ Takes
    /\ card' = CASE cpsm = "read" -> "data" [] cpsm = "write" -> "rcv"
                 [] cpsm = "status" -> card
    /\ mine' = (cpsm # "status" \/ mine)

NotTaken == UNCHANGED <<card, mine>>

Respond ==
    /\ cpsm # "none" /\ cpsm' = "none"
    /\ \/ /\ Taken /\ NoHit
          /\ sta' = sta \cup {"rend"}
          /\ resp' = IF card = "prg" THEN "busy" ELSE "ready"
       \/ /\ Taken /\ Hit("garbled")
          /\ sta' = sta \cup {"ccrc"} /\ resp' \in {"busy", "ready"}
       \/ /\ Taken /\ Hit("garbled")
          /\ sta' = sta \cup {"ctime"} /\ resp' = resp
       \/ /\ NotTaken /\ (IF Takes THEN Hit("lost") ELSE NoHit)
          /\ sta' = sta \cup {"ctime"} /\ resp' = resp
    /\ UNCHANGED <<thread, event, mask, dpsm, moved>>

\* The data path ends with one flag.
PathEnds(flag) == dpsm' = "off" /\ sta' = sta \cup {flag}

\* The card begins to send its block.
BlockStarts ==
    /\ card = "data" /\ dpsm = "waiting" /\ dpsm' = "moving"
    /\ UNCHANGED <<thread, event, mask, sta, resp, cpsm, card, history>>

\* The card has sent its block, to the data path or to nobody.
BlockRead ==
    /\ card = "data" /\ dpsm # "waiting" /\ card' = "tran"
    /\ \/ /\ dpsm = "moving" /\ op = "read" /\ NoHit
          /\ PathEnds("dend") /\ moved' = (moved \/ mine)
       \/ /\ dpsm = "moving" /\ op = "read" /\ Hit("data")
          /\ PathEnds("dcrc") /\ moved' = moved
       \/ /\ dpsm = "moving" /\ op = "read" /\ Hit("fifo")
          /\ PathEnds("fifo") /\ moved' = moved
       \/ /\ ~(dpsm = "moving" /\ op = "read") /\ NoHit
          /\ UNCHANGED <<dpsm, sta, moved>>
    /\ UNCHANGED <<thread, event, mask, resp, cpsm, mine>>

\* The data path sends the block of a write: the card takes it and is busy,
\* or it does not, or the FIFO runs empty.
BlockWritten ==
    /\ dpsm = "moving" /\ op = "write" /\ card # "prg"
    /\ \/ /\ card = "rcv" /\ NoHit /\ card' = "prg"
          /\ moved' = (moved \/ mine) /\ UNCHANGED <<dpsm, sta>>
       \/ /\ card = "rcv" /\ Hit("data") /\ card' = "tran"
          /\ PathEnds("dcrc") /\ moved' = moved
       \/ /\ card = "rcv" /\ Hit("fifo") /\ card' = card
          /\ PathEnds("fifo") /\ moved' = moved
       \/ /\ card # "rcv" /\ NoHit /\ card' = card
          /\ PathEnds("dcrc") /\ moved' = moved
    /\ UNCHANGED <<thread, event, mask, resp, cpsm, mine>>

\* The card is no longer busy, and the data path of a write has ended.
BusyEnds ==
    /\ card = "prg" /\ card' = "tran"
    /\ IF dpsm = "moving" /\ op = "write" THEN PathEnds("dend")
       ELSE UNCHANGED <<dpsm, sta>>
    /\ UNCHANGED <<thread, event, mask, resp, cpsm, history>>

\* The timer of the data path, more than an hour, runs out.
PathTimesOut ==
    /\ dpsm # "off" /\ (at = "wait" => cmd = "status")
    /\ PathEnds("dtime") /\ Hit("slow")
    /\ UNCHANGED <<thread, event, mask, resp, cpsm, card, mine, moved>>

-----------------------------------------------------------------------------
Driver ==
    /\ ~Pending
    /\ \/ Open \/ Send \/ Received \/ TimedOut \/ Poll \/ Close \/ Clear
       \/ Retry \/ Status \/ Return

Blocks == BlockStarts \/ BlockRead \/ BlockWritten

Next ==
    \/ ~Pending /\ \E o \in {"read", "write"} : Request(o)
    \/ Driver \/ Interrupt
    \/ Respond \/ Blocks \/ BusyEnds \/ PathTimesOut

\* The thread runs, an interrupt is served, a command path ends, and a card
\* that has begun to move a block, or is busy, comes to its end.
Spec == Init /\ [][Next]_vars /\ WF_vars(Driver) /\ WF_vars(Interrupt)
             /\ WF_vars(Respond) /\ WF_vars(Blocks) /\ WF_vars(BusyEnds)

-----------------------------------------------------------------------------
(* Properties *)

TypeOK ==
    /\ at \in {"idle", "open", "send", "wait", "poll", "close", "clear",
               "answer", "fault"}
    /\ op \in {"none", "read", "write"} /\ cmd \in {"read", "write", "status"}
    /\ retries \in 0 .. Tries - 1
    /\ cmdErr \in BOOLEAN /\ dataErr \in BOOLEAN
    /\ answer \in {"ready", "busy"} /\ resp \in {"ready", "busy"}
    /\ pkg \in {"none", "read", "write", "status"}
    /\ cpsm \in {"none", "read", "write", "status"}
    /\ event \subseteq Flags /\ mask \subseteq Flags /\ sta \subseteq Flags
    /\ dpsm \in {"off", "waiting", "moving"}
    /\ card \in {"tran", "rcv", "data", "prg"}
    /\ mine \in BOOLEAN /\ moved \in BOOLEAN
    /\ faults \in 0 .. MaxFaults
    /\ hit \subseteq {"lost", "garbled", "data", "fifo", "slow"}

\* rthw_sdio_irq_process: the interrupt never finds sdio->pkg cleared,
\* whatever flags come in late.
PackageServed == Pending => pkg # "none"

\* rthw_sdio_send_command: while every response comes as it was sent, and
\* within the time the driver waits, neither a flag nor an event of a command
\* is left for the next one to take as its own.
NothingLeft ==
    at \in {"answer", "idle"} /\ hit \subseteq {"lost", "data", "fifo"} =>
        event = {} /\ sta = {} /\ cpsm = "none"

\* What the result of the request at hand can be trusted for, after the
\* faults there have been.
Trusted ==
    IF hit \subseteq (IF op = "write" THEN {"data"} ELSE {"lost", "data", "fifo"})
    THEN "full"
    ELSE IF hit \subseteq {"lost", "data", "fifo"} THEN "order" ELSE "none"

\* rt_mmcsd_req_blk implements what a file system is promised: a block is
\* moved in the time of its request and once, and the result tells whether
\* it was.
Transfers == INSTANCE Transfer WITH
    asked  <- IF at = "idle" THEN "none" ELSE op,
    result <- IF at # "idle" \/ op = "none" THEN "none"
              ELSE IF ~cmdErr /\ ~dataErr THEN "ok" ELSE "failed",
    trust  <- Trusted
ImplementsTransfer == Transfers!Spec

\* For the caller this means: as long as NothingLeft holds, a read that
\* returns RT_EOK has read its block.
ReadDelivered ==
    /\ at = "idle" /\ op = "read" /\ ~cmdErr /\ ~dataErr
    /\ hit \subseteq {"lost", "data", "fifo"}
    => moved

\* rt_mmcsd_req_blk: a write that the card has refused is not reported as
\* done, although its status is asked for with the same cmd.
RefusalReported ==
    /\ at = "idle" /\ op = "write" /\ ~cmdErr /\ ~dataErr
    /\ hit \subseteq {"data"}
    => moved

\* rt_mmcsd_req_blk: every request comes to its end, unless the processor
\* faults.
RequestEnds == at # "idle" ~> at \in {"idle", "fault"}

\* "mmcsd request blocks error" is the answer when a request has failed: a
\* write that returns RT_EOK was stored by the card.
WriteStored ==
    at = "idle" /\ op = "write" /\ ~cmdErr /\ ~dataErr => moved

=============================================================================
