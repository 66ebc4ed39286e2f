# TLA+ specifications of the weather station

The station is a program for an STM32F103 board: RT-Thread 4.0.5, an LCD, two
keys, a camera behind a FIFO, three I2C sensors, two analogue sensors and an SD
card. Its own code is in `src/applications` (about 3,000 lines without the
vendor's LCD, font and Bosch code); `src/drivers`, `src/rt-thread`,
`src/libraries` and `src/cubemx` are the board support, the kernel and generated
or vendored code. Almost everything runs in **one thread**, `main`; what makes it
hard is what happens beside that thread: key and camera interrupts that share
variables with it without a lock, an SD card that fails or is taken away, a shell
that can unmount it, sensors that come and go, and power that can be cut.

## 1. Inventory

| Component | State | Operations | Talks to |
|---|---|---|---|
| Scene user interface (`main.c`) | `currScene`, `currSetting`, `currDelay`, a `select...` cursor and an `..._isChanged` flag for each, `isSavingData`, `isEjecting` | `mainFunc`, `enter_SETTING`, `enter_SETTING_DELAY`, `config_delay`; twelve key interrupts | pin driver, LCD, data log, camera |
| Pin interrupt table (`drv_gpio.c`) | `pin_irq_hdr_tab` | attach, detach, enable, dispatch | EXTI |
| Data log (`main.c`, `SD_card.c`) | `isFirstSave`, `DATA_DELAY`, `/data.csv` | `sdcard_saveCurrData`, `my_sd_card_test`, `SD_CARD_eject`, `sdcard_init`, shell command `sdcard_unmount` | DFS, user interface |
| DFS and FatFs (vendored) | descriptor table, the sector window of the volume, the file's sector buffer | open, write, close, unmount | SD stack |
| Camera (`bsp_ov7725.c`) | `Ov7725_vsync`, the FIFO and its write enable | `my_ov7725_test_init`, `my_ov7725_interrupt`, `my_ov7725_test` | VSYNC interrupt, LCD |
| I2C sensors (`i2c_*.c`, `main.c`) | a heap structure for each sensor and a global pointer to it | `my_..._init`, `my_..._get_data`, `my_..._destroy`, the polls of `main` | heap, I2C bus |
| Kernel heap (`mem.c`, vendored) | blocks and their used flags | `rt_malloc`, `rt_free` | everybody |
| I2C register access (`i2c_*.c`, `i2c-bit-ops.c`, `Bosch_BME280.c`) | the bus, claimed or free; the configuration and the mode of the sensors | `write_reg`, `write_regs`, `read_regs`, the steps of the Bosch driver | sensors |
| SDIO driver and block device (`drv_sdio.c`, `mmcsd_core.c`, `block_dev.c`) | the package, the event, `cmd.err`, `data.err`, the interrupt mask | `rt_mmcsd_req_blk`, `mmcsd_send_request`, `rthw_sdio_send_command`, `rthw_sdio_irq_process` | FatFs, the card |
| ADC sensors (`adc_*.c`) | ADC1's regular channel, the window and the sum of `my_filter` | init, get_data | polls |
| Polls (`main.c`) | `..._prev_milli`, `..._DELAY`, `count` | `my_..._test`, `DISP_DATA_task` | tick counter |
| SCCB | line levels | transfer | camera |
| LCD, touch, palette, fonts, LED | registers, pixels | drawing | – |
| Kernel, shell, log, HAL, CMSIS, CubeMX | – | – | – |

Hard behaviours and where they are:

* **Interleaving.** A key interrupt may come between any two accesses of
  `mainFunc`: between the `switch` on a variable and the test of its flag,
  between the two halves of the rebinding of the keys, between the drawing of a
  cursor and the next test. VSYNC comes in while the FIFO is read or the camera
  configured. The shell runs while `main` waits for a transfer.
* **Failure.** A transfer to the card fails in the middle of an append; the card
  is full, or memory is; the card is ejected, and saves go on being asked for; a
  sensor stops answering; a register of the camera is not written, and nobody asks.
* **Restart.** Power or `reboot` at any point of a save; a start that is repeated
  until every device answers.
* **Late and lost answers.** A response of the card that comes after the driver
  has given it up meets the next command; a write to a sensor that breaks off
  without a stop condition leaves the bus claimed, and the next transfer to another.
* **Limits.** 16 file descriptors, a small heap, a FIFO of 2.56 frames, a 32-bit
  tick, an 8-bit average.

What makes the components correct:

* user interface: both keys serve one page, the one on the LCD; no cursor move is
  lost; a change of scene is taken up; K2 leads where the cursor points; nothing
  is ejected that was not confirmed;
* data log: the file is a journal that only grows; a row never stands without its
  title; what is announced is on the card; an ejected card is left alone; a save
  always returns (the first of these always, the next two as long as no transfer fails
  and there is room);
* camera: a photo of a camera with all its registers is one whole frame, newer than the
  last; nothing is written to a frame while it is read, and there is always a next one;
* sensors: every sensor has a structure of its own, it lives until that sensor
  fails, it is freed once, and the station starts when everything answers and there
  is room; a value that is stored was read from the register that was asked for, and
  the loop begins with every sensor configured;
* blocks of the card: a request ends, its interrupt finds its package, nothing of it
  is left for the next, and what is reported as done was done;
* ADC: the sum is that of the window, the density is that of the window, the sound is
  the microphone's;
* polls: none is early and none late, whatever wraps.

The hazards, each at its line, are in `PROJECT.json`.

## 2. Modules

| Module | Models | Kind |
|---|---|---|
| `PinIrq` | the table of pin handlers, `drv_gpio.c` | operators |
| `SceneUI` | `mainFunc` and the settings pages of `main.c` with the key interrupts | specification |
| `Navigation` | what the LCD texts promise of the pages and the keys | abstract specification |
| `MCSceneUI` | bound on the key presses | model checking |
| `MCPatient` | a user who waits for the main thread; the mapping to `Navigation` | model checking, refinement |
| `SceneUI_proofs` | types, keys and screen, cursors, the way to rest, refinement of `Navigation` for a patient user | proofs |
| `DataLog` | saves, ejection, the shell, resets, and the DFS/FatFs path of an append | specification |
| `Journal` | what a reader of `/data.csv` may rely on | abstract specification |
| `MCDataLog` | bounds on saves and boots | model checking |
| `DataLog_proofs` | types, refinement of `Journal`, frozen card, titles, stored and lost rows, steps of a save | proofs |
| `Sdio` | one block request: thread, interrupt, peripheral and card | specification |
| `Transfer` | what a file system may rely on of a block request | abstract specification |
| `Sdio_proofs` | types, the package of the interrupt, requests that leave nothing behind, refinement of `Transfer`, steps of a request | proofs |
| `Camera` | the OV7725, its FIFO, the VSYNC interrupt and the reading of a photo | specification |
| `MCCamera` | bound on frames, count of the frames waited for | model checking |
| `Camera_proofs` | types, whole and new photos, the hand-over, the frames waited for | proofs |
| `Sensors` | sensor structures on the heap; start, polls, failed reads | specification |
| `Sensors_proofs` | types, no sharing, lifetime of the structures, room for a start | proofs |
| `I2cBus` | the software I2C bus and the three forms of transfer | state and operators |
| `Readings` | every transfer of the three I2C sensors, over `I2cBus` | specification, composition |
| `Readings_proofs` | types, the claimed bus and its release, the registers read, the configuration | proofs |
| `Adc` | the dust sensor and the microphone on their one converter, `my_filter` | specification |
| `Adc_proofs` | types, the sum, the density, the channel of the sound | proofs |
| `Polls` | the tick, the periods of all polls, `count` | specification |
| `MCPolls` | the periods of an instance | model checking |
| `Polls_proofs` | types, polls neither early nor late | proofs |

The modules follow the borders between the parts. `Readings` composes the drivers of
the three sensors over the bus they share. Elsewhere one module stands for the other
by what it shows of it: a save of `SceneUI` is the sequence of steps of `DataLog`; a
transfer of `DataLog`, which is done, or is reported as failed and may have been done all
the same, is a request of `Sdio` as `Transfer` describes it;
a read of `Sensors`, which succeeds or fails, is a poll of `Readings`; and that a poll
is due again and again, the fairness of `Readings`, is `OnTime` of `Polls`.

Definitions keep the names of the source where there is one. A definition that
begins with the comment *Faulty variant* is a mutation of the one after it; the
specifications do not use it. It exists to show that a property can fail:
`PROJECT.json` lists for each checked property a faulty variant that violates it.

### SceneUI

`pc` is the point of the main thread between two accesses of variables that
interrupts share; `at` is the value the current `switch` read. So `SwitchScene`
is the `switch (currScene)` and `SceneChanged` the later test and reset of
`scene_isChanged`, and a key may come in between. A test and the reset that
follows it are one step: a handler only ever sets a flag, so that a handler that
runs between the two could as well have run before both. `Detach1 .. Attach2`
are the four calls that rebind the keys, `Draw` draws the page. The key handlers
are actions of their own, one step each: all EXTI lines have the same preemption
priority, so they neither nest nor are interrupted by the main thread.
`handler[k]` is the entry of the pin table, named after the page whose
`key1_irq_...` or `key2_irq_...` it holds; a press with no handler is lost.
`screen` is the page, list and cursor row that were drawn last. `prevScene`,
`prevSetting` and `prevDelay` are written and never read, and left out. `Save` and
`Eject` of the user interface are the calls whose insides `DataLog` models.

### DataLog

A save appends one or two lines; an append goes through `open`, `opening`
(`f_open` and `f_lseek`), `writing`, `flushing` (the data sector in `f_sync`) and
`committing` (the directory sector). Every one of these may wait for a transfer,
which is when the shell can run, and may fail, which ends the append silently:
`sdcard_appendNewData` returns nothing. `dir` is the file as FatFs's sector window
has it, `card` the file as the directory entry on the card covers it. They differ
after a directory write that failed: the window stays dirty and may go out with a
later append, whenever FatFs needs another sector in it (`WindowMoves`). A transfer
that is reported as failed may have been made all the same: a garbled response looks
like none. So a failed append may leave its line on the card, and a failed open an
earlier one. The mutex of the volume, which the shell may hold for longer than the three
seconds an append waits for it, is one more fault.

There are two ways to lose a line without any fault (`Shortage`). `open()` wants memory
four times over, for the descriptor and its table (`fd_alloc`), the path
(`dfs_file_open`), the file object (`dfs_elm_open`) and the long name (`f_open`); what it
does not get ends the append as a fault does (`OpenRefused`, `Opened`). And a card may
be full: `f_write` ends at the cluster it does not get (`ff.c:4043`), or at the 4 GiB a
file may have (`ff.c:4019-4020`), and returns `FR_OK` with less written than it was
given, which `sdcard_appendNewData` does not look at. The part there was room for is
flushed and committed like a line (`Written`, `Cut`). It has no end of line, so that
the next line, when there is room again, continues its row (`Torn`; a line on a row of
its own is `OnRow`). Room comes and goes: the other threads use the heap, and files of
the card can be removed at the console, so that a save after a shortage may well
succeed. The LCD announces success in all of these cases. One block more, the copy of
the path (`dfs_file.c:77`), is not asked after: without it an `open` that otherwise
succeeds makes a file named "(NULL)", and the line goes there; to `data.csv` that is
a shortage like the others.

`Unmount` drops the window. `Reset` is possible in every state, and
in `committing` the sector may or may not have been written. Taking the volume
away while FatFs waits (`ShellUnmount`) ends in an assertion of the kernel:
`dfs_elm_unmount` has freed the volume and cleared the drive's device, and
`rt_assert_handler` loops for ever.

### Camera

A frame is sent in two halves, and the FIFO is a ring of `Capacity` halves; the
source's 393,216 bytes are 5.12 halves, rounded down. `VSync` is the interrupt,
`Interrupt` its handler: from state 0 the write pointer is reset and writing
enabled, from 1 writing stops and the frame is handed over, in 2 nothing happens.
`ReadFirst` and `ReadSecond` are the two halves of `ImagDisp`, so that VSYNC and
data come in between. Each half carries the number of its frame and whether all
registers had been written when that frame began. Before that, frames may end
early or go on past their second half: the camera has other settings after its reset.
`OV7725_Init` looks at the result of each of its writes, the seven setters that follow it
(`bsp_ov7725.c:752-764`) at none, and nothing reads the registers back. So `RegsWritten`
leaves open whether they all arrived (`configured`), and the initialisation goes on
either way. What a photo shows is only promised of a camera that has them all
(`PhotoIntact`, `PhotoNew`): another may send half a frame, or none, and the FIFO then
holds what was in it before. `HandedOver` and `ReadyInTime` hold for any camera.

### Sensors

A block of the heap has a used flag and remembers whose data was written to it
last, also after it was freed; others allocate and free blocks at any time.
`ptr[s]` is the global pointer of a sensor. A read through the pointer of a
structure that is still intact succeeds or fails with the sensor; through one that
others have overwritten it may fail, or fault. `RtFree` contains the assertion of
`rt_free`. One action stands for the three equal functions `my_hmc5883l_test`,
`my_bme280_test` and `my_ltr390_test`, which are called in turn.

### I2cBus and Readings

`at` is the next transfer of the main thread, named after what it does (`hmcA`,
`lightCtrl`) or after its place in the Bosch driver (`BmeThen`). Every transfer is one
step, since nobody else uses the bus; it ends with all bytes acknowledged or not
(`ok`), and independently of that the device has taken them or not (`took`): an
acknowledge may be lost. The three forms differ in how they end. `WriteReg` and
`ReadRegs` always send a stop condition. `WriteRegs`, the BME280's write, has
`RT_I2C_NO_STOP` on its first message, and if that fails SCL stays low (`claimed`) and
the device may still listen (`listener`). Then the start condition of the next
transfer is none, and its bytes, address and all, go to the listener (`Taker`),
although the master may see them acknowledged. A read comes back to its device by the
repeated start, but the register it then reads is the one of before: its quality is
`other`. `conf` are the configuration registers that hold what was meant, `mode` the
measurement the light sensor makes (in standby none, and its status, read as asked,
then never says that data are ready), and `got` the quality of the last value stored.
Devices lose and regain power between transfers. An error in the humidity settings is
forgotten by the driver (`AfterBme`), which makes the claimed bus a matter of the
order of transfers: had a write of the BME280 followed, both would be lost and the bus
would stay claimed.

### Sdio

`at` is the step of `rthw_sdio_send_command`: the package is set (`open`), the
interrupt opened, the command sent, the event waited for, the data polled, the
interrupt closed and the package cleared. `sta` are the status flags, `mask` the
interrupt mask, `cpsm` and `dpsm` the command and the data path. The interrupt comes
before the next step of the thread whenever a flag is unmasked; `Cleared` and
`Completes` are what it clears and when it wakes the thread. The peripheral and the
card move on their own: a command is taken or lost, its response comes, is garbled or
is lost; a block is moved, refused, or fails in the FIFO; the card is busy for as long as
it likes, also longer than the driver waits (`slow`). The write and its status commands
share one `cmd` (`Begin` resets its error), which is what the finding is about. The
history variable `mine` says whether the card works on a command of this request and
`moved` whether its block was moved. The abstract specification `Transfer` knows the
request, its block and its result only. What it promises depends on `trust`: with
`full` a block is moved in the time of its request and at most once, and the result
tells whether it was; with `order` the result may be wrong; with `none` nothing is
promised. `Trusted` says which of them the faults so far allow: a read keeps `full`
as long as no response is garbled and no card late, a write only while blocks are
refused at most (which is the finding), and `order` as long as a read keeps `full`.

### Adc

ADC1 has one regular channel, configured by whichever initialisation ran last; the
polls start the same converter through two handles. `Fill` and `Slide` are the two
branches of `my_filter`, which updates its `sum` without ever adding the window up
again; `Average` has the 8 bits of the variable it passes through. `Density` is the
linear part of the formula in units of its last digit, cut off below 0.6 V.

### Polls

`M` is the range of the tick, 2^32 in the code. `Elapsed` is the unsigned difference,
`prev` its last argument, and `age` the true time it is to stand for. `MaxTurn` is the
time from one test of a poll to the next. Polls on pages that are not always shown
(`DISP_DATA`) may go untested for any time. `Eject` sets the period of the save to
`UINT32_MAX`, and `count` may come round to 0, upon which `main` returns.

## 3. Runs

| Run | Instance | Shows |
|---|---|---|
| `ui_races` | lists of 4 and 3 rows, 9 presses anywhere | `TypeOK`, `KeysPaired`, `ScreenMatchesKeys`, `CursorFresh` and `Settles` hold under every interleaving |
| `ui_patient` | the real lists of 7 rows, any number of presses | for a user who waits, `SceneUI` implements `Navigation`; `BoundForScene`, `EjectAsked`, `SettingsShown` and `DelayKeyServed` hold |
| `log_faults` | 2 descriptors, 3 faults, 1 shortage, 2 saves in each of 3 boots, shell | `TypeOK`, `ImplementsJournal`, `EjectedFrozen`, `LostByFault`, `SaveEnds`, `StoresAgain`; and `TitleFirst`, `StoredIfMounted` as long as no transfer has failed and there was room |
| `sdio_block` | 3 tries, 3 faults of any kinds | `PackageServed` and `RequestEnds` whatever happens; `NothingLeft` for the faults it names; `Sdio` implements `Transfer` (`ImplementsTransfer`), as far as the faults leave it trust |
| `sdio_stored` | 5 tries, 1 fault | a write that was never taken is reported as done |
| `camera_photo` | FIFO of 5 halves, 8 frames | `ReadyInTime` and `HandedOver`; `PhotoIntact` and `PhotoNew` of a camera whose registers all arrived |
| `sensors_heap` | 3 sensors, 4 blocks, 1 for others; sensors that fail in the loop and sensors that do not | `NoAlias`, `AllAlive`, `OwnFailureOnly`, `StartsWithRoom` |
| `sensors_free` | 1 sensor, 2 blocks | a structure is freed twice |
| `bus_noise` | 3 sensors, all removable, 2 tries, any number of faults | `ClaimReleased`, `ReadsReachRegister`, `StartsConfigured`, `BusFreed` |
| `bus_light` | 3 sensors, none removable, 5 tries | light is stored that the poll before measured in the UV mode |
| `adc_filter` | conversions of 60, 255 and 300, any number | `SumIsWindow`, `ForgetsOld`, `WithinWindow`, `SoundFromMic` |
| `polls_wrap` | a tick of 9 values, a counter of 8, 3 polls, turns of at most 3 | `OnTime`, `PeriodKept` |

The runs of the two largest modules check a `TypeOK`; in the others it is proved
for every instance (section 5) and not checked again.

Bounds, and why they are enough:

* *Presses.* Every known bad behaviour of the keys needs at most 7 presses, since
  from any page two presses and one more lead to any other; 9 leave room for
  a visit to a list, a race there, and another visit. In `ui_patient` the presses
  are not bounded, as the state is finite without it.
* *Rows.* The lists of the source have seven rows of equal treatment and a BACK
  row, as `ui_patient` has them. `ui_races` has fewer, and of different lengths
  to tell the lists apart: a row to choose and BACK have every case of the
  control. The proofs are for every length.
* *Descriptors.* 2 instead of 16: the table is full after two faults, and there
  is one more fault to find it so. The proofs are for every size.
* *Shortages.* One, in an open or in a write, of a title or of a row, before, between
  and after the faults: what it leaves behind is a cut line at the end of the file or
  nothing. The proofs are for any number.
* *Saves and boots.* In each boot a save with a title and one without, of which either
  may fail, and the other come after it; a boot before, with and after the fault.
* *Frames.* A frame to start with, one written, one handed over, one missed while
  it is read, and the same again after a repeated initialisation.
* *Blocks of the heap.* One for each sensor, and some to leak, to be reused by others or to
  be freed. All blocks are the same size: the structures of the sensors fit in
  any block, and splitting does not change who owns what.
* *Requests.* Their number is not bounded; 3 faults allow one in each of a write, its
  status and the retry of that, or one in each of three requests. 3 tries instead of 5
  have a first, a middle and a last; the proofs are for every number.
* *Transfers.* Neither their number nor that of faults is bounded. 2 tries of
  `bme280_init` have one that is repeated and one that is the last.
* *Conversions.* One well below 8 bits and below the 0.6 V of clean air, the largest
  that fits 8 bits, and one that does not fit. The window has its ten entries.
* *Tick.* It wraps every few turns. The periods are shorter than the longest turn
  (2), as long (3) and longer (5), and with a turn below the range, as in the code.

Deadlock is checked except where the program really stops: `log_faults` and the
`sensors_...` runs have states in which the main thread loops in an assertion handler
or a fault handler, `sdio_block` those after the processor has faulted on a data
error of a command without data, and `log_faults` also ends at its bounds.

### Findings

The runs that end in a violation check a text of the program, and the code
contradicts it; the details are in `PROJECT.json`.

* `sensors_free`: a sensor that fails twice has its structure freed twice.
* `bus_light`: the mode of the LTR390 is set with `write && write`: when the sensor does
  not take the first write the second decides, and what it measured in the UV mode,
  which the poll before has left, is stored as light, with success. The trace has two
  polls: the first ends in the UV mode, and the second finds its data ready. A write
  that was taken, with its acknowledge lost, does no harm; and on the first poll the
  sensor is in standby, has no data, and the value is left as it was.
* `sdio_stored`: the status of a write is asked for with the `cmd` of the write,
  whose error it overwrites; FatFs is told the block was stored.

Known disagreements without a run of their own. The first three are properties of
`SceneUI` and `MCPatient` that hold for a patient user; for an impatient one they
fail, as adding them to the run `ui_races` shows (`EjectAsked` is in `MCPatient`).

* `mainFunc` switches on `currScene` and only then tests `scene_isChanged`; K2 in
  between leaves the new scene with the old keys (`BoundForScene`).
* A K2 of the menu during the binding of the delay list leaves the delay keys bound
  with nobody reading what they set, and both keys are dead (`DelayKeyServed`). A
  visit to SETTINGS that is cut short consumes `setting_isChanged`, and the list is
  not shown on the next visit (`SettingsShown`).
* A K1 while the SD card page is being left ejects the card on the next visit with
  no confirmation (`EjectAsked`).
* "Saving current data succeeded!" is shown after a save that failed, that found no
  card, no memory or no room on the card (`sdcard_appendNewData` returns nothing). The
  title is lost for the whole boot when its append fails, since `isFirstSave` is
  cleared first.
* `sdcard_unmount` at the console during a transfer halts the main thread in an
  assertion; the watchdog of `src/README.md:28` is not configured (`.config:196`).
* Every repeated start leaks the structures of the sensors that answered:
  `StartsWithRoom` has to ask for room.
* `config_delay` announces a change of the delay and changes none (`main.c:644`); a
  `close` that fails keeps its descriptor (`dfs_posix.c:89-96`, against the comment at
  66).
* The dust sensor is read through the channel configured for the microphone, since
  ADC1 has one regular channel and the microphone's initialisation comes last; the
  header gives the dust sensor channel 5. Averages above 255 come out modulo 256:
  `ForgetsOld` and `WithinWindow` speak of smaller ones, and fail beyond.
* `set_osr_settings` overwrites an error of the humidity settings, and a BME280
  without its humidity oversampling passes for initialised.
* `RESP_R3 | RESP_R4` is 5: a response R1 with a wrong checksum is taken as good.
* A data error that comes in during a status command is written through
  `data == NULL`.
* `DISP_DATA_prev_milli == DISP_DATA_curr_milli` (`main.c:815`) compares where it
  means to assign; the settings page says "K1: Select | K2: Back" (`main.c:891`)
  where K2 enters.
* What is shown may be old, though no text promises otherwise: the magnetometer's
  registers are read before the measurement just started has ended; the last reading
  of a sensor that failed goes on being saved; the first photo of a visit to
  TAKE_PHOTO is the frame handed over when the scene was left. `sd_sample` at the
  console overwrites the partition table of the mounted card.

## 4. Fairness

* `SceneUI`: weak fairness of the main thread as a whole. It is the only thread
  that is ready besides the shell and idle threads, which have lower priority,
  and its waits are delays. Nothing is assumed of the keys.
* `DataLog`: weak fairness of `Mount` and of the steps of a save: the SDIO driver
  waits for a transfer with a timeout. No user saves, ejects, unmounts or resets
  by fairness.
* `Sensors`: weak fairness of the main thread, which is not blocked by a bus that
  does not answer; nothing is assumed of the sensors or of the others.
* `Readings`: weak fairness of the main thread, as above, and strong fairness of one
  poll that becomes due: without it the bus, claimed by the last write of one poll,
  might never be used again. That a poll is due again and again is what `Polls`
  shows. Nothing is assumed of the sensors or the noise.
* `Sdio`: weak fairness of the thread, whose waits have timeouts, of the interrupt, of
  the command path, which ends by its own timer, and of a card that has begun to move
  a block or is busy. Without the last a request need not end: the loop for the
  status of a busy card has no bound.
* `Adc` and `Polls`: none, their properties are safety properties. `OnTime` bounds
  the turns of the loop instead.
* `Camera`: none. That the next photo comes is a safety property there
  (`ReadyInTime` counts frames).

## 5. Proofs

All proofs are checked by TLAPS from the named assumptions on the constants
(`RowsAssumption`, `LogAssumption`, `SensorsAssumption`, `CapacityAssumption`,
`SdioAssumption`, `BusAssumption`, `ReadingsAssumption`, `SampleAssumption`,
`PollsAssumption`) and nothing else.

* **`TypeInvariance`** `SceneUI`'s `TypeOK` is not left by any step; the work is
  in the cursors, which wrap by `NextRow` (`CursorNat` and the lemmas after it).
* **`KeysArePaired`, `ScreenShowsKeys`.** `KeysPaired` and `ScreenMatchesKeys` for lists
  of any length and any number of presses. Neither is inductive. The invariant adds
  `Rebinding`, which says which of the four rebinding steps have been done at each
  program point: at `attach1` the first key has no handler, at `detach2` it serves
  `page`, and so on. With it, each of the four steps is proved by itself, and all
  the others are proved at once, since they leave the handlers alone and draw no
  page (`Aside`).
* **`CursorsFresh`.** `CursorFresh`, for any user. The menu's cursor moves only together
  with its flag (`MenuFresh`). The other two lists are reset without their flags, and
  that it does no harm has two different reasons. The delay list is not asked for again
  without its flag (`DelayFresh`). The setting list is reset only after
  `enter_SETTING` has left for the menu, and until the menu is bound no key brings
  the user back (`Leaving`, `SettingFresh`).
* **`TurnsEnd`, `WorkSettles`.** What `Settles` says, without its fairness. Presses
  cannot hold a turn up: each step leaves fewer to its end (`TurnLeft`), and a press
  leaves as many. From the top of the loop on, a turn during which no key is pressed
  acts on what there is (`Orderly`): every step brings `Work` down, or the interface
  to rest (`Resting`), where it stays. `Work` counts what is pending in the order in
  which it is taken up: a scene before its setting, a setting before its delay, a list
  before its cursor (`Level`), then the steps of the turn. A list that is left is
  marked to be bound again (`delay_isChanged`, and `setting_isChanged` on the way to
  the menu), which counts for nothing: it is taken up only after K2 has entered the
  list again. At rest `Settled` holds: `BootKeys` and `MenuDrawn` say that the keys of
  `key_embedded.c` have given way by then, and that the menu is on the LCD whenever
  its keys serve it and its scene is not asked for.
* **`PatientNavigates`, `PatientIsServed`, `PatientEjects`.** For lists of any length
  `SceneUI` with a patient user implements `Navigation`, and `BoundForScene` and
  `EjectAsked` hold. The invariant (`PatientInv`) ties the pending flags to the page the
  user is on: whatever scene, setting or delay is pending, the keys of the page that is
  still served lead there from the row that is drawn (`Leads`), until KEY2 is rebound;
  this is the step that `Navigation` sees. A list that is left is bound again when it is
  entered again (`Left`), and a cursor is at most one row behind (`CursorNear`).
* **`LogTypes`, `LogIsJournal`, `EjectedIsFrozen`.** `DataLog` implements
  `Journal` for every size of the descriptor table and any number of faults, saves,
  ejections and resets. The inductive invariant says that the card is a prefix of
  the window (`CardBehind`), that the lines in the window are in order
  (`DirOrdered`), that a save in progress appends either its row or the title and
  its row (`TodoShape`), and that every line already in the window is older than
  those (`AllPast`). A commit then appends in order, and dropping the window leaves
  a prefix.
* **`RowsHaveTitles`, `SavedIsStored`.** `TitleFirst` and `StoredIfMounted`, for any
  number of saves, ejections and resets. As long as no transfer has failed and there
  was room (`FaultlessInv`), no line is cut, the window and the card agree, no
  descriptor is lost, and the title of the boot is on the card or is the line being
  appended (`TitlePending`), unless the card is not mounted and no transfer is under
  way. That exception makes it inductive: an unmount of the shell may drop the title
  before its row, but then the row finds no file system either.
* **`LinesAreLostByFault`, `SaveIsShort`.** `LostByFault`, with any faults: each step
  of an append either goes on, or drops or cuts the line for one of the reasons named, or
  has it on the card; the last is the commit, which writes the window with the line at
  its end. There the line is on a row of its own unless it is cut or the one before
  is.
  `StepsLeft` is at most eleven, two lines of five steps and the announcement, and every
  step of a save takes at least one off; nothing else but a reset changes it.
* **`SensorTypes`, `NoAliasHolds`, `OwnFailure`, `StartsWithAll`.** For any number
  of sensors and any finite heap. During the initialisation every pointer that is
  set leads to a block in use that holds its own sensor's data (`Held`), the others
  free only what is in use (`OthersUsed`), and, as long as no attempt failed, every
  sensor passed has a structure (`Passed`). A block holds one sensor's data, so
  no two sensors share one; the loop changes no pointer. `TypeOK` itself needs
  `OthersUsed`: a double free by others during the start would stop the thread
  with `next` past the last sensor. In the loop only `OwnFailure` remains when
  sensors may fail; when they do not (`~fragile`) all of it remains.
* **`RoomSuffices`** counts the blocks that are free or will be when the others free
  theirs (`Room`). What others allocate stays in it, a structure takes one block out,
  and the others never hold more than `MaxOther`: so an attempt that starts with
  `N + MaxOther` free blocks always finds one (`RoomFree`), and with everything
  answering each step of the main thread is the next of N + 1 steps to the loop. What
  earlier attempts have leaked does not enter.
* **`CameraTypes`, `PhotosIntact`, `PhotosNew`, `FramesHandedOver`.** For every
  capacity of the FIFO and any number of frames. From the reset of `Ov7725_vsync` on,
  the halves in the FIFO while it is filled are those of the frame being sent
  (`Filling`); a frame that was handed over is whole, sound, newer than the photo and
  no longer written to (`Full`); and the main thread reads only then (`Reading`).
  `Filling` needs that the write pointer is 1 after 0, hence the assumption that the
  FIFO holds a frame. All of it is said of a camera that is configured; of any camera
  it is proved that the FIFO begins with no frame yet to come (`FifoOld`), and
  `FramesHandedOver` and `FrameInTime` ask for no configuration. **`FrameInTime`**:
  with a VSYNC behind it the wait is in the middle of a frame being filled
  (`Waiting`), so the next VSYNC ends it.
* **`SdioTypes`, `PackageIsServed`, `NothingIsLeft`, `ReadIsDelivered`,
  `RefusalIsReported`.** For any number of retries and faults. The package is set before
  the interrupt is opened and cleared after it is closed (`Served`). As long as no
  response is garbled and no card late (`InOrder`), the thread waits in one of six
  phases, from the command on its way (`Sent`) to the flags in the event (`Woken`);
  whatever else it does, there is no event, no flag, and nothing on its way (`Rest`).
  It needs that a timeout of the driver is then impossible (`TimedOutLate`), and that
  the data path is off before a status command (`Commanded`).
* **`RequestIsTransfer`** `Sdio` implements `Transfer`. Each step of the thread, the
  interrupt, the peripheral and the card is a request, the move of its block, its return
  or a loss of trust, or is not seen at all. The step cases rest on `Told`, which ties
  `moved` to the errors and flags that are still on their way to the result
  (`ReadTold`, `WriteTold`), and on `MovedInTime`: a block is moved while its request is
  under way and not twice. **`RequestIsShort`**: whatever fails, `ToGo` is at most
  7 (`Tries` + 1) steps, every step of the thread takes at least one off, and only the
  question for the status of a card that said it is busy adds some.
* **`ReadingTypes`, `ClaimIsReleased`, `ReadsAreAsked`, `LoopConfigured`.** For any
  number of tries and whatever devices are removable. A claimed bus is only met at the
  transfers that follow a failed write of the BME280 (`ClaimInv`): none of them is a
  write of the BME280, no value is stored from a read among
  them, and when it is the light sensor's first write, which the barometer may take,
  the round has failed already and is repeated (`ConfInv`). **`ClaimIsShort`**: at
  all these steps the main thread gives the bus back or only tests whether a poll is due.
* **`AdcTypes`, `SumHolds`, `OldForgotten`, `DensityWithin`, `SoundIsMic`.** For every
  set of 12-bit values and any number of conversions. What was reported last is the
  density of the window (`Reported`), and the last `equal` entries of the window are
  the last conversion (`Recent`); the density is monotone in the average.
* **`PollTypes`, `PollsOnTime`, `PollsNotEarly`.** For every width of the tick, any
  number of polls and any periods with which a turn fits the tick. The unsigned
  difference never exceeds the true time and equals it below the range of the tick
  (`AgeInv`); a poll that is tested in time was below its period when it was tested
  last (`IdleInv`), so that its age never reaches the range.

Model-checked only: what needs fairness (`Settles`, `SettingsShown`, `DelayKeyServed`,
`SaveEnds`, `StoresAgain`, `StartsWithRoom`, `BusFreed`, `RequestEnds`), which is out
of the prover's reach. Of five of them the part that is not fairness is proved: a
measure that every step of the thread decreases, or a bound on the steps in between
(`WorkSettles`, `SaveIsShort`, `RoomSuffices`, `ClaimIsShort`, `RequestIsShort`); what
stays with TLC is that the thread takes its steps, that a busy card becomes ready, and
that a poll becomes due. Every other property of the passing runs is a theorem.

## 6. What the models take for granted

* Accesses of the shared variables happen in program order. The flags of `main.c`
  are not `volatile`; each turn of the loop calls functions of other files, so
  that the compiler has to read them again, and within one test it does so once.
* A sector is written as a whole or not at all.
* The shell runs only while the main thread waits (priority 20 against 10).
* A sensor structure fits in any block; a block that is freed keeps its contents
  until it is allocated again.
* The camera's pixel rate and the main thread's reading are not compared:
  writing is disabled while the FIFO is read.
* No one but the three drivers uses the I2C bus, and one thread makes the requests to
  the card: the shell's wait for the lock of the host.
* A device that loses its power inside a transfer is seen as one that does right
  after it.
* A turn of the loop and a period together are shorter than 2^32 ms.
* The shell reads the card and unmounts it; that it writes, renames or removes
  `data.csv` itself (`rm`, `mv`, `cp`) is left out.

Some of the properties see less than their names may suggest. `Settles` looks at flags,
keys, page and menu cursor, not at the list of the settings, which `SettingsShown`
covers for a patient user; a change of scene that is consumed without its keys being bound
is `BoundForScene`. `SaveEnds` counts a main thread that stopped in an assertion as an
end. `OnTime` says nothing once `main` has returned, and `PeriodKept` nothing of the
drawing of DISP_DATA on its entry, which leaves `prev` as it was (`main.c:815`).

## 7. Not modelled

Pixels, fonts and layout; the register values of the camera and SCCB; the line levels
inside a byte of I2C, 10-bit addresses and the unlocking of a bus a slave holds; the
compensation of the BME280, which is arithmetic on doubles; requests of several
blocks with their stop command, the detection and setup of the card, the DMA and its
buffer; cluster chains, long names, directories and reading in FatFs; `sd_sample` (a
test command that overwrites block 0), `sdcard_init_format` and
`my_gp2y1014au0f_get_data_avg` (never called); the touch panel, which is initialised
and never read; the kernel's scheduler, HAL, CMSIS and generated code. The last are
most of the repository: the program's own code is a few thousand of its 930,000 lines,
and the models cover what the program uses of the rest.

## 8. Plan

Done, in this order: `SceneUI` with `Navigation`, `DataLog` with `Journal`, `Camera`,
`Sensors`, `Adc`, `Polls`, `I2cBus` with `Readings`, `Sdio`, and their proofs.

What would come next:

1. `Station`: `SceneUI` with `DataLog`, a save or an ejection of the one being the
   steps of the other, with key presses in between. Properties: an ejection that was
   asked for is the last write; a save asked for twice is made once or twice.
2. `DataLog` over `Transfer`: each of its transfers a request, so that what `Sdio` is
   proved to promise (`RequestIsTransfer`) is what an append relies on. It fails for
   the faults of the finding `sdio_stored`, and the two have to be joined without them.
3. Requests of several blocks with their stop command, whose error is a third one.
