# TLA+ models of socanmatic

socanmatic is a C library and a set of programs for CANopen (DS301) and servo
drives (DS402): `libsocanmatic`, the tool `canmat`, and the daemon `can402`,
which drives a set of motors from references it reads from Ach channels.
This directory holds TLA+ models of the parts that have behaviour, the TLC
configurations that check them on small instances, and theorems about eight of
them that TLAPS proves for every instance. `PROJECT.json` maps each definition
to the lines it stands for. Paths below are relative to the repository.

Contents: 1 the system, 2 what is hard and what must be true, 3 the modules,
4 the runs, 5 fairness, 6 the proofs, 7 findings, 8 what is not modelled,
9 plan, 10 how to run.

## 1. The system

| Part | Source | State | Operations | Talks to |
|---|---|---|---|---|
| SDO client | `src/sdo.c`, `include/socanmatic/sdo.h` | none beyond the socket's receive queue | `canmat_sdo_query`, `canmat_sdo_ul_T`, `canmat_sdo_dl_T`, conversions of messages and frames | an interface; the SDO server of each node |
| Dictionary | `src/dict.c`, `dict.h`, `dict_fun.h` | read-only tables generated by `canmatc` | search by index and name, `canmat_obj_ul`, `canmat_obj_dl`, parse, print | SDO client |
| PDO | `src/pdo.c`, `pdo.h` | on the node: COM and MAP objects of each PDO | `canmat_pdo_remap`, `canmat_rpdo_send` | SDO client, interface |
| DS402 drive | `src/ds402.c`, `ds402.h` | `struct canmat_402_drive`: cached control and status word, mode, target, feedback; the drive has its own state machine | `init`, `set_op_mode`, `start`, `stop`, `dl_ctrlmask` | SDO client, PDO, NMT |
| can402 | `src/can402.c` | `cx->halt`, `msg_ref`, one drive struct per motor, shared with the feedback thread | `parse`, `init` over all drives, main loop, halt and unhalt, `process`, feedback thread, `stop` | all of the above; Ach; signals |
| Ring buffer | `src/can_buffer.c`, `can_buffer.h` | `head`, `size`, `data` | push, pop, peek, clear | no user, not in `Makefile.am` |
| NMT | `src/nmt.c`, `nmt.h` | none | one frame per command | interface |
| Interfaces | `src/iface/*.c` | a socket or handle, filter | open, send, recv, filter, bit rate, info | kernel, esd driver |
| canmat | `src/canmat.c`, `util.c` | options, one interface per `-f` | one command per process: accesses, single frames, a poll loop | dictionary, SDO client, probe, interfaces |
| Probe | `src/probe.c` | none | a nest of loops over SDO uploads | SDO client |
| Older SDO client | `ntcanopen.c`, `ntcanopen.h` (not in `Makefile.am`) | a handle with its enabled IDs | typed downloads and uploads, with variants for AMC boards | esd driver |
| Display | `src/display.c` | none | `canmat_display` of one frame | dictionary, SDO conversions |
| Helpers | `ds301.c`, `error.c` | none | printing, tables | |
| Other legacy | `socketcan.c`, `amc*.h` | | | |

Interactions. Everything that configures a node is a sequence of SDO accesses,
each a request, a wait, and an answer, any of which may fail, be done without its
answer arriving, or take the answer to something else. While can402 runs, its
main thread sends RPDOs and a second thread receives TPDOs from the same socket.
The drive is an actor of its own: it boots, faults, and keeps its state when the
program dies. The program's knowledge of it is a cache filled by uploads, by the
downloads it makes and by the RPDOs it sends.

## 2. What is hard, and what must be true

`PROJECT.json` lists the hazards line by line with the properties that would catch
each going wrong. In short:

- *SDO client.* The receive loop takes the first frame with the node's response
  COB-ID. A late answer, another master's answer or an abort may be in the queue.
  A call must return the value of its own object, a download that is acknowledged
  must have been done, late answers must not multiply, and every call must return.
- *PDO remapping.* Up to eight accesses and no undo. An enabled PDO must never have
  half of a mapping, whatever fails, also when a later call starts from what an
  earlier one left; parameters may change only while the PDO is disabled.
- *DS402 drive.* Every control word is computed from a cached one. The cache
  must equal the drive's word while the program runs; can402 must not run with a
  drive that is not ready; starting must make progress from any state; the mode must
  change only while the drive is halted; stop must leave the power off, and where it does not
  (a drive in its quick stop, an OK that is a late answer) it must be known when.
- *can402, setup and end.* The options of several drives come in any order; setup is six loops
  over the drives, each of which may break off. No drive may be switched on before all of them can be
  reached by the RPDOs the daemon will send, and after a run the daemon must leave on
  only drives whose stop failed.
- *can402, running.* Unhalting several drives may fail half-way: the drives must be halted
  together, velocities must go out only when all of them are unhalted, and when references
  stop the drives must be halted even if halting RPDOs fail. Two threads share
  positions and velocities without a lock, and the socket at shutdown. A signal must end
  the daemon.
- *Position limits.* A drive near a limit must be slowed and never sped up towards
  it; the function is a quotient that goes to infinity, and the limits come from the drive, unchecked.
- *Ring buffer.* Full, empty and wrapped-around.
- *canmat.* A number goes from a text through a union, a frame, the node, a frame and
  a union back to a text; every type has two ends where it can be cut or change its sign.
  A probe reads what it is told to read by what it reads. A dump of several interfaces must
  lose, repeat or misplace no frame, and must not block on a silent one. A display decodes the frames of
  an access a second time, by what the dictionary says of the object: it must show what the
  accessing process was told.
- *Older SDO client.* Lengths are read before they are set; boards differ in the frames they
  take and send; asserts look at responses.

## 3. The modules

| Module | Models | Checked by | Proved in |
|---|---|---|---|
| `SdoClient` | `canmat_sdo_query` and the typed accessors, one client, any nodes | `MCSdoClient` | `SdoClientProofs` |
| `SdoAccess` | what an access promises: done once or refused, and the caller is told which | as `SdoClient`'s abstraction | - |
| `SdoRefinement` | the mapping of `SdoClient`'s state to `SdoAccess`'s | `MCSdoClient` | `SdoClientProofs` |
| `PdoRemap` | `canmat_pdo_remap`, access by access, call after call | `MCPdoRemap` | `PdoRemapProofs` |
| `Drive402` | one drive and the program that inits, starts, runs and stops it | `MCDrive402` | `Drive402Proofs` |
| `Can402Args` | the command line of can402 | `MCCan402` | - |
| `Can402` | the daemon: command line, setup of `N` drives, main loop and feedback thread, stop | `MCCan402` | `Can402Proofs` |
| `PosLimit` | `pos_limit` and the clamping in `process` | `MCPosLimit` | `PosLimitProofs` |
| `CanBuffer` | the ring buffer | itself | `CanBufferProofs` |
| `CanFifo` | what `can_buffer.h` promises: a bounded queue | as `CanBuffer`'s abstraction | |
| `SdoCodec` | scalars, their texts, messages and frames, byte by byte | `MCCanmat`, `MCNtcanOpen` | - |
| `Display` | what `canmat display` shows of a frame | `MCCanmat` | - |
| `Canmat` | `canmat` processes in several terminals, `probe.c`, the interfaces they open | `MCCanmat` | `CanmatProofs` |
| `NtcanOpen` | the older SDO client | `MCNtcanOpen` | `NtcanOpenProofs` |

`NtcanOpen` and `Display` extend `SdoCodec`, `Canmat` extends `Display`, `Can402` extends `Can402Args`; the others compose by contract: the outcomes an SDO access has in `PdoRemap` and
`Drive402` (done; failed without effect; failed although the node did it; in `Drive402`, and at
the stop of `Can402`, also OK or failed by the late answer to an earlier access) are the ones
`SdoClient` shows a call to have, as `SdoAccess` states them; the outcomes of a remap in `Drive402`
and `Can402` (mapped, or failed and left disabled, untouched or mapped) are those of `PdoRemap`; the
calls of `ds402.c` that are one step of `Can402` have the outcomes `Drive402` gives
them, and the velocities of `Can402` come from a set of which `PosLimit` computes the member. That an access is done or not done when the next
one begins, although a request may be served late, is right because a node
serves its requests in order: whatever an earlier request does, it has done before the node
looks at a later one, and nothing else reads the node in between.

### SdoClient

`net[n]` holds requests on their way to node `n`, `rxq` the socket's receive
queue, `od` the nodes' dictionaries. `Send` is `canmat_sdo_query` up to a successful
`canmat_iface_send`; `SendFails`, `RecvFails` its error returns; `RecvOther`
and `RecvResponse` one pass of its loop each, the latter with `canmat_can2sdo` and
the accessor's return. `Serve` is the external node, which may answer with an abort;
`Traffic` and `OtherMaster` put frames into the queue that nobody asked for. Data
types are their sizes and values are model values; uninitialised memory is the
value `Garbage`. The call number in a frame (`tag`) is not on the wire: it
only states a property. `api = "obj"` is `canmat_obj_ul`, whose assertion comes
before its look at the status.

### SdoAccess and SdoRefinement

`SdoAccess` is written without frames, queues or COB-IDs: an access is opened, the node does or
refuses it once (`Act`), and it is closed with the truth (`Close`). The two exceptions are
the code's: after a failed receive (`GiveUp`) the access may still be done, once (`ActLate`), and of
that node the caller can no longer trust an answer (`CloseUntrusted`), because the receive
loop takes the first frame of the node; the same holds after another master used it
(`Interfere`). `SdoRefinement` reads the abstract state off the concrete one: an
access is done when its answer is in the queue, and late accesses are the requests on the way that are
not the open call's.

### PdoRemap

`pc` names the next access. `Download` is one access with its three outcomes.
`Option` is the `if( x >= 0 )` around an option. The parameters of the
PDO on the node are a record; the casts are applied where the code has them
(`ToByte`). `asked` is a history of argument lists.

### Drive402

`pc` runs through `can402`'s init for one drive (`ul_*`, `remap_*`, `check_mode`,
`dl_*`), `canmat_402_start` (`status`, `nmt`, `command`, `fault_*`), the run,
and `stop`. A control word is the set of its bits, and the commands are the masks of
`ds402.h:80-104`. The drive is the DS402 state machine (`After`), with its own word,
mode, target and PDO mapping; it does not go into its quick stop by itself. `Killed` may
happen between any two accesses; `Launch` starts a new process with a zeroed struct against the
drive as it was left.

A status word is the set of its bits 0 to 6. The drive shows any word its state allows (`Shown`, from
`Coding`, the table of DS402), and `canmat_402_state` tells the state from it by masks and values (`MaskOf`,
`ValOf`, `Decode`). A word of no state is `"UNKNOWN"`, on which `canmat_402_start` gives up; the device
that sends one counts as failing.

After a receive that failed, `late` says that its answer is still to come. The next access to the drive, which is
`stop` or, when a remap failed in `canmat_402_set_op_mode`, its last control word, takes that answer for its
own (`sdo.c:223-226`): `DlOk` without an effect on the drive, `DlErr` without a failure of its own. What
becomes of the download itself is decided at once.

### Can402Args and Can402

`Can402Args` folds `Option` over the command line, as `parse` does over what `getopt` returns;
`Accepted` adds the checks at its end. A number given before the first `-n` is a
default, later ones belong to the drive before them and are the default of the next.
`MCCan402` states what a line means without a fold, and TLC compares the two over all lines of up to
five of six options (`ParseAsMeant`).

`InitDrive`, `MapCtrl`, `MapFeedback`, `SetOpMode`, `StartDrive` are one round each of the loops of
`init`; `k` is the drive. A call of `ds402.c` or `pdo.c` is one step here; one that
fails may have done what it was to do, in part or in whole (`RemapFails`, `vmode'`, `on'`).
`GotoFail` goes to `stop`. The drives are found in any condition an earlier program may have left
them in: halted or not, on or off, quick-stopped or not, in velocity mode or not, with any target.
`StopDrive` is one round of `stop`: SHUTDOWN switches a drive off unless it is in its quick stop (`ShutOff`; a
successful start ends the quick stop), and for a drive in `late`, OK or an error may be the answer to something else.
`pc = "died"` are the ends without `stop`: a refused command line, a failed `canmat_402_init`,
`pthread_create` or channel.

`Head`, `Get`, `LoadPos`, `LoadVel` and the actions at `pc = "act"` are one pass of
`run` with `get_msg` and `update_feedback`; `Leave` goes on to the event channel
when there is one, or to `Post`. `HaltAll`, `UnhaltAll` and `UnhaltStopsAt` are the three
ways through `halt`, which sends one RPDO per drive. These sends are one action,
because nothing else reads what they change; `F` is the set of sends that fail.
The feedback thread is `Fb*`: it receives, stores the position, stores the velocity. Of
a position the model keeps the number of the frame it came from, so that "how old"
can be stated. `Signal` sets the flag at any time after `parse`; `Expire` is the clock.

### PosLimit

The arithmetic of one reference and one position. The limits are computed from the range the drive
reports (`LimitsOf`): a hard limit 5 degrees inside either end and a soft one another 5 inside (`Margin`). Nothing
in the code asks for a range that is long enough: with one of 20 degrees or less, such as 0/0, the
soft limits meet or cross, with one of 10 or less the hard limits as well. A double is an exact quotient;
a denominator of 0 is an infinity with the sign of the numerator, as IEEE division
gives it. Rounding is left out. The state machine only feeds
consecutive positions and references, so that monotonicity can be stated over a step.

### CanBuffer and CanFifo

`Contents` reads the ring buffer as a sequence from the head; `CanBuffer` implements
`CanFifo` under that mapping. The code masks indices with the size less
one; the model takes the remainder, which is the same for a power of two.

### SdoCodec

Pure operators: `canmat_typed_parse`, `canmat_sdo2can`, `canmat_can2sdo`, and what
`canmat_obj_print` shows. A union of four bytes is the number they form. A byte
has `Byte` values, 256 in the program: everything is written for any even number, since the
checks at the ends of a range are the same for bytes of four values, and there are few enough
of those to enumerate. `Junk` is what unwritten bytes hold. A text is the
number it spells, and 0 if it spells none (`strtol` and `strtoul` give 0 and no error). `strtoul`
takes a minus sign and negates modulo `Byte^8`, so that `-(2^64-1)` is 1; `ERANGE` is for what a `long`,
or the absolute value what an `unsigned long`, does not hold.

### Display

`canmat_display` gives the line shown of a frame as a record: its kind by the function code, and for
an SDO the object's name, the command and the data. `DisplaySdo` converts the frame by the type
the dictionary has for the object, and `ShownData` shows a number or bytes. What the
assertion of `display_nmt` does not let pass is `DisplayAborts`.

### Canmat

`run[p]` is the process in terminal `p`: `Start` is `main` with all checks before the first
call of an interface, each of which aborts the process; then `pc` says what it does. `SendRequest`,
`SkipFrame` and `RecvResponse` are one access each of dict-dl, dict-ul and probe, the latter with
all the code up to the next request; `at` is the place in the loops of
`canmat_probe_pdo`. `SendFrame` is send, nmt, ul-resp and dl-resp, `ReadOnly`, `Poll` and `Drain` are
`cmd_pollin` with one and with several interfaces, and `Printer` tells dump and display apart. Every socket on a bus receives what any other
sends (`Deliver`; `Handles` are the ones `send_frame` succeeds on), so that a dump sees accesses and a simulated answer reaches a waiting
client. A node serves every request that reaches it, also one that `send` was given byte by byte
(`Requested`); `Fixed` are the objects a node has and does not let be written. What is printed is a sequence in `out`; wording is left out. `given`,
`before`, `arrived` and `alone` are history.

### NtcanOpen

`Begin` is a `canOpenSDOWriteWait_*` function up to the call of `canWrite`, with the two asserts on the way;
`LengthsFound` and `AmcFound` are the values it may find in variables it never set. `Write`,
`Discard`, `Receive`, `ReadFails` are the rest of the call. `Takes` is the external node: an AMC board takes
frames of eight bytes only (`ntcanopen.c:51`), other nodes want a stated length to be the object's.

## 4. The runs

| Run | Instance and bounds | Distinct states | Shows |
|---|---|---|---|
| `sdo_client` | 2 nodes, 3 objects of 2 sizes, 2 values, 2 calls, 1 failed send or recv, 1 unasked frame | 452 400 | `UploadReturnsObject`, `DownloadTookEffect`, `BacklogBounded`, `ImplementsAccess`, `CallReturns` |
| `pdo_remap` | 8 argument lists, 2 entries, 3 calls, 2 failed accesses | 27 000 | `EnabledIsComplete`, `OkMeansRemapped`, `ChangedOnlyWhileDisabled` |
| `drive402` | drives found in 6 conditions, 2 runs of the program, 2 failed accesses, 2 faults of the drive | 1 238 400 | `CtrlCacheExact`, `RunMeansReady`, `StartMakesProgress`, `StopLeavesOff`, `ModeChangesHalted`, `EnabledWhenSwitchedOn` |
| `can402` | 12 command lines of which 2 are accepted, 2 drives in any condition, both channels, 2 messages, 3 failed accesses or sends | 558 200 | `SwitchedOnWhenAllReady`, `EndsPoweredOff`, `UnhaltedTogether`, `HaltedUnlessUnsent`, `VelocityOnlyUnhalted`, `ReferenceLossHalts` |
| `can402_feedback` | 2 drives, 3 and 2 feedback frames, no references, 1 failed access | 323 300 | `VelocityNotOlder`, `OneReader`, `SignalEnds` |
| `can_buffer` | 4 slots, 3 frames | 2 268 | `ImplementsFifo`, no deadlock |
| `pos_limit` | a margin of 4, ranges 20, 16, 8 and 0 long, positions -11..11, references -6..6 of which the outer ones saturate | 1 196 | `SlowedTowardsLimit`, `Monotone` |
| `canmat` | 2 terminals, 2 buses with 1 and 2 nodes, 10 dictionary entries, 3 PDOs with gaps, 70 and 11 command lines of which 2 are typed, 1 failed call | 153 700 | `DictRoundTrip`, `DisplayTellsAccess`, `DownloadExit`, `ProbeListsPdos`, `DumpFaithful`, `DumpKeepsUp` |
| `ntcan_open` | an AMC board and a node of short answers, 4 types, 17 calls of which 2 are made, 1 failed call | 72 800 | `UploadExact`, `DownloadExact`, `CallEnds` |
| `sdo_stale`, `drive_target`, `pos_hard_limit` | as above, smaller | | the findings of section 7 |

`sdo_client`, `pdo_remap`, `drive402`, `can402` and `can_buffer` check their module's `TypeOK` too.
The types in `PosLimit`, `Canmat` and `NtcanOpen` follow from what their other properties compare.

Why the bounds are enough to be of interest:

- *SdoClient.* A late answer needs one failed receive and a second call; a wrong
  one needs two objects, of the same size for a value and of different sizes for
  `ERR_PROTO`; interference by another node's answer needs a second node. The theorems
  cover any number of each.
- *PdoRemap.* Three calls are: one that breaks off, one that breaks off on what the
  first left, one that must clean up. The argument lists are those of can402 and of
  `canmat map-rpdo`, plus one outside each range, one with an object that cannot be
  mapped, one that maps nothing. The theorems cover the rest.
- *Drive402.* Two runs make the second find what any prefix of the first left. Two failures are a
  receive that fails in the setup and one more at the stop that takes its answer; every status word a state
  allows is uploaded, in 7 bits.
  `MaxIter` is 12 and not 100: `StartMakesProgress` bounds the iterations a
  run of this size can need, and the give-up branch is reached by a drive that never
  finishes booting. `SettledAssumption` says that no drive is found ready to switch on with a word
  that would have switched it on. The initial drives cover every state of the machine a
  killed program or a fresh power-up leaves (a fault reset still set, quick stop,
  enabled and unhalted).
- *Can402.* Two drives are the least with "before" and "after" the one that
  fails; three failures are one unhalting send and both halting sends after it, or a
  setup that breaks off and two drives that cannot be stopped. `NodeMask` is 7 and not 127, so that a
  line can name too many nodes. The refused lines have one reason each: no interface, no
  node, an offset or a number where none may be, equal numbers, a node too many or too large.
  Feedback and references do not interact except through `mpos`/`mvel`, which no
  action of the reference side reads: hence two runs.
- *Canmat.* Two processes are a dump and what it dumps, a client and a simulated node, or two
  clients; a third command line would only follow them. Every integer type is downloaded at both ends of its
  range on `can0`, and at the upper one on `can1`; the numbers next to the ends outside are refused, and so is
  what no `long` holds; unsigned types also get the text `strtoul` wraps to 1. The nodes of `can0` state the
  length of an answer and those of `can1` do not. One object of `can1` may not be written (a download of it fails
  and must leave it as it was), and one is shorter in the nodes than in the dictionary, so that its answer is
  a bad frame. The PDOs probed: one of three between two absent ones, with a COM size of 1 and two
  mapped objects; two around an absent one, one without a mapping, one with a COM size of 0; one
  whose mapping object is missing. A display sees accesses, emergencies, error control, SDO frames with
  wrong commands and lengths, and COB-IDs that have no name. A dump of both interfaces has frames on both at once when
  the other terminal sends on both, and two on each when what was sent is an SDO request that a node of each
  bus answers.
- *NtcanOpen.* Two calls are one that fails and one that meets its late answer. Every call is made to
  the node it fits and some to the other.
- *PosLimit.* The positions cover all five zones, both soft and both hard limits, and those beyond
  the ends of the longest range. The ranges have the soft limits apart, the soft limits touching, the
  hard limits touching (the soft ones crossed), and all of them crossed.

`CHECK_DEADLOCK FALSE` is set where the system stops: no calls, messages or runs are left
within the bounds, or the daemon has ended.

## 5. Fairness

- `SdoClient!Fairness`: a node answers its requests (an SDO server does, or aborts),
  and a thread in `recv` is given a frame that is there. `CallReturns` holds only
  with both: the code has no timeout, so a silent node blocks the caller for ever.
- `Can402!FairSpec`: both threads are scheduled; the drives answer the accesses of setup and stop, or
  these fail (without a timeout in the code, a silent drive keeps can402 in setup for ever); `ach_get` returns at the latest
  at its timeout (`can402.c:406-411`); a frame arrives again and again, because init
  gives the feedback TPDO an event timer of 10 ms (`can402.c:343`); time passes.
  Without frames the feedback thread would stay in `recv` and `main` in
  `pthread_join`, so `SignalEnds` depends on a drive that sends.
- `Canmat!FairSpec`: a running dump is scheduled. Nothing is asked of the nodes or of other
  processes; `DumpKeepsUp` is about frames that have arrived.
- `NtcanOpen!FairSpec`: the thread is scheduled and nodes answer, as for `SdoClient`.
- The other specifications have none: their properties are safety properties.
  `StartMakesProgress` states the progress of `canmat_402_start` as a
  bound on the iterations it has used, which needs no fairness.

## 6. The proofs

All proofs are for the specifications the runs check, with every constant
arbitrary under its module's named assumptions, which TLC evaluates on each run.

**SdoClientProofs.** `TypeCorrect`, `UploadCorrect`, `DownloadCorrect`, `BacklogCorrect`,
`RefinementCorrect`. The
assumptions: sizes and dictionaries have their types, `Garbage` is no value, `NotSdo`
is no node. `UploadReturnsObject` is not inductive: it does not say what is in
the queues. `CleanNodes` does. A node no receive failed for and no other master used owes
and has sent nothing, except to the call that waits for it: then either
the request alone is on its way, or the queue holds its answer and no other frame of
the node. `AcceptedAnswers` concludes that the frame the loop takes is the answer
and leaves nothing behind; `ServeAnswers` that serving the request puts the answer there;
`ReadKeepsClean` and `ArrivalKeepsClean` that frames of others do not matter.

`BacklogBounded` is an account per node: whatever adds to what it owes or has sent unread uses up a
failed receive, an unasked frame, or the start of a call, and a call that ends takes its frame away. The frames
of a node are counted as a set of places in the queue; the lemmas count such a set after a
frame arrived or was read.

`RefinementCorrect` maps each step of the client to one of `SdoAccess` or to none. It needs `OwnInv`, which ties the frames
to the open call by the call number they carry: no number is from the future (`TagsPast`), the open call's
request is the last on its way to its node (`OwnRequestLast`), its answer is of the kind and
length it asked for (`OwnAnswersFit`), and exactly one of the two is there (`RequestOrAnswer`). `Close` may tell
the caller "done" only if it was: that is `CleanNodes` again. `Serve` of a request that is not the open call's is
`ActLate`, of the first of the late accesses.

**PdoRemapProofs.** `TypeCorrect`, `EnabledComplete`, `OkCorrect`,
`ChangesDisabled`. The assumptions: sizes of types, the initial PDO, and argument
lists no longer than the mapping, which has at most 254 entries. The inductive invariant
says what has been achieved when a step of the call is reached: the PDO is
disabled (`Disabled`), its number of entries is 0 (`Cleared`), the entries up to the loop
counter are the asked ones (`EntriesWritten`), the options before the current one are set
(`OptionsWritten`). None of it survives a reordering of the accesses.
`TypeStep` uses the range checks: without them a value would not fit its object.

**CanBufferProofs.** `TypeCorrect`, `RefinesFifo`. The assumptions: a size greater
than 0 and some frame. The lemmas are about the remainder: distinct offsets
below the size have distinct slots, and the slot after the head is the next head. Each
operation then maps to the operation of the same name of `CanFifo`.

**Can402Proofs.** `TypeCorrect`, `SwitchOnCorrect`, `PowerOffCorrect`, `UnhaltCorrect`,
`HaltCorrect`, `VelocityCorrect`, `ReaderCorrect`, `FeedbackCorrect`. The assumptions: at least one
drive; lines that `parse` accepts name `N` drives with 8-bit numbers (that their control
and user RPDOs differ is not assumed but taken from the last check of `parse`, which `Accepted`
contains); 0 is a velocity. The invariants:
- `SetUpInv` says of each loop of the setup what holds of the drives before `k`. It needs
  `NumbersDiffer`, which follows from that check: otherwise setting the mode of a drive
  would replace the mapping of its control word.
- `StopInv`: every way to the loop of stop leaves `k` at the first drive (`AtFirst`), and the drives
  it has passed are off, could not be stopped, or are those a stop may leave on (`Passed`): quick-stopped and not
  started, or with an answer still to come. There are none of the latter once the setup has come to its end, because a start ends the quick
  stop and a failed access ends the setup (`StartedOnes`, `NoneLate`). Hence after a run only a drive whose
  stop returned an error may be on.
- `HaltInv` is both halting properties: an unhalt that fails half-way ends as a halt.
- `ReaderInv` adds to `OneReader` that no thread exists during setup.
- `FeedbackInv` orders the four frame numbers of a drive: `rvel <= rpos <= rvel + 1`, the two
  different only between the thread's stores, `mpos <= rpos`, and `mpos <= mvel + 1` but for the
  drive whose velocity is about to be loaded.

**Drive402Proofs.** `TypeCorrect`, `CacheCorrect`, `RunCorrect`, `ModeCorrect`, `StopCorrect`,
`EnableCorrect`, `ProgressCorrect`, `DecodeExact`. The assumptions: 0 is a velocity, drives have their types,
`SettledAssumption` (section 4). The step lemmas sort the actions by the word they send to
the drive, so that what the drive does with a word is proved once. The invariants:
- `ReadyInv`: the RPDOs of a running can402 keep the cached control word equal to the drive's only because the
  control word is still mapped there, and what `RunMeansReady` says of `run` was achieved one
  access after the other (`ModeKnown`, `CtrlMapped`, `ModeSet`, `StartsReady`).
- `DecodeExact`: a status word matches the mask and value of the state that shows it (`ShownMatches`), and two
  states have values that differ in a bit both masks keep (`StatesDiffer`). Hence the word decodes to the
  drive's state, and the start loop knows the state it acts on.
- `LateInv`: while an answer is still to come the next access is the one of `stop`, or the last control word of
  `canmat_402_set_op_mode` after its remap failed: no upload and no command of the start loop reads it.
- `OffInv`, `DownInv`: after a stop that returned OK, with no late answer to take, the drive is in no state from
  which it switches itself on. `StartedRuns`: a drive that was enabled has all the operating bits in its word
  (`OperatingDrive`) and no word the program sends later clears the one whose clearing is the quick stop, so that only a drive
  that was never started can be left in its quick stop.
- `ReadyDriveIdle`: no word that reaches a drive in "ready to switch on" has all the operating bits, unless the
  drive was seen switched on before.
- `ProgressInv`: at each access of the start loop the iterations used and the rank of the drive's
  state are at most the budget; a boot or fault of the drive adds to the budget what it costs.

**PosLimitProofs.** `SlowCorrect`, `MonotoneCorrect`. The assumptions: ranges of integers, a positive margin,
velocity bound and factor. Nothing is assumed of the order of the limits: of a range only the order of a soft limit and its own
hard one follows, and the code's order of tests decides where they cross. Quotients are compared by cross-multiplication (`NotMore`); that is kept by
the factor, the clamping and the truncation of the cast, infinities included. What is
left is the order of two quotients in one zone, and that each zone's end meets the next one's.
The state only adds that the velocity is the one for the position and reference (`Current`).

**CanmatProofs.** `DumpCorrect`. The assumption: the interfaces of a command are a sequence, as the
`-f` options are. `DumpInv` says of each listening process, per interface, that what arrived since it
opened is what it has printed under that name, in order, followed by what is in the queue
(`PrintedLines`). A step of another process or node can only append the same frame to both the queue
and the history (`Deliver`); `Poll` and `Drain` move the head of a queue to the output. The lemmas
are about lines labelled with an interface: a line of one interface leaves the others' as they were.

**NtcanOpenProofs.** `InvCorrect`, `UploadCorrect`, `DownloadCorrect`. The assumptions: calls and objects
have their types, and `PowerAssumption`, the recursion of `^` for the exponents in use, for which
the provers have no rule. The invariant: the request is one the current call can have made, whatever it found on its stack
(`IsRequestOf`), and a node that owes nothing to a failed call is `Quiet`, but for the one that is waited for,
which either has the request or has sent the one frame that fits it (`Fits`). The theorems follow
from `Fits` and from lemmas on the low bytes of a word: a length that is not less than a value's leaves it
as it is, whatever number of values a byte has.

**Model-checked only.** Liveness (`CallReturns`, `ReferenceLossHalts`, `SignalEnds`, `DumpKeepsUp`, `CallEnds`)
stays with TLC, because proofs of leads-to under fairness need `ENABLED`; so does
anything by induction over data, such as what the fold in
`Can402Args` makes of a line: `MCCan402` compares it with a definition without a fold.
All other invariants of the runs, and the action properties of `SdoClient`, `PdoRemap`, `CanBuffer`, `Can402`,
`Drive402`, `PosLimit` and `NtcanOpen`, are theorems. What is left are `Canmat`'s four about conversions and exits
(`DictRoundTrip`, `DisplayTellsAccess`, `DownloadExit`, `ProbeListsPdos`; section 9). No module declares a
RECURSIVE operator.

## 7. Findings

Each is a run TLC must find violated; `PROJECT.json` quotes the lines.

1. `sdo_stale` (`sdo.c:226`): after a failed `recv` the next query to the node returns
   the late answer as its own. An upload gets the value of another object. This is why `SdoAccess` has
  `CloseUntrusted`.
2. `drive_target` (`ds402.c:280`): the mode change sets the drive's target to 0 and
   leaves `target_vel_raw`; the first reference equal to the old target is not sent.
3. `pos_hard_limit` (`can402.c:478`): exactly at the upper hard limit the offset
   is `+inf` and the drive is sent out at full speed. (`Monotone` and
   `SlowedTowardsLimit` except that one position.)

Met while modelling, in the models or in what their properties leave out, and without a run of
their own:

- `canmat_obj_ul` asserts on a response that was never written when the query failed with `ERR_OS`
  (`dict.c:102`; `SdoClient` then goes to `"aborted"`).
- An accepted inhibit time above 255 is written truncated to one byte (`pdo.c:119`;
  `OkMeansRemapped` leaves the inhibit time out for that reason).
- `canOpenPut_int32` sets a length of two (`ntcanopen.c:468`): an AMC board stores the low half of the value and
  the call succeeds; other nodes refuse it (`DownloadExact` leaves `int32_t` out). The comment
  "Using the length field in sdo [...] nodatalength is computed" (`ntcanopen.c:162`) is right only in
  `dl_u8`: the others read the length before they set it (lines 246, 267, 288), so that an assert or a
  refusal depends on the stack.
- canmat: a text without a number downloads 0 (`dict.c:160`, a TODO); `send` ends with status 0 when nothing
  could be sent (`canmat.c:366-372`); `dict-ul` of a REAL32 prints no value and ends with 0 (`dict.c:289`);
  an UNSIGNED32 of 2^31 or more is printed with a negative decimal number beside the right hexadecimal one
  (`dict.c:286`); `ul-resp` and `dl-resp` convert a message whose type was never set (`canmat.c:413`);
  `ul` and `dl` are `assert(0)`; a negative number for an unsigned type is taken modulo 2^64, so that
  `-18446744073709551615` is accepted as 1 (`dict.c:179-189`; `DictRoundTrip` and `DownloadExit` take a text for what `strtoul`
  does); `info` shows -1 kbps for the rate 20 that `set` accepts (`iface_ntcan.c:261`, not modelled).
- `canmat_402_stop` sends SHUTDOWN and returns its status (`ds402.c:233-235`). A drive that was found in its quick stop and whose
  setup failed stays on, quick-stopped, and the stop returns OK (`canmat_402_start` has a TODO on quick-stopped
  drives, `ds402.c:173`). When the access that failed was a receive, the stop may take its late answer and return OK for
  a SHUTDOWN of which it knows nothing (`sdo.c:223-226`). `StopLeavesOff` and `EndsPoweredOff` state both as exceptions.
- The limits of a drive are not checked (`ds402.c:142-152`). Where they cross, `pos_limit` tests the upper one
  first: a drive past both soft limits is kept from going up and not from going down, and past both hard ones is
  sent down at full speed whatever was asked (`SlowedTowardsLimit` and `Monotone` hold as they are stated;
  `NotPushedOut` is about limits in order only).
- A running `canmat display` fails an assertion when a frame with a COB-ID of 1 to 0x7F arrives
  (`display.c:246`: the function code is NMT's, the COB-ID is not 0).
- can402 ends without `stop` when `canmat_402_init` fails for a drive (`can402.c:318`) and when the feedback
  thread cannot be created, after all drives were started (`can402.c:169`). `EndsPoweredOff`
  does not speak of these ends.
- `parse` does not refuse the same node given twice (`can402.c:284`); the drives of `Can402` are different nodes.

Read in the code and in no property: references that arrive already expired neither
move nor halt the drives, and restart the wait for a timeout (`can402.c:504-507`);
`cx->halt` starts set although drives found by a restarted daemon may be unhalted
(the model's `owed` starts with those drives); the event channel overwrites `msg_ref`; a timeout before the
reference expires is treated as a message of size 0 (`can402.c:417-429`, `ActNothing`); an RPDO
number of 4 or more is shifted into another function code (`pdo.h:132`), and the COB-ID `canmat_pdo_remap`
uploads is not the one the RPDOs are sent with.

## 8. Not modelled

- The SDO slave `canmat_sdo_query_resp` and segmented transfers: the library has no server
  loop and rejects segments.
- The receive filters of the interface modules: no program calls `canmat_iface_filter`. The bit rate of an
  adapter, `canmat set` and `canmat info`: no other part reads it.
- COB-IDs of PDOs: a PDO is its number.
- Endless traffic: the frames of `Canmat` come from a bounded number of commands, so `DumpKeepsUp` says that
  a dump reads what has arrived and does not block on a silent interface, not that one interface gets its turn beside
  another that always has frames.
- A drive that goes into its quick stop by itself or by another master's command: the drives of `Drive402` are found
  in it, and the program never commands it.
- `canmat`: getopt, the number of arguments, wording; `map-rpdo` is one call of `PdoRemap`.
- `error.c`, `ds301.c`, and the names of NMT and emergency codes in `display.c`: printing and tables.
- can402: names of channels, verbosity, logging, position offsets and factors.
- `socketcan.c` has no caller and is not built; `amc*.h`
  declare functions whose source is not here; `canmatc` runs at build time.
- Time: `Can402` has expiry as an event, not a clock; inhibit and event
  timers have no effect in the models.
- Memory order: the stores and loads of the feedback values are `__ATOMIC_RELAXED` (`can402.c:591-592`,
  `653-654`). The model takes each thread's in program order, as x86 executes them when the compiler keeps
  their order; elsewhere `VelocityNotOlder` is not promised, while each value is still whole.

## 9. Plan

Order of the work, most important behaviour first. Done: 1-17 and 19.

1. `SdoClient`, with its proofs: everything else rests on it.
2. `PdoRemap`, with its proofs.
3. `Drive402`: cache, start, stop, restart.
4. `Can402`: halting, velocities, the two threads, shutdown.
5. `PosLimit`.
6. `CanBuffer` as an implementation of `CanFifo`, with its proofs.
7. `SdoCodec`: scalars, texts, messages and frames.
8. `Canmat`: the tool's commands, the probe and the poll loop.
9. `NtcanOpen`: the older SDO client.
10. `Can402` from the command line to the end: `Can402Args`, setup of all drives, stop.
11. `SdoAccess`, implemented by `SdoClient`.
12. `Display`, with the display command of `Canmat`.
13. `Can402Proofs`: all safety properties of `Can402`.
14. `Drive402Proofs`: all safety properties of `Drive402`; `PosLimitProofs`: both of `PosLimit`.
15. `BacklogCorrect`, and `SdoRefinement`'s theorem, from the invariant of `SdoClientProofs`.
16. `CanmatProofs`: `DumpFaithful`.
17. `NtcanOpenProofs`: `UploadExact` and `DownloadExact`, with lemmas on the bytes of a word.
18. Lemmas of `SdoCodec`: what `canmat_sdo2can` makes of a message is what
    `canmat_can2sdo` makes the message of again; with them `DownloadExit` and `DictRoundTrip` of `Canmat`.
19. The status word's decoding (`ds402.c:49-71`) by masks and values, with a theorem (`DecodeExact`).
20. `ProbeListsPdos`, from the place of a probe in its loops and the answers it has had.

## 10. Running

In this directory:

    tlc -workers 2 -config MCSdoClient.cfg MCSdoClient     # any run of PROJECT.json
    tlapm SdoClientProofs.tla                              # any proof module
