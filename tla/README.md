# A TLA+ model of criscv-hw

criscv-hw is a synthesizable RV32I computer: a three-stage core, a memory system
(arbiter, on-chip RAM, write-back cache, SDRAM), VGA output, UART and SPI, and the
boot software that runs on it.  This directory holds TLA+ modules of its parts,
TLC configurations that check them, and TLAPS proofs about them.  Paths below are
relative to `src/`.

## The system

| Component | State it keeps | Operations | Talks to |
|---|---|---|---|
| Fetch `rtl/core/fetch.v` | pc, req_pc, inflight, discard, IF/ID | ask for a word, take or drop an answer, follow a branch | arbiter, decode |
| Decode, pipeline control `rtl/core/decode.v`, `criscv.v` | ID/EX, stalls | decode, forward, stall | fetch, execute |
| Execute `rtl/core/execute.v`, `alu.v` | load/store request, CSRs, divider | load, store, ALU, trap, return | decode, arbiter, peripherals |
| Arbiter `rtl/memory/mmu.v` | busy, owner, copy of the request, lm_v, low RAM | issue a data or fetch request, hold, answer | both core ports, cache |
| Cache `rtl/memory/memcahce.v`, `cache_hw.v`, `iram.sv` | lookup rows (tag, dirty, mru), two ways of data, state, beat counter | read, write, write back, fill | arbiter, SDRAM arbiter |
| SDRAM arbiter `rtl/top.v` 102-145 | ram_arb, sd_rw_req | grant, follow | cache, video, SDRAM controller |
| SDRAM controller `rtl/memory/sdramburst.v` | state, delay, latched request, beats left | initialise, refresh, burst | arbiter, the chip |
| Video `rtl/video/vga.v` | burst FSM, scan line buffer, palette, frame start, pixel position | fetch a line in five bursts, show pixels, take commands | SDRAM arbiter, core |
| Peripheral bus `rtl/peripherals/peripherals.v` | bus state, answer, requests to the two devices, port | a register read or written, kept waiting, answered | core, UART, SPI |
| UART `rtl/peripherals/uart.v` | frame and counters of each direction, receive ring | send, filter the line, receive, store, take from the ring | bus, the line |
| SPI `rtl/peripherals/spi.v` | byte out and in, clock and bit counters, chip select | exchange a byte | bus, the device |
| JTAG TAP `rtl/jtag/tap.v` | TAP state (not instantiated) | shift | - |
| YMODEM receiver `bootbin/ymodem.c` | where the file goes, how far it is, block number expected, prompts and errors counted | receive a header, a block, an end, count an error, give up | UART, a sender at the other end |
| SD driver `bootbin/sddisk.c`, `diskio_sddisk.c` | drive status, kind of addressing | initialise, read sectors, write a sector | SPI, the card |
| FatFs `bootbin/ff16/source/ff.c` | mounted volume, one window, current directory, per file a position, a cluster and a buffer | mount, open, read, seek, close, change and list directories | SD driver, file calls |
| File calls `bootbin/stdfn.c`, shell `boot.c` | file descriptors, heap, loaded program | system calls of programs, commands of the user | FatFs, YMODEM receiver, UART |
| Boot ROM `bootloader/` | - | load the shell from the card or the serial line, jump to it | SD driver, YMODEM receiver |

The core and its two memory ports share one clock, and so do the arbiter, the cache and
the SDRAM side.  A request is a level that is held until it is answered; an
answer is a pulse.  What is hard to get right is therefore the clock in which one
request ends and the next begins, on each of four interfaces stacked on each other:

    fetch.v, execute.v  ->  mmu.v  ->  memcahce.v  ->  top.v  ->  sdramburst.v  ->  chip
                                                        ^
                                             vga.v -----+

What makes each part correct: the arbiter gives both ports one memory and starves
neither; the cache never loses or invents a word, whatever it fills and evicts; the
bursts of cache and video keep apart, and every half-word goes to the right line and
index; the chip gets only commands that its state allows; every request is answered.
Between the core and its two serial lines the same holds byte by byte: none is lost,
doubled or spoilt, and what a status register says is so.

The boot software is three layers of its own, each over something that fails:

    programs, shell  ->  stdfn.c  ->  ff.c  ->  diskio_sddisk.c, sddisk.c  ->  card
                     ->  ymodem.c  ->  serial line

It runs one call at a time; what is hard is what the other end does meanwhile.  A file that is
reported as uploaded must be in memory, whole and at its place, whatever the line lost; the
driver must deliver sectors, not the late answers of an earlier command, and recover a card
from any state; a program must see files, whatever windows and buffers lie between, also
after a read has failed or the card was exchanged; and each of the three must come back.
The behaviours that are hard to test are listed, each at its line, under "hazards" in
`PROJECT.json`.

## Modules

| Module | Models | One step is |
|---|---|---|
| `Rv32` | the instructions as `execute.v` and `alu.v` tell them apart, CSR writes, trap entry | (operators) |
| `Isa` | the core as its programmer sees it | an instruction |
| `Pipeline` | `fetch.v`, `decode.v`, `execute.v`, the division of `alu.v`, wired as in `criscv.v` | a clock |
| `FlatMemory` | what the memory promises to the core: one memory, a data port, a fetch port | any number of port events |
| `Mmu` | `mmu.v` with its low RAM and its bus to the cache, the handshakes of `fetch.v` and `execute.v`, the data-side decode of `top.v` | a clock |
| `CachePort` | what the cache promises to the arbiter, the word on its data output included, and what it demands of it | a clock |
| `MemCache` | `memcahce.v` with its RAMs (`cache_hw.v`, `iram.sv`) and the contents of the SDRAM | a clock |
| `BurstPort` | what the SDRAM side promises to the cache: one burst per request, beat by beat | a clock |
| `SdramBurst` | `sdramburst.v`, and the SDRAM chip (external) | a clock |
| `SdramArb` | `ram_arb` of `top.v`, the line fetcher of `vga.v`, the bursts of `memcahce.v`, over `SdramBurst` | a clock |
| `Serial`, `Baud` | bytes, for the three modules below; the bit time of `uart.v` | (operators) |
| `Uart` | the transmitter of `uart.v` and its ring of received bytes | a clock |
| `Spi` | `spi.v`, and the device on its wires (external) | a clock |
| `Peripherals` | `peripherals.v` over `Uart` and `Spi`, between the load/store port and a listener on the line (external) | a clock |
| `UartRx` | the receiver of `uart.v`, and a sender on the line (external) | a clock |
| `Transfer` | what a file transfer promises: a prefix that grows in order, and one verdict | a piece of the file, the verdict |
| `Ymodem` | `ym_receive` of `ymodem.c`; a sender and the line between (external) | a turn of the loop, a frame, a timer, a fault |
| `BlockDevice` | what a drive promises: sectors are read as they are, written alone | a call, its return |
| `SdDisk` | `sddisk.c` under `diskio_sddisk.c`; the card (external) | a response and the next command |
| `FatVolume` | what a FAT volume means: its files, directories and names, defined on the sectors | (operators) |
| `FileStore` | what a file system promises to a program | a call, its return |
| `Fat` | the read-only build of `ff.c`, the file calls of `stdfn.c`, `mount`, `cd` and `ls` of `boot.c` with `sd_ready`; the drive (external) | a sector or run of sectors read |
| `MCPipeline`, `MCMmu`, `MCMemCache`, `MCSdramArb`, `MCPeripherals`, `MCUartRx`, `MCYmodem`, `MCSdDisk`, `MCFat` | instances for TLC | |
| `PipelineProofs`, `MmuProofs`, `MemCacheProofs`, `SdramProofs`, `PeripheralsProofs`, `YmodemProofs`, `SdDiskProofs`, `FatProofs` | theorems and proofs | |

The two port modules cut the stack into pieces small enough to check, and each cut is
checked from both sides:

    Pipeline  implements  Isa                        (IsaSpec, proved), but for the first
                          division after power-up
    Pipeline  uses        what Mmu promises (Ports), and holds its requests as
                          Mmu assumes (DataPortHeld, proved)
    Mmu       implements  FlatMemory                 (FlatSpec, proved)
    Mmu       uses        CachePort as it demands    (LegalUser, proved): the request on its
                          bus stays up, unchanged, until it is answered
    MemCache  implements  CachePort                  (PortSpec, proved), data output included
    MemCache  uses        BurstPort's operators as its SDRAM side
    SdramArb  implements  BurstPort                  (BurstContract, proved)
                          and each beat carries the half-word MemCache moves on it
                          (BeatsAreHalves, proved)
    Peripherals answers   what Mmu waits for         (AccessAnswered, checked)
    UartRx    fills       the ring of Peripherals    (Arrival takes a whole byte at any
                          time; that what is stored is what was sent is StoredAsSent)
    Ymodem    implements  Transfer                   (TransferSpec, proved)
    SdDisk    implements  BlockDevice                (DeviceSpec, proved)
    Fat       implements  FileStore                  (StoreSpec, proved), but for a seek to
                          before the start of a file
    Fat       uses        a drive that delivers a sector or fails, as BlockDevice promises

Definitions keep the names of the wires and registers.  Wires are operators, registers
are variables, `always @(posedge clk)` blocks are conjuncts of a clock, and the states of
a state machine, or the disjoint cases of an `if`, are its actions.

**Pipeline.**  A clock is the conjunction of the always-blocks: `FetchRequest` and
`FetchLatch` of fetch.v, `Decode`, `Execute` (one action per thing that can be in EX), and
`Alu` (one action per state).  Its parameters are the memory's answers: a fetch taken
(`accept`), a fetch answered (`sv`), a load or store answered (`dv`), under the rules of
`Ports`.  Both stage registers always hold something; what the hardware puts there to
mean nothing (0x13, `addi x0,x0,0`) is the record `NOP`, which no program contains, so
that a bubble and an instruction are told apart.  `ArchPc` is the mapping to `Isa`: the
address of the oldest instruction in the pipeline, or of the next one to be fetched when
all stages are empty, leaving out a fetch that will be discarded.  An instruction is
reduced to its kind, its registers, its CSR and the rest (`fn`); what it computes is a
constant operator of `Rv32`, so the theorems hold for any arithmetic.  CSRs and traps are
kept as the code has them: CSRRW has an arm of its own that knows `mtvec` only, `mepc`
is saved as the next address for every cause, and every SYSTEM instruction with funct3 0
and an immediate other than 0 returns (`MRET` stands for `EBREAK` too).  The
divider is generated hardware outside the repository: it has its answer `Latency` clocks after its
operands are latched (`settling`), at most one more than `DIV_DELAY`, which is chosen for it, and any word before.
`op_f3` and `div_counter` are registers as in `alu.v`: the count is loaded if the `op_f3` of the division
*before* is one of a division, and no reset clears either, so both start with what a build can power up with
(`PowerUpF3`, `PowerUpCount`).  `loaded` is the history of it.  `Isa` has an action of its own,
`ColdDivide`, for the division that does not wait; `warm` says that it is over.
Register files and memory start with `Unknown` words, which no reset clears.  Stores
do not reach the instruction memory: the core has no fetch barrier (`FENCE.I` does
nothing), so a program that changes its own code is beyond what `Isa` describes.

**Mmu.**  `IssueData`, `IssueInst` and `NoIssue` are the three things the arbiter can do
in a clock; every one of them includes the clock of both RAMs (`Bus`), of execute.v
(`Execute`) and of fetch.v (`FetchClock`).  The core is left free: it makes any load or
store, fetches from any address, in any clock its registers allow.  The one rule of
execute.v that matters is kept exactly: `m_valid_d` falls in the clock after an answer,
and the arbiter sees it a clock longer.  A finished load or store is therefore issued a
second time where `can_issue` allows it; `DataOwner` is about that leftover.
`issue`, `m_valid`, `mem_req` and `br_hwren` are the wires of the bus to the cache.  `LegalUser` reads the
request off them: the cache is clocked with what is on the bus and nothing else, and while a request is unanswered
the bus shows the very request it was presented with (`q` of `CachePort`).
An output of the low RAM that was not read for anybody is `Undef`, so that `TypeOK`, which
is proved, also says that nobody takes one.  Words stand for words, half-words and bytes.  Addresses with bit 31 set leave
through `top.v`: the VGA registers answer a write at once and a read never, the other
peripherals answer when they choose.

**MemCache.**  One action per state of the machine, two for the two outcomes of a read
and a write hit, one for a miss.  The RAM ports are modelled with their registered
outputs: what a clock reads is what the address register took in the clock before, and
an output is undefined after a clock that writes (`iram.sv` asks for no defined read
during write).  Data is kept as half-words, because the SDRAM side is 16 bits wide; a
store may write the low half, the high half or both, which stands for the byte enables.
`Stored` is the width of the lookup RAM, 16 bits for a row that needs 17: the top bit of the tag is cut off.
`h'` is the request on the bus in the clock; `CachePort`'s demands on the requester are
its guard (`Held`).  `read_data` is the row of the way that `cache_hit_set` chooses; in the clock that
answers a read it is the data output of `CachePort` (`Output`), the word the memory holds there.  The SDRAM's contents are in this module, moved beat by beat by
`BurstPort`.

**SdramBurst and SdramArb.**  `Table` is the case statement of `sdramburst.v`: per state
its command, its delay and its successor; `nState` and `command` add what depends on
the latched request or the beat counter.  The chip has an open row, a running full-page
burst and the index of its next half-word.  In `SdramArb` the cache finds misses and the
video starts lines in any clock in which they are idle, so every phase of the two against
the refresh cycle occurs.  `data_bursting` is up longer than data flows; the beats count
from its rise.

**Peripherals.**  Each case of the bus state machine is an action (`UartSend`, `ReadUart`,
`SpiSend`, ..., `Blocked` for a request that finds its device in use).  The core makes the
accesses that the drivers make, in any order and at any time: reads of the received byte,
the two status registers and the SPI byte, writes of the UART, the SPI and the port.  Other
addresses are never answered by the code and are left out.  `accessed` is the set of
registers one program uses, chosen at the start (`Programs`); it is a bound of the model, no
state of the code.  The histories `unread`, `unheard` and `unexchanged` are what has come
in and not been read, been written and not been heard, been written and not been
exchanged.  `rr` is not reset by the code, so it starts with either value.  The ring has no
full check: with 64 bytes unread (the repository's README speaks of 16, `uart.v` has 64) it
looks empty.  `PeripheralsAssumption` therefore keeps one place free (`MaxUnread`), and
nothing is claimed beyond.  The port keeps four of eight bits and nobody reads it back.

**UartRx.**  The receiver stands alone, because the line is much slower than the bus.  The
sender keeps to 8N1 at the receiver's rate, pauses for any number of clocks, and the line
may be disturbed for a clock at a time (`Spike`), which is what the filter is for.
`Resync`, `Count` and `Sample` run while the receiver is idle on a high line too, as in the
code; after a reset nine samples of the resting line complete a frame of ones
(`uart.v` 184-199, under a comment that says "Wait for start bit"), the one byte that
`StoredAsSent` excepts (`PowerUpByte`).

**Ymodem.**  One action per way through the loop of `ym_receive`; `Noise`, `BadBlock` and
`NoSecondEot` include the purge, which loses any number of the frames on their way, because it lasts until
the line is quiet.  Memory and files are counted in units of 128 bytes, the data of a short block;
unit u of the file has the content u, so that a shifted, doubled or missing unit is seen.  A frame may
be lost, or damaged in its body, in its start byte, or so that its start byte reads as EOT;
the bytes of a damaged block are not read once more as control bytes, they are noise.  Blocks
land in memory before they are known to be good (`Landed`, `Garbled`), which is what
`Confined` is about.  The sender (external) repeats a frame up to `MaxRetries` times and then cancels.
Both ends may lose patience while an answer is on its way (`Patience`), within the bound of
faults.  `calm` remembers that this did not happen and that no answer was lost.

**SdDisk.**  One action per command: it reads the response and sends the next command.  A byte
sent over SPI brings one back; the card has what it has to say in `out`, and the driver's three
loops (R1, data token, busy) take bytes from it, whoever they were meant for.  The card may
be slow, refuse, lose an answer, fail to hear, or be late beyond the patience of the
driver; `spi_cs` is empty (`sddisk.c` 10), so no card is ever deselected and
late bytes stay.  It is changed between two calls only, and bytes inside a block are not
damaged: the driver throws the CRC of the block away (`sddisk.c` 212).  `sddisk_write_block` is modelled with its own
action `Write`, because the read-only disk layer does not call it.  `late`, `blind` and `hurt` are
histories: a command ran into the answer of another, the answer to CMD58 did not arrive,
something went wrong since CMD0.

**FatVolume, FileStore and Fat.**  `FatVolume` says what the sectors of a card mean, by recursion over
the chain and the path, without windows: where its volume is (`VolumeOf`; a first partition whose boot
sector is none or cannot be read makes the code try the next one, so a card can be mounted in more than one
way), its directories (`Listed`), what a path leads to (`Resolve`) and the bytes of a file (`FileAt`); `FileStore` says what a program is promised
in terms of it; `Fat` is how the code goes about it.  A call of `Fat` is taken (`Begin`) and goes on step by
step: mount (`MountVolume`, `CheckFs`), the path (`DirFind`, `DirRead`, `DirChain` for `dir_find`, `dir_read` and the FAT),
read (`Reading`, `ReadChain`, `ReadSector`), seek (`FLseek`, `SeekChain`, `SeekEnd`).  The one window of the volume is
in the state (`winsect`, `win`), as is the buffer of each file.  A path begins in the current
directory, or with a separator ahead, its first element `"/"`, in the root (`Absolute`, `Start`, `Segments`).  The
shell's `cd` and `ls` go by `sd_mounted`, which the last `mount` has left, and refuse before the file system
is asked (`Begin`, `Return`; `told` in `FileStore`).  The drive
delivers a sector or fails; after a change it fails until `disk_initialize`, because a card
that is new answers no command before CMD0.  Names are values and the checksum of a short name is the name itself;
long names are kept in their parts, with order, last mark and checksum.  The
`Fsid` that invalidates old files is counted, `Wide` is the range of the unsigned integers:
a seek before the start goes to a large number and stops at the end of the file, as in
the code (`off_t` is taken to have the width of `FSIZE_t`).  `FileStore` refuses such a seek, as `_lseek` means
to; `LooseSpec` adds to it the step of the code (`SeekAstray`), and nothing else.

## Runs

| Run | States | Shows |
|---|---|---|
| `MCPipeline` | 465 000 | the stages hold consecutive instructions (`Consecutive`), forwarding (`OperandsFresh`), the port is used as the arbiter assumes (`DataPortHeld`), programs run as `Isa` says but for the first division (`IsaSpec`), instructions keep leaving EX (`Progress`) |
| `MCMmu` | 180 000 | the leftover of a finished load is harmless (`DataOwner`), one memory (`FlatSpec`), requests to the cache stay up unchanged until answered (`LegalUser`), every data request is answered (`DataAnswered`), fetches are not starved (`FetchNotStarved`) |
| `MCMemCache` | 113 000 | no two copies (`TagsUnique`), stores are kept (`StoresAreKept`), the cache is the port and answers with the right word (`PortSpec`), every request ends in a hit (`RequestAnswered`) |
| `MCSdramArb` | 38 000 | legal commands, half-words on their beats for cache and video, whole scan lines, the burst contract, misses and video bursts are served |
| `MCUartRx` | 143 000 | the receiver stores every byte once, as it was sent (`StoredAsSent`) and before the next is over (`InTime`) |
| `MCUartRxEight` | - | violation: a byte with bit 7 set that comes after a rest is stored as its double |
| `MCPeripherals` | 101 000 | no byte is lost or doubled on the way in (`ReadInOrder`), out (`HeardAsWritten`) or over the SPI (`Exchanged`, `OneAtATime`), the status can be believed (`StatusTrue`), accesses are answered |
| `MCYmodem` | 534 000 | what is reported as received is in memory (`Intact`), nothing lies behind a region (`Confined`), without early timers or lost answers it is all of the file (`Agreed`), it grows in order (`TransferSpec`), a sender that arrives gets through (`Completes`), the receiver comes back (`Returns`) |
| `MCYmodemLost` | - | violation: a file is accepted short of the length that was announced |
| `MCSdDisk` | 652 000 | a ready drive counts as its card does (`AddressRight`), success means what it says unless a command ran into another's answer (`DeviceSpec`), an initialisation puts everything right (`Recovers`) |
| `MCFat` | 1 437 000 | no sector outlives its volume (`BuffersTrue`), programs see files (`StoreSpec`), every call returns (`Answered`) |
| `MCFatSeek` | - | violation: a seek to before the start of a file is not refused (`SeeksRefused`) |

Bounds.  `MCPipeline`: programs of four words, three of them any of 15 instructions (every
kind, and per kind the register pairs that make a dependency, a use of x0, a load after a
store, a trap and its return), the fourth an increment that keeps changing the data; 3375
programs in one run.  Addresses wrap, so that every program loops and every
instruction follows every other, through branches too.  Three instructions in a row
fill the pipeline; ports answer in any clock, which gives every length of stall.  `DIV_DELAY` is 2 and the
latency of the divider 3, the largest that it covers; `op_f3` and `div_counter` power up as
zeros do in an FPGA, `PowerUpF3` with the code that is none of a division.
`MCMmu`: one word of low RAM, one word in each of two lines, one
peripheral and one VGA register, two values.  Two lines are what it takes for the fill of one to evict
the other, between a fetch and a load; two values tell a stale answer from a fresh one.  `MCMemCache`: three lines
in one set is the least that forces an eviction from two ways, a line in another set with the
tag of one of them shows that sets do not mix; lines have four half-words, two words, and the
counters wrap as they do with 32; every half-word starts with its own value, so that a shifted,
swapped or stale half-word is seen.  A stored value never depends on another, so one
stored value per address is enough.  `MCSdramArb` has the code's burst length, number of bursts and
delays, except START_DELAY: 20 clocks instead of 5000, in which the chip is idle anyhow.
Two lines tell a burst of the wrong line from the right one.  `MCPeripherals`: bytes of two
bits and two values, which are told apart when bits are swapped, lost or added; a ring of
three places with at most two bytes unread, so that its pointers wrap and its last
usable place is taken; two clocks per bit on the line and per half of the SPI clock, the
least with which a counter counts; three programs, one per device and one that sends on both.
`MCUartRx`: five clocks per bit; half of UART_TIME_DELAY is 2 of 5 clocks there and 54 of
109 in the code, both just before the middle; 26 bytes below 128, every fifth.
`MCUartRxEight` has two bytes, one of them with bit 7 set.

`MCYmodem`: five block numbers where the code has 256, so that the longest file, of six blocks, makes them
wrap; the number that reads as EOT is that of a block which is sent (1; 4 in the code); a long block is two units, not
eight; regions of seven and five units, of which one file fills the second exactly and another
leaves just the room for the closing header, two that are too long for it; files of both types, announced and not, padded and not, empty, and with a
second one behind.  Three faults are what it takes for an early timer, a lost block and a
damage of the end in one transfer.  Tries and errors are cut from 20 and 10 to 4 and 3, each more than the
faults can use up; the sender's retries are more than twice the faults, so that it
never gives up for less.  `MCSdDisk`: two sectors to read and one beyond,
of two bytes that look like answers, tokens, silence and each other; every loop
is cut to two tries, two faults and one change of the card reach every
way out of every command; all four kinds of card.  `MCFat`: card "a" is a FAT16 volume behind a partition
table, with clusters of two sectors in no order, a full root table, a long name over a sector boundary and
an orphaned one; card "b" is FAT32 with a directory whose chain leads back into itself
and a file whose chain is too short; behind its first partition is a second one, with another file of the same
name and a damaged directory, which a failing read of the first leads to.  Two bytes, two directory entries and four
FAT entries to a sector make every boundary happen within a file of six bytes.  Two mounts, one
change and one failing read: a handle of the first volume meets the second.  One handle is enough, because the
objects of files meet only in the window and the free descriptor; the proof is for any number.
Each kind of path is opened or entered once: relative, absolute, of two elements, to the parent.

Fairness.  Weak fairness of the clock: it never stops (`MCMmu` says so with `ClockRuns`:
some step changes a register in every state, so it asks no more than `WF_vars(Next)`, and TLC need not evaluate ENABLED).  `MCPipeline` adds that a fetch
is taken and answered, and a load or store answered, in the end, which is what `MCMmu`
shows of the arbiter; `div_counter` comes to its end with the clock.  `MCMmu` adds that a fill ends
(what `BothServed` and `RequestAnswered` show of the parts below) and that a mapped
peripheral answers (`AccessAnswered`); nothing is assumed of VGA registers, and a load from one is excluded
from `DataAnswered` because the code never answers it (`vga.v` 84, `top.v` 151-157).
`MCMemCache` adds that the SDRAM side moves on (`BothServed`).  `MCSdramArb` and
`MCPeripherals` assume the clock only, although the video may ask for line after line and
the core may access one register for ever.  A read of UART_IN is answered only once there
is a byte: that is the code's intention (`peripherals.v` 115-118), so `AccessAnswered` asks
no more.  `MCYmodem` assumes that both ends take what has arrived and that their timers run out;
nothing makes the sender arrive, which is why `Completes` begins with a sender that is
there.  `MCFat` assumes that a call goes on to its next step, since disk functions return (their
loops are counted, as `SdDisk` has them).  `MCSdDisk` needs none: its properties are of safety.

Findings.  (1) The receiver of `uart.v` counts nine samples, start bit and eight data bits, when it tests
for the stop bit (195-202), so the eighth data bit is taken for it when it is 1: the byte is
stored a sample early, as seven bits over the start bit.  After a rest 0xA6 becomes 0x4C
(`MCUartRxEight`).  A byte below 0x80 is stored a sample later, correctly, and a byte right behind it begins in
`Finish` (163-174), within its start bit, which is not sampled then: that byte is intact whatever its bit 7.
So of the bytes from 0x80 on, those that come after a pause or behind one that was stored early are spoilt;
bytes below 0x80, all that `uart_4byte_tb.v` sends, never are.
(2) `ymodem.h` 19 calls `out->length` the exact length from the header.  When the receiver loses
patience with an answer on its way, the sender repeats a block, the duplicate is acknowledged too
(`ymodem.c` 167), and the sender is an acknowledgement ahead from then on; if its last block is
then lost, it goes on to EOT, and line 98 accepts what is there: YM_OK with a
shorter length (`MCYmodemLost`).
(3) `_lseek` refuses a position below 0 (`stdfn.c` 166), but the sums of 162 and 163 are unsigned and never are: a
seek to before the start ends at the end of the file, with success (`MCFatSeek`).

Other divergences met while modelling; the models do what the code does:

- `alu.v` 138 decides by the `op_f3` of the division before whether `div_counter` is loaded, in the clock in which
  133 sets it, and neither is reset.  Powered up at zero, the first division leaves DIV_WAIT after one clock and
  takes what the divider shows, although `execute.v` 234 means to "keep div/mul in EX until alu_done" for its
  result.  Every later one waits.  This is why `IsaSpec` is `Isa!ColdSpec`, in which the first division may
  deliver any word, and not `Isa!Spec`.  The shell is built with `-mno-div` (`bootbin/Makefile` 13), so it is
  a program's.
- `memcahce.v` 167 notes that the wider rows go with COL_W(17), lines 212 and 221 have
  COL_W(16).  For an address at or above 0x8000000 the tag read back is never the tag
  looked for, and the refill repeats for ever.  The 32 MB that `sdramburst.v` decodes lie
  below; `InstalledMemory` states that restriction where theorems need it.
- `execute.v` 485-488 gives CSRRW an arm before the general one (508) that writes `mtvec`
  only; the handler in `criscv_tb.v` 277 sets `mepc` with it, and the write is lost.
- A trap saves the address after its instruction for misaligned accesses too (`execute.v` 435, 453);
  `stdfn.c` 258 says a return would come back onto the faulting instruction.
- A load from the VGA registers is never answered (`vga.v` 84, `top.v` 151-157).
- `find_volume` takes a read error in the first partition for "no volume there" and tries the next
  (`ff.c` 3450), so an error that passes may mount another partition.
- The closing header of YMODEM needs room behind the file (`ymodem.c` 141): a file that fills its
  region is received and then reported as failed.  `Room` keeps it out of `Completes`.
- A program that ends by `exit` enters the shell again from the system call (`boot.c` 566) and
  does not reach `stdfn_close_all`, which `stdfn.c` 67 counts on: its descriptors stay in use.
- `load` puts type 1 at 0xC00000, DATA_BASE is 0xD00000 (`boot.c` 33, 136), under a
  comment that says they match.

## Proofs

All theorems hold for every value of the constants that meets the named assumptions of
the modules (`Rv32Assumption`, `DividerAssumption`, `CachePortAssumption`, `MmuAssumption`, `MemCacheAssumption`,
`SdramBurstAssumption`, `SdramArbAssumption`, `SerialAssumption`, `UartAssumption`,
`SpiAssumption`, `PeripheralsAssumption`, `UartRxAssumption`, `YmodemAssumption`,
`SdDiskAssumption`, `FatVolumeAssumption`, `FatAssumption`, `VolumeAssumption`, `CallAssumption`);
where a theorem has a hypothesis of its own, it is named below.

**PipelineProofs.**  `Inv` joins to `Consecutive` and `OperandsFresh` the types and who owns a division and a
request (`DivisionOwned`, `RequestOwned`), and is inductive: `OperandsFresh` needs `DivisionOwned` and
`RequestOwned` to know that what is written in a clock is written for the instruction
in EX, and `Consecutive` needs to know what `discard` and `inflight` say of `pc`.  From
it: `TypeCorrect`, `PathKept` (`Consecutive`), `NoStaleOperand` (`OperandsFresh`) and
`Refinement` (`IsaSpec`).  A clock refines one of three ways: EX is held (`HeldStutters`),
EX has a bubble (`BubbleStutters`), or it is the last clock of an instruction there, which
is the step of `Isa` of that kind (`RetireStep`).  Since operators, words, registers and
programs are constants, this is for every program and every timing of the memory, and for every latency of the
divider that `DIV_DELAY` covers (`DividerAssumption`) and every value the registers of the division power up
with: `DivisionOwned` says that a division that loaded the count has its answer before the count is at its end, and
that once one was made every other loads it (`Warm`).  Only the first may deliver any word.
`RequestHeldUntilAnswered` (`DataPortHeld`) needs only `RequestOwned`: the instruction in EX cannot
leave while its request is open, and what the request is made from is latched with it.  The
instruction in EX changes with its address, for which `Rv32Assumption` says that no instruction is
its own sequential successor.

**MmuProofs.**  `Inv == TypeOK /\ InFlight /\ DataOwner /\ LowRamServed` is inductive.
`TypeOK` alone is not: that nobody takes `Undef` needs `LowRamServed`, which needs
`InFlight` to know that the output was read for the request in flight, and the data side's
half needs `DataOwner`.  There is one lemma per part and, in each, one step per action.
From it: `TypeCorrect`, `NoStaleAnswer` (`DataOwner`), `UsesCacheLegally` (`LegalUser`: `InFlight` has
the request that the cache checks equal to the copy in `h_addr`, `h_rw` and `h_wdata`, which is what a held bus shows) and
`Refinement` (`FlatSpec`): each clock is a step of `FlatMemory`'s data port (`DataPort`)
and of its fetch port (`InstPort`) at once.

**MemCacheProofs.**  `IInv` strengthens `TypeOK` and `TagsUnique` with what the registered
outputs hold in each state: the tag register is the requested tag, the row outputs
are the rows of its set where they are defined, and during a refill neither way
has the requested tag.  The last is why two copies cannot arise: a line is filled only
after a lookup that found it in neither way, and the lookup is still right when the row is
written.  From it: `TypeCorrect`, `OneCopy` (`TagsUnique`) and `RefillEndsInHit` (a refill is followed by
a hit), all under `InstalledMemory`.

`DInv` adds to it where every word is.  `Timing` ties the cache's count of the beats to the
burst's; `Copies` says that a way holds half-words of its line, and those of the SDRAM while it is
clean; `WriteBack` and `Loading` say how far a write-back and a fill have come.  A write-back
runs two beats behind the burst and a fill one, so each has its own boundary, and the line is complete
exactly when the state machine moves on.  What a program can see of a word is then the same
before and after every step but an answered store: `StoresKept` (`StoresAreKept`).  With it
`ImplementsPort` (`PortSpec`): each clock of the cache is a clock of `CachePort`, whose memory is
what the two ways and the SDRAM hold together, and whose data output, when a read is answered, is the word
that memory has at the address asked for: the way that `cache_hit_set` chooses is the one that holds the line, by
`TagsUnique`, and its output is that of the row looked up.

**SdramProofs.**  `FullInv` ties the chip to the state of the controller: in which states a row is
open, which burst is running, that the latched address does not change while its row
is open.  `ChipNeverMisused` (`CommandsLegal`) follows for every burst length and every
choice of delays.

`Position` counts the scanline in bursts done and half-words of the running one; from it
`LineFetchedWhole` (`LineWhole`), also for all constants.  The other three, `BeatsAreTheCaches`
(`BeatsAreHalves`), `ScanlineIsTheFrames` (`ScanlineSample`) and `ServesBurstPort`
(`BurstContract`), are about which clock of a burst is which, and hold under `CodeTiming`:
`CAS_DELAY = 2` and `WRITE_DELAY = 1`, as the code has them (the cache and the video fetcher
count from `bursting`, and would be a half-word off with others), and bursts of at least four half-words,
so that a burst is longer than what is under way in the chip.  The other delays and the length of the
scan line stay free.  `OwnerInv` follows a request through the arbiter:
from the clock in which the controller latches an address to the last beat the request is the one of the
side that has the arbiter, and unchanged (`Owner`), and the side without a burst has counted no beat
of one (`Waiting`).  The hard clocks are the last two of a burst, when the write-back's request is still
up though its burst has ended (`Stored`).

**PeripheralsProofs.**  `ExchangeAlone` (`OneAtATime`): whatever the core accesses, `spi_req`
never rises under a running exchange.  The bus takes a request back in any clock in which
the SPI is not busy, and the SPI becomes busy one clock after it saw the edge; `RequestHeld`
says why the two do not cross: in the clock between, the bus is ending its answer.
`OneOwed` follows the byte through it.

Three invariants carry the rest, for every width of a byte, size of the ring and delay.  `BusInv`
is about the answers: `Answering` says in which states an answer ends, `Reading` that the ring
between its two pointers is what was received and not read (`RingHolds`), and that a read in its second
clock has the oldest byte: `ReadsTakeInOrder` (`ReadInOrder`).  `SpiInv` is about the two shift registers
of an exchange: both ends are at the same bit, each has driven the bit that the other
takes next and holds the bits above it (`Wires`): `ExchangesWhole` (`Exchanged`), and with `BusInv`
`StatusBelieved` (`StatusTrue`).  `LineInv` ties the listener's clock to the transmitter's: it is
in the same bit and before its middle (`InBit`), or has taken it (`PastMiddle`), or the transmitter is
through with the stop bit and the listener is not (`StopLeft`, `StopLast`); `Unheard` says which
bytes are owed to the line in each of these: `LineCarries` (`HeardAsWritten`).

Of `UartRx`, which it extends as well and which shares no variable with `Peripherals`: `StoresWhatWasSent`
(`StoredAsSent`) and `StoredInTime` (`InTime`), for any bit time of four clocks or more and any bytes
of seven significant bits, with any pauses and spikes (`SevenBitLine`; with an eighth bit it is
false, see `MCUartRxEight`; the code has 109 clocks).  `Settling` says that the filter shows the line
three clocks late and no spike of it, so there is one bit that is seen and an age of it (`Seen`).
`Receiving` says where the receiver is: it follows a frame and has the bits before this one
(`Following`, `Timed`, `Sampled`), has all of them and sees the next start bit already (`Behind`),
has just stored (`Done`), or waits for an edge (`Waits`).  The hard case is a frame right behind
another: the byte is stored, and the receiver starts, in the middle of the start bit.  It takes this
bit as read and samples one or two clocks behind the edges (`Drifted`) until it sees one; a
frame whose start bit was counted and one whose was not hold the same ten bits at the end.

**YmodemProofs.**  `StaysConfined` holds for files and regions of any size: a block is stored only where it
fits.  `ArrivesIntact` (`Intact`) and
`ImplementsTransfer` (`TransferSpec`) are under `Short`: no file has as many blocks as there are numbers,
so that the number of a block tells which one it is.  The invariant says that memory holds the file as
far as `pos`, that `pos` is where the block expected begins, and that every frame on the line is one of
the file; whatever else is stored lies behind `pos`, where the block expected will go.

`BothEndsAgree` (`Agreed`) does without `Short`: numbers which wrap do no harm, because on a line
that was calm sender and receiver are never more than one block apart, and two numbers tell that
much (`W > 1`).  `Agreeing` says whose turn it is: nobody has asked yet (`Unasked`), the receiver waits for
what the sender has sent (`Due` and `Awaits`; the frame may be hurt and be sent again), the receiver has taken
it and its answer is on the way (`Taken`), or the sender has lost patience (`GivenUp`).
While calm exactly one of the two ends has something on the line, so each step moves the turn along.

**SdDiskProofs.**  `CountsAlike` (`AddressRight`), for cards of any size and kind, any number of faults
and changes, and any patience of the driver.  The driver learns how a card counts from one answer and
does not ask a card that did not know CMD8, so the invariant follows an initialisation from command to
command: CMD0 makes the card forget that it was ready, a high capacity card gets ready only if the
driver knows it for a new one (`v2`), and what is in the line when CMD58 was sent is its answer
(`Told`), which a wait for any other byte does not miss (`FirstByte`, by the least number principle).
It holds unless the answer to CMD58 was late or a command ran into another's answer (`Doubt`).

`DInv` adds what the line holds for each command: after CMD17 the sector that the call is at, or nothing
(`Delivers`); after a block either it is on the card or the card says that it is not (`Stored`, `Rejects`);
after CMD13 the status of the last block (`Reports`).  A driver that counts as its card sends for the
block it means (`Aiming`), and one that reads on after a wait finds the answer and no byte of the wait.  From
it: `KeepsPromises` (`DeviceSpec`): every call of the driver is one of a `BlockDevice`.

`HInv` follows an initialisation none of whose commands was lost (`Healthy`): CMD0 reset the card, each
command since has been answered, and the card has said "idle" once for every ACMD41.  So it fails only
if the card is busy for longer than the driver asks: `InitialisesWhatIsThere` (`Recovers`) is under
`Patient`, which says that it is not, and is false otherwise.

**FatProofs.**  `NoStaleSector` (`BuffersTrue`), for any cards, calls and number of descriptors.
`IInv` adds three things: while a volume is mounted, a card that answers is the
one it was mounted from (`Own`), because a changed card is silent until a mount has cleared
`fs_type`; the ids of file objects never exceed the count of mounts (`Ids`), so that a new
mount leaves no old object alive; and what is said of files in use is said of every object,
in use or not (`Keeps`).  One lemma per action, over lemmas about `move_window` (`Window`) and about
what may be done to a file object (`MovesPtr`, `MovesClust`, `TakesIn`, `Stops`).

`ProgramsSeeFiles` (`StoreSpec`): every call answers as `FileStore` says, refusals and their reasons included, for cards and volumes of any layout,
directories and files of any length, any number of descriptors any paths and any failing reads, except that a seek to before the start of a file goes astray.  Its one
hypothesis, `World`, is about the values that stand for things: `None` is not a record (`Apart`), and what
a directory holds has the fields of an entry (`Tagged`).  A damaged chain, a chain that leads back into itself,
a long name without its file and an empty or odd partition table are not excluded.

The files are defined by recursion over chains and paths.  The induction theorems of the library cannot be
instantiated here, but induction for membership in a set can be had from the well-foundedness of `<`
(`LeastNumber`, `Climb`), and with it that a recursive definition has the value it says (`Recursion`).
On these rest `ChainIs`, `WalkIs` and `ListedIs`, which give each definition step by step, and what the code
needs to know of its own positions: which sector of which cluster a byte or an entry is in, and when the
next one is in another (`SectorIs`, `FileIs`, `StandsNext`, `TurnsNext`); a directory ends where its
entries, its table, its chain or its bound do (`DirGoesOn`); the order and checksum that `dir_find` and `dir_read`
carry along say exactly which parts of a long name lie right ahead (`Runs`, `RunsLfn`, `RunsShort`).

`Inv` joins to `IInv` what has come of a call at each of its steps.  `Tried`: the partitions before the one
that is read have no boot record, unless the card failed.  `Dirs`: the directory object stands at an
entry (`Stands`), or at the end of a cluster (`Turns`), none of the entries before has the name (`Missed`), and
the names before have led here (`Way`).  `Reads`: what has been given and what is left add up, and the bytes given
are those of the file up to its position (`Gives`).  `Seeks`: the position is at the beginning of a cluster on the way
to the aim.  `Files`: each open file is what its path names, and its cluster is that of the byte
before its position (`Settled`), also when that byte is the last of a cluster, where the next cluster is looked up
only by the next read; a file that a read or a seek has in hand is excepted, until it ends.  `FileStore` is
mapped as in `Fat`: it sees the position with which a call began (`PosOf`).  One lemma per action (`...Does`): it keeps `Inv` and
is a step of `FileStore`, mostly the answer, or is seen by no program.

Only model-checked: liveness (`Progress`, `AccessAnswered`, `BothServed`, `Completes`, `Answered` and the
like; `ENABLED` and fairness are out of the prover's reach).

## Not modelled

- Resets after the first.  Lookup rows survive one (see the hazards); what a reset should keep is
  specified nowhere.
- The pixel side of the VGA, which needs a second clock; clocks, PLL and pins of `top.v`.
- What the arithmetic, the immediates and the lanes compute, `mcycle` and `minstret`; programs
  that change their own code.
- A line whose two ends differ in rate, a UART ring that overruns.
- Of FatFs: FAT12, `f_getcwd`, `f_stat`, a separator at the end of a path, character sets, and what `ffconf.h` compiles out (writing,
  formatting, several volumes).  Most lines of the repository's C are the tables of
  `ffunicode.c` and this compiled-out part of `ff.c`: there is nothing of the build in them.
- Of the file calls: opening for writing (always refused below), O_APPEND, `_sbrk`, console
  input and the traps; of the shell: its command line, and starting a program; its `cat`,
  `load` and `run`, which check `sd_ready` and open and read a file object of their own by the same calls
  of `ff.c`.
- The boot ROM beyond its copies of the driver and the receiver: a sequence of reads and a jump.
- The JTAG TAP, which nothing instantiates; the host tools; the superseded files kept beside the
  build; the test benches, which were read for what their authors expect.

## Plan

1. Done: the memory system, from the core's ports to the chip; the pipeline, refining
   sequential execution.
2. Done: the peripheral bus with UART and SPI, the UART receiver.
3. Done: the boot software: YMODEM, the SD driver, the read-only file system with its calls.
4. `Shell`: start and end of programs, descriptors and heap across them; `Vga` timing (pixel
   clock against memory clock); reset of the cache and the controller.
5. Proofs: done for every invariant, action property and refinement that a run checks, in all
   components; open: those of the modules of step 4.
