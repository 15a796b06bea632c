# A TLA+ model of sphone

sphone (Sicsophone) is an Internet telephone written in C: an audio recorder
sends packets over RTP, a receiver plays them.  The repository also holds a
measurement system (`utils/`): clients (`spc`) register with a server (`sps`),
which orders pairs of them to exchange test streams.  This directory models
the parts that decide what the programs do and in which order, checks them
with TLC and proves the central ones with TLAPS.

## 1. Inventory

All programs are single processes around one event loop; concurrency comes from
several processes, the network, the audio device, timeouts and signals.

| Component | State | Operations | Interacts with | What makes it correct |
|---|---|---|---|---|
| Event loop, `src/sphone_eventloop.c` | lists `ee` (descriptors) and `ee_timers` (timeouts, sorted) | register, unregister, select, dispatch | calls everything; callbacks change its lists while it walks them | walks no freed event; calls timeouts in order and in time; calls nothing after an error; serves input |
| Error handling, `src/sphone_error.c` | list of exit functions, `sphone_exit` | `exit_register`, `sphone_error`, `sphone_signal_exit` | signals at any instant | exit functions once each, last registered first; an error ends the program |
| RTP sender, `src/sphone_send.c` | `ss_seq`, silence counter, statistics | `record_and_send` | recorder callback, UDP | consecutive numbers; silence takes none |
| RTP receiver, `src/sphone_rcv.c` | `seq_prev`, `seq_cur`, `seq_cycles`, `seq_bad`, locked source, static decode buffer | `receive_and_playout`, `update_seq` | event loop, playout, error handling | plays in order, survives tolerable faults, can be called again after every return |
| Playout, `src/sphone_playout.c`, `src/sphone_playout_shbuf.c` | write position, noise position, cursors | play a packet, fill with noise | audio device, timeouts | noise overwrites no audio still to be played |
| Measurement server, `utils/sps.c` | list of clients (state, id, addresses, lives), test id, log files | accept, register, probe, start call, report, timeout, SIGUSR2, exit | clients over TCP and UDP | client list, event list and sockets agree; calls end; each test is logged once |
| Measurement client, `utils/spc*.c` | connection state, session of the call, timeouts | connect, register, obey orders, end call, report | server, other clients | state, session and timeouts agree, also when the server is lost |
| RTCP, `src/sphone_rtcp*.c` | times of the last sender report, report timer, lock on the source shared with RTP | send SR/RR, receive | event loop, RTP session | reports have a destination; the round-trip time is that of the reports it is computed from |
| Audio modules, `audio/` | device handle and its reference count, position in a file or a capture buffer, time of the next poll | open, play, record | playout, sender | the device is opened once, closed last; recorders keep up and lose nothing |
| Coding, `coding/sphone_coding.c`, `coding/g711.c` | none | G.711, channels, lengths | sender, receiver | conversions match their definition and stay in their buffers |
| iLBC, `coding/iLBC_1.1.0/` | of the decoder: last lag, gain, bad frames, enhancer buffer | encode, decode, conceal | coding | encoder and decoder construct the same frame; no index leaves its buffer |
| SIP, `sip/` | lists of dialogs, transactions, messages | create, free | `apps/sip_phone.c` | a skeleton without protocol behaviour |
| Applications, `apps/` | options, sessions and what is attached to them | start sender, receiver, both | all | whichever step fails, what exists is released once |

What is hard here and a test would hardly reach: the wrap of 16-bit sequence
numbers together with loss, reordering and restarts; lists changed under a
walk; signals between two assignments; sessions freed while a timeout still
refers to them; messages of server and client that cross; cursors at the end
of a circular buffer; reports that overtake each other; objects shared by two
sessions whose exit functions both release them; indexes computed from lags of
earlier frames.  `PROJECT.json` lists each hazard at its line.

## 2. Modules

| Module | Models | State and actions |
|---|---|---|
| `Receiver` | `receive_and_playout`, `update_seq` | the fields of `rcv_session`; one action for each way a call can end, from the failing read to the played packet |
| `RtpStream` | `record_and_send`, the network, `Receiver` | packets in flight as a set; `Window` bounds reordering, `MaxLead` outages, `Faults` selects loss, duplication, errors, silence and empty packets; the sender can restart |
| `PlayoutOrder` | abstract: a receiver that plays positions of the stream in increasing order | refined by `RtpStream` |
| `Eventloop` | the loop and its three registration calls | callbacks are arbitrary and take time, but follow the discipline of the repository (`UnregDiscipline`) |
| `SphoneExit` | exit functions, errors, signals | a stack of frames: signals nest at any step |
| `Phone` | `main` of `phone`, `send` and `rcv`, the exit functions of their sessions, the device list of `sphone_audio_devaudio.c` | extends `SphoneExit`; `main` is a list of steps that allocate, register, attach and open, each of which may fail; what is attached to a session, how often it was freed, the users of a device |
| `Rtcp` | `sphone_rtcp*.c` | extends `Receiver`; a sender with a clock of its own, reports in flight, the receiver's memory of the last sender report; one action per timeout and per datagram |
| `SpNet` | messages, TCP connections | queues per connection and direction |
| `SpServer` | `sps.c` | list of entries, events, lives, log files; one action per message type, timeout and signal |
| `SpClient` | `spc.c`, `spc_send.c`, `spc_rcv.c` | connection state, address of the UDP socket (another one in each run, as `bind` gets port 0), heap of sessions (addresses are reused as `malloc` does), registered timeouts |
| `SpProtocol` | server and clients together | restarts, stops, resets and lost probes |
| `Shbuf` | `sphone_playout_shbuf.c` with a DirectSound device | contents of the circular buffer as noise, fresh or stale audio |
| `Recorder` | the file, `/dev/audio` and DirectSound recorders | time, position of the recorder, samples handed over; one poll per action, called late by up to `MaxLate` |
| `G711` | `g711.c` | both laws and the tables between them, on integers |
| `Coding` | `sphone_coding.c` and its calls by sender and receiver | one job per behaviour: a sample, a code, a frame, a codebook index, channels, or lengths; `Transmit`, then `Receive` |
| `ILBCDefine` | `iLBC_define.h` | lengths of a frame and its parts |
| `ILBC` | packing of frames; order of construction in `iLBC_encode.c` and `iLBC_decode.c` | operators |
| `Codebook` | `iCBSearch.c`, `createCB.c`, `getCBvec.c` | the indexes that a search may find, and the vectors of the search, of the encoder and of the decoder as weighted samples of the memory |
| `Concealment` | the decoder over frames: `doCPLC.c`, `enhancer.c` | lag, gain and bad frames; which elements of its buffers each frame uses |
| `*_proofs` | theorems about the module of that name (section 5); `Phone_proofs` about `SphoneExit` too | |
| `MC*` | instances for TLC | |

`RtpStream` and `Rtcp` extend `Receiver`, `Phone` extends `SphoneExit`;
`SpProtocol` composes `SpServer` and `SpClient` over `SpNet`; `Coding` uses
`G711` and `Codebook`, which extends `ILBC`; `ILBC` and `Concealment` share
`ILBCDefine`.  `MCMedia` checks the parts that
handle audio side by side.  `Eventloop` and `SphoneExit` justify the steps of the
other modules: callbacks are atomic, and the loop stops after an error.

Data is abstracted: a packet is its number, source, address and whether it has
a payload; audio, timestamps, wording and log contents are left out.  The
sequence number space is a constant; `seq_prev + 1` is computed without wrap
as the C code does in `int`.  `rst_lost_pkts` keeps its modular width.
Reports carry times with the widths of the code (16 bits of seconds, `uint32_t`
differences), in coarser units.  G.711, the packing of iLBC and the lengths of
packets are computed with the real widths and tables.  The floating-point
signals of iLBC are abstracted: a search may find any candidate that the code
compares, and a vector is described by the samples and weights (in fifths) it
is made of.
Freed memory is tracked (`dec_buf`, `rs_freed`, `freed`, `heap`), and a use of
it is recorded as a fault and not given a meaning.

## 3. Runs that pass

| Run | Properties | Shows |
|---|---|---|
| `rtp_session` | `SessionReusable`, `ReportsHaveDestination`, `RttMeasured` | for every packet, report and failure: a receiver that can be called again has no dangling buffer and agreeing sequence numbers; whichever packet locks the session, its reports have an address; a round-trip time is right although reports are lost, duplicated and overtaken and the sender starts again |
| `stream_order` | `PlayedInOrder`, `StreamInv`, `ImplementsOrder` | playout in order under loss, duplication, reordering below `MAX_MISORDER`, errors of the receiver and a sender restart; refinement of `PlayoutOrder`; the inductive invariant |
| `stream_cycles` | `NormalIsConsecutive`, `CyclesTrackStream`, `StreamSurvives` | over two wraps, with loss, duplication, silence suppression and a failing sender: `SEQ_NORMAL` means consecutive, wraps are counted once, tolerable outages do not end the program |
| `eventloop` | `SavedNextLive`, `TimersSorted`, `TimersOnTime`, `NoSpuriousCallback`, `NothingAfterExit`, `InputServed` | the walk over a changing list, order of timeouts, no callback after an error; input is served unless slow callbacks keep timeouts overdue for ever |
| `phone` | `HandlersOnce`, `ReverseOrder`, `ReleasedOnce`, `DeviceShared`, `ErrorExits` | all three programs with all options, failing steps and one signal: exit functions once, in reverse order; each object freed and each socket closed once; the shared audio device open while used; an error ends the program |
| `sp_calls` | `OrdersAreObeyed`, `LoggedOnce`, `CallsEnd` | two consecutive tests with clients that may stop in a call and log files that fail: orders are obeyed, one log per test, a busy client becomes idle or is removed |
| `sp_stop` | `StartedHasAddress`, `PublicAddressRight` | clients stop and start again with another identity and UDP address while probes of the earlier run are under way: calls only towards known addresses, which are those of the present run |
| `sp_restart` | `TypeOK`, `EventsMatchClients`, `CallHasSession`, `CallHasTimeout` | the types of server, clients and network together; server restart, SIGUSR2 between callbacks, silent clients and resets during calls: client list, event list and sockets of the server agree, and a client in a call has its session and the timeout that ends it |
| `media` | `TypeOK`, `AudioKept` | playout: positions in the buffer; noise never overwrites audio that is still to be played |
| | `KeepsUp`, `SamplesInOrder` | recorders: late polls add up to no delay; samples in order and none skipped, over the ends of files and capture buffers; DirectSound keeps its margin to the device, and begins with no more than that margin and a packet of contents that were never recorded |
| | `G711Accurate` | both laws within half a step of the sample, and stable when coded again; the tables between them within a step |
| | `FrameKept`, `BlockDecoded`, `CodebooksAgree` | iLBC: the decoder finds the encoder's indexes in the bits, constructs each sample once from the same memory, and gets the vector that the search compared, for every index the search may find |
| | `DecoderInBounds` | iLBC decoder over any sequence of good and bad frames: every index in its buffer, no gain used that was not computed |
| | `ChannelsKept`, `LengthsAgree` | channels expanded in place; no conversion reads more than its packet or writes more than the length computed for it, and as much is played as was recorded |

Bounds.  The sequence number space has 5 to 8 values, with `MAX_DROPOUT` and
`MAX_MISORDER` scaled so that all four classes of `update_seq` occur, and
streams of 7 to 18 packets pass it at least once; the theorems remove the bound.
The event loop has two descriptors, up to three events at a time and callbacks making two
calls: enough for a callback to remove or add the event next to its own.  Its
behaviours do not end at a bound: `Rebase` of `MCEventloop` moves the origin of time
and renames events, so that a timeout may be set again and again, always for a time
that its slow callback has already passed.  The
sender and receiver of `rtp_session` exchange three reports over seven
ticks of two to a second.  A report may be under way for three ticks and the next
one is sent after two, so reports overtake each other; the seconds in them
wrap at three.
`phone` is bounded only by its two devices.  In `media`, recordings last fifteen packets and files are shorter than a packet
and longer; the capture buffer holds five packets and its margin
(`capture_offset`) is longer than a packet, as in the code (60 ms and 20 ms): with
a margin of one sample the recorder would never send, as the comparison at
`sphone_audio_directsound_record.c:177` holds only for capture positions behind the
first one, which would then be the last place of the buffer.  G.711 is
checked for all samples up to 1100 and each eleventh above, and all codes;
frames of iLBC have one index at its maximum and the others at their minimum or the
reverse; all blocks, stages and indexes of the codebooks and all 50 lags of the
enhancer are covered, with five lags kept from frame to frame; the sizes of packets
include those next to the limit of 1472 bytes (91 to 93 ms).  The
protocol has two clients, which is what a call needs, up to three connections
(one stale, two current), two or three UDP addresses, one or two tests, one or two sessions (two, so that an
address can be reused) and one or two lives.  `Shbuf` uses a buffer of 11
places, the smallest that leaves `Room`, with three places between two calls of the
timeout, so that the noise position passes 0, odd places and the
end of the buffer.  `Room` states what the buffer must hold; with the 10240
bytes of the DirectSound module, 16-bit samples at 8 kHz and a timeout of
200 ms it leaves about 3600 bytes (225 ms) ahead of the play cursor.

Fairness.  `eventloop` and `phone`: the process is scheduled and its
callbacks return.  How long callbacks take is not a matter of fairness: while
timeouts are overdue, `select` is not called ("timeouts may take over all events",
`sphone_eventloop.c`), and callbacks slower than their own timeouts do starve the
input.  `InputServed` says that this is the only way to starve it: its condition is
that `select` is called infinitely often, or that from some time on callbacks
take no time, which makes the loop recover.  `sp_calls`: both programs serve connections that have input
(the level-triggered `select` returns them until they are read) and timeouts
that are due (`MCFairSpec` gives identities and UDP addresses to the clients in a fixed
order at the start, instead of the symmetry that the safety runs use); no fairness is assumed of calls being started, messages from
outside or timeouts of the server.

Deadlock is not checked: all programs may end, and bounded runs stop at
their bounds.

## 4. Where code and comments disagree

Three runs state what a comment of the code says, and TLC shows the code doing
otherwise.  `PROJECT.json` quotes the lines.

- `bug_resync` (`BadPacketKeepsRunning`): after a jump of the sequence number the
  receiver is to wait for a second packet in sequence and re-synchronise; the
  first one is classified as `SEQ_BAD`, for which `receive_and_playout` returns
  -1, and the event loop ends the program.
- `bug_timeout` (`OwnTimeoutEndsCall`): a client that loses its server frees the
  session of the call but leaves its timeout registered; when the next call
  gets the same address, that timeout ends it early.
- `bug_length` (`PacketFits`): `record_and_send` compares the length of the encoded
  audio with the whole of its buffer and writes it behind the RTP header; 92 ms of
  LINEAR16 at 8000 Hz, 1472 bytes, pass the test and run over the end.

The models reproduce other disagreements; the passing runs exclude them by
their constants, or state no property that they contradict:

- `update_seq` classifies a duplicate of the last packet as `SEQ_GAP`, so it is
  played again (`sphone_rcv.c:73`; `PlayoutOrder` allows it when the network
  duplicates); a wrap is a `SEQ_GAP` as well, because `seq_prev + 1` is an int
  (line 69); `seq_bad` is 0 at first, so that number 0 re-synchronises at
  once (line 87); `rst_lost_pkts` decreases by one at each gap (line 270).
- `record_and_send` never increments `sst_spkt` (`sphone_send.c:190`).
- A session with `rs_accept_all_ssrc` follows any new source
  (`AcceptSender`); after "Changed coding not supported" the receiver goes on with a
  session that exit functions have freed (`ChangedCoding`).
- `connect_input` of the server is to "close the old and use the new" when a known
  address connects; the `return` belongs to the failure of `eventloop_reg_fd`
  (`sps.c:721`), so a second entry with the same socket is added, and when one of the
  two is closed the other has an event on a closed socket.  EXIT over TCP (line 597)
  calls `sps_exit`, which frees the first client only and leaves it in the list (line
  831), and the server runs on.  Both break `EventsMatchClients`; `connect_input` and
  `rcv_sp_proto` model them, but the clients of this repository send no EXIT and connect
  from a new port, so `sp_restart` reaches neither, and the property says nothing of other peers.
  An entry freed by a reset in the middle of a report is written to
  (line 586; `srv_fault`, reached in `sp_restart`: `EventsMatchClients` speaks of the
  server up to that moment).
- A registration that crosses a start order erases `cf_peer` (`sps.c:561`); a
  restarted server numbers tests from 0 again, over the old log files (line
  464; `LoggedOnce` is checked without restarts); random ids may collide
  (`spc.c:533`; `IdsUnique`).
- `sphone_signal_exit` sets `sphone_exit` only after the exit functions
  (`sphone_error.c:160`), so that SIGTERM during SIGINT calls them a second time: with
  `Signals = {SIGINT, SIGTERM}` TLC finds `HandlersOnce` violated, and the run `phone` has one
  kind of signal.  A signal inside `exit_register` calls a null function (line 99), and a
  callback that returns -1 without `sphone_error` ends the program without the exit
  functions (`SphoneExit`).  An error inside an exit function would begin a second walk
  during that of a signal, but none of the exit functions, nor what they call, calls
  `sphone_error`.
- In `silentout_play` the noise position 0 is taken for the first call, so audio
  is skipped there and played a second time (`FirstTime`); `ps_d` is unsigned, so
  that a packet is never found late (`shbuf_normal`).
- RTCP: no receiver report is sent while `rtp_ssrc` is 0 (`sphone_rtcp_send.c`),
  and `phone` calls `rtp_init(NULL)`, so that its ssrc stays 0 (`phone.c:245`);
  `RR_block.lost` is sent without being set; a report that answers no sender
  report, or an exchange over the wrap of the 16 bits of seconds, gives a wrong
  round-trip time (`RttMeasured` excepts both), and rounding may give -1 ms,
  which is 2^32 - 1; a failing read ends the program (`sphone_rtcp_rcv.c:139`),
  which it does not for RTP.
- Applications: `phone` binds its RTCP port twice and sets the payload type of
  the receiving session twice (`phone.c:254`); `send` attaches its recorder to
  no session, so that its device is left to the operating system; a
  `/dev/audio` recorder whose device fails to open is written to after it was
  freed (`LeaveStart`), and a failing `audio_devaudio_init` leaves its entry in
  the list (`sphone_audio_devaudio.c:147`).
- Recorders: the DirectSound recorder starts `capture_offset` and a packet behind the
  device, so that the first samples that it hands over were never recorded
  (`sphone_audio_directsound_record.c:161`; `SamplesInOrder` bounds them by
  `FirstCaptured`); it takes nothing while the capture position has
  wrapped and `ar_r + len` has not, and then skips a buffer
  (`sphone_audio_directsound_record.c:177`; `SamplesInOrder` excepts DirectSound
  between polls); the `/dev/audio` recorder reads two packets per poll,
  blocking, and may find two channels after the length of a packet was computed
  for one (`sphone_audio_devaudio_record.c:185`), which halves packets and fails
  the assertion of iLBC.
- Coding: conversions between the laws read their bytes as 16-bit numbers, past
  the packet (`LengthsAgree` excepts them); LINEAR8 gets a precision of 16 bits
  because a `break` is missing (`sphone_coding.c:327`); iLBC with other rates than 8000, and iLBC
  on both sides, fail an assertion; packets of 11025 Hz may hold half a sample;
  iLBC and LINEAR8 share one payload type.
- iLBC: a good frame stores a gain that was never set (`doCPLC.c:294`), which is not
  used (`DecoderInBounds`); `enh_upsample`, which assumes "zeros outside
  bounds" (`enhancer.c:70`), reads one value of `corrVec` that was not computed
  when the search is clipped to four positions (`enhancer.c:105`); it is inside
  the array, which is what `DecoderInBounds` states.

## 5. Proofs

The theorems hold for every value of the constants that satisfies the named
`ASSUME`s of the modules (which TLC evaluates in the runs) and, where it is
stated, a hypothesis.  Each hypothesis is satisfied by the run that
checks the same property.  Every inductive invariant was checked by TLC before it
was proved.

**`RtpStream_proofs`**, from `SeqAssumption`, `SsrcAssumption`, `StreamAssumption`.
With `Window < MAX_MISORDER`, for every sequence number space, stream length,
number of restarts and set of faults:

- `StreamInvariant` (`StreamInv`), `InOrder` (`PlayedInOrder`),
  `Implementation` (`Spec => ImplementsOrder`).  `PlayedInOrder` is not
  inductive: `update_seq` sees numbers, the property speaks of positions.
  `StreamInv` ties the two.  A running sender has numbered its packets
  consecutively (`SenderInv`); packets in flight carry the number of their
  position and are at most `Window` behind (`NetInv`); a position is in flight
  once (`DistinctInv`); the receiver's `seq_prev` is the number of the last
  position played, if that was of the present sender (`ReceiverInv`).  A packet
  older than the last one played then has a difference above
  `RTP_SEQ_MOD - MAX_MISORDER`, which is `SEQ_DUP`.
- `WrapsAreCounted` (`CyclesTrackStream`) and `NormalMeansNext`
  (`NormalIsConsecutive`) under `Followable`: reordering is below both
  thresholds, outages below `MAX_DROPOUT`, no restart (which the counter of wraps
  is not meant to follow) and no empty packet (`update_seq` counts it, the
  listener does not hear it).  `FollowInv` adds to `StreamInv` how far the sender may be
  ahead of the last packet played (`LeadInv`); then a packet is accepted, and its
  number wraps exactly when it is classified as `SEQ_GAP`, which is where wraps are
  counted.
- `OutagesAreSurvived` (`StreamSurvives`): if also nothing is reordered and no
  call of the receiver fails.

**`Shbuf_proofs`**, from `ShbufAssumption`: `WrapIsDistance` (the correction made by
`wrap` is a signed distance of at most half a buffer), `PositionsInBuffer`
(`TypeOK`), `AudioIsKept` (`AudioKept`, which has `Room` as its condition).
The invariant `PlayoutInv` bounds how far ahead of the play cursor fresh audio lies
and how far behind it the noise position trails; noise and fresh audio meet only
if the sum exceeds the buffer.  The proof showed that an earlier form of `Room` was
one place short: the position may be rounded to an even place in two calls
in a row.

**`Eventloop_proofs`**, from `LoopAssumption`: `WalkIsSafe` (`SavedNextLive`),
`TimersStaySorted` (`TimersSorted`), `TimersFireInOrder` (`TimersOnTime`),
`CallbacksHaveInput` (`NoSpuriousCallback`), `ExitIsFinal` (`NothingAfterExit`), for
any number of descriptors, events and calls in a callback.  In `LoopInv`, events
are linked in front of all older ones (`FdsOrdered`) and the walk goes on with an
event older than the one whose callback runs (`NextOlder`): so a callback that
follows `UnregDiscipline` (it removes its own event or a younger one) never removes
the saved one, and a new event never comes behind it.  The answer of `select` stays true for the events
that are still to be visited (`AnswerFresh`).

**`Phone_proofs`**, from `ExitAssumption` and `PhoneAssumption`, about `SphoneExit`
alone and about the programs: `ExitFunctionsOnce` and `SessionsReleasedOnce` (`HandlersOnce`),
`ExitInReverse` and `SessionsReleasedInReverse` (`ReverseOrder`), under `OneSignal`:
with two kinds of signals both are false (section 4).  `ExitInv`: at most one
walk over the exit functions is under way, and it is that of `sphone_verror` exactly if
`sphone_exit` is set (`OneWalk`); the functions that were called are those before its
place in the list (`CallsMatch`).  The proof goes on to show that every step of the three
programs is one of `SphoneExit`, leaves its variables alone or ends the
process; what registers an exit function in `main` is one of the two sessions.
It goes on to `ObjectsReleasedOnce` (`ReleasedOnce`) and `DeviceIsShared` (`DeviceShared`), for
every set of devices.  Both depend on the order of the steps in `main`, which
lemmas show list by list (`RcvProgram`, `SendProgram`, `PhoneProgram`): nothing is attached and no exit
function registered before `rtp_send_session_init` has replaced the sockets that
`memcpy` brought (`CopiesFrom`), the player and the recorder are opened once
(`Opens`), and both are attached to a session with an exit function (`KeepsIn`; not
in `send`).  `ObjectInv`: the two sessions never share a socket when one of
them has an RTP session (`SocketInv`); what a session owns is not freed before its
exit function runs (`ReleaseInv`); a device counts its users exactly, or too many
once opening it has failed (`DeviceInv`); what was attached stays so until it is
freed (`AttachInv`).

**`Rtcp_proofs`**, from the assumptions of `Rtcp` and `Receiver`:
`RoundTripIsMeasured` (`RttMeasured`), `ReportsReachSomeone`
(`ReportsHaveDestination`, which is inductive), `SharedSessionReusable`
(`SessionReusable`, for the RTP and RTCP callbacks together).  The round-trip
time is computed by three roundings, of the time in the sender report, of the
delay at the receiver and of the result; lemmas bound each (`DlsrIsRemainder`,
`Rounding`, `RttRounding`).  `RttInv`: the receiver remembers the
times of a report that was really sent (`ReportKept`), and every receiver
report under way tells those of one (`NetRight`).  The proof found the
range of `RttMeasured` too small when reports take no time at all: rounding may
give 1 ms.

**`Recorder_proofs`**, from `RecorderAssumption`: `RecordersKeepUp` (`KeepsUp`) and
`RecordedInOrder` (`SamplesInOrder`), for every length of packet, file, capture buffer
and recording.  `PaceInv` relates the packets sent to the time of
the next poll.  For the order, `OrderInv` says which sample is the next at the
cursor (`Continues`), over the end of packets and files, and that the first one lies in
the margin before the start (`SinceStart`).  For DirectSound that
needs a bound on how far the reader is behind, or else the device overwrites what is
read: it is a packet behind at most, or its last poll sent nothing
because of the comparison at `sphone_audio_directsound_record.c:177`
(`CaptureLag`); the next poll that sends is then behind by two packets and
its delay (`LagBound`).  Hence the hypothesis `CaptureRoom`,
`2 * P + MaxLate + capture_offset + 2 <= capbuflen`, which is tight: TLC finds
samples out of order in a buffer two bytes shorter.  The code's buffer of 32000 bytes, margin
of 60 ms and packets of 20 ms satisfy it for polls up to 1.9 s late.

**`SpProtocol_proofs`**, from the assumptions of `SpNet`, `SpServer`, `SpClient` and
`SpProtocol`, for every number of clients, connections, entries, sessions,
measurements and lives, every length of queue and, unless a hypothesis says otherwise, every set of
faults.  The actions of `SpProtocol` have many cases each; lemma `Flat` shows once that
every step is one of 22 flat steps, which say what becomes of each variable, and the
invariants are proved over those.  They come in layers, and each uses those below it:

- `Base`: the types, and both ends of every connection.  The server's list, events and
  sockets match, no two entries share a socket, and none waits in the backlog that is
  accepted (`ServerSide`); a client has a connection exactly outside `SS_INIT`, and
  shares it with nobody (`ClientEnds`).  It gives `SpTypeCorrect` (`TypeOK`) and
  `EventsMatch` (`EventsMatchClients`, against the real clients, which send no EXIT and
  connect from a new port each time).
- `ClientCalls`: a client in a call has one session at its address, of the right
  kind, and that session's timeout.  It gives `SessionOfCall` (`CallHasSession`) and
  `TimeoutOfCall` (`CallHasTimeout`), also when the server is lost in a call.
- `Tokens`: on each connection there is at most one of an order, a call and a report,
  and none of them when the server takes the client for idle.  This is why a
  registration that crosses an order does no harm: it leaves `cf_state` alone, and
  only a report, the last token of a call, makes a client idle.
- `AddressOfStarted` (`StartedHasAddress`), from what a step of the server may do
  to an entry (`EntryStep`), under all faults.
- `Identities`, `StartsAddressed`: messages, entry and orders of a client carry its
  identity.  With `Tokens`, `OrdersObeyed` (`OrdersAreObeyed`) under `0 \notin Ids`.  The
  hypothesis is what the code needs: `cfe_find_byid(0)` finds the entries that have not registered
  yet (`sps.c:101`), and `random()%100000` may be 0 (`spc.c:533`); then a
  probe makes a client idle that has no identity, and the order that it gets is not
  its own.  The runs use identities from 1 on.
- `ProbesNamed`, `AddressesRight`: a probe under way that carries the identity of a
  running client comes from the UDP socket of its present run; those of
  earlier runs, whose addresses may have been others, carry identities that nobody
  has any more.  `PublicAddresses` (`PublicAddressRight`), under `0 \notin Ids` and without
  `"same_id"`: with equal identities an address may go to the wrong entry.
- `Orderly`, `Logging`: the only timeout of a client is that of its call, and a
  measurement is in one place, numbered and not yet logged.
  `MeasurementLoggedOnce` (`LoggedOnce`) and `OwnTimeoutWhenUndisturbed`
  (`OwnTimeoutEndsCall`) under `Undisturbed`: the server does not start again, and
  closes no connection of a client that runs (SIGUSR2, silent clients).  The
  condition is where the code stops being right: `spc_state2init` leaves the
  timeout of a call registered, which `bug_timeout` shows to end a later call, and
  a restarted server numbers measurements from 0.  Clients may stop,
  log files fail, connections be reset and identities collide.

**`Concealment_proofs`**, from `ConcealmentAssumption`: `DecoderStaysInBounds`
(`DecoderInBounds`), for every set of lags, of which the run has five.  The enhancer
follows a chain of segments through its buffer, each searched near an estimate and
found up to 13 quarters of a sample from it (`FoundNear`).  That is less
than the shortest period, so a chain moves in one direction only (`NextSegment`) and is
cut off by the tests in `getsseq` before a search leaves the buffer (`EstimateRange`).
`DecInv` adds the range of the lag that bad frames hand on.

Only model-checked:

- liveness (`InputServed`, `ErrorExits`, `CallsEnd`), which is out of reach of the prover;
- `G711Accurate`, `FrameKept`, `BlockDecoded`, `CodebooksAgree`, `ChannelsKept`,
  `LengthsAgree`: bit operations and recursive operators,
  which the prover does not take, over tables that are finite anyway.

## 6. Not modelled

- iLBC: LPC analysis, LSF quantization, gains and the search of the start state, which
  are floating-point arithmetic without state or choice of their own.
- Settings and ioctl calls of audio devices; the players of a file and of
  `/dev/audio`, which only write; the mapped buffer of `/dev/audio`, which is
  written to at a position without the address of the buffer
  (`sphone_audio_devaudio_play.c:122`) and so cannot work.
- Fields of RTCP reports that no code reads; BYE, which is never sent.
- SIP: data structures without behaviour yet; `sip_phone`, which uses them.
- The WIN32 branches of the event loop, option parsing, debugging output, the log
  checker `spc_sanity`, `queue`.
- Datagrams shorter than a header and short TCP reads: messages are units.
- Signals that interrupt a list walk of the server: SIGUSR2 acts between
  callbacks in `SpServer`.
- Pacing of test packets, echoes and log contents of `spc`.

## 7. Plan

1. Done: receiver and stream with their proofs, event loop, exit handling,
   measurement protocol, shared-buffer playout; RTCP, applications and shared
   devices, recorders, coding and iLBC.
2. Done: proofs of all safety properties that the runs check, but for those of coding
   (section 5).
3. Possible extensions: `npackets` and echoes of `spc_send.c`; short reads of TCP;
   lists of `sip/` once they have behaviour; the lengths of `Coding` apart from its
   bit operations, so that `LengthsAgree` can be proved.
