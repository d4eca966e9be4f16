# fec_kcp in TLA+

TLA+ models of the program in `src/`, the TLC runs that check them on small
instances, and machine-checked proofs of the properties that matter most for
every instance.

fec_kcp carries the messages of two applications over UDP. Each talks to its end
over a UDP socket of its own. Between the ends KCP (an ARQ
protocol, vendored as `src/lib/kcp`) numbers, acknowledges and resends; a
forward-error-correction layer (`src/lib/libfec`) below it adds redundant
packages, so that a lost package need not be resent. Each end is one thread
around `epoll`.

```
 application   <- UDP socket, epoll ->    Relay: samples/fec_kcp_client.cpp, _server.cpp
      |   ikcp_send  ikcp_recv  ikcp_update (timer branch of the loop)
     KCP           ikcp.c                 ReliableStream <= KcpLink; KcpClock
      |   udpout = ikcp_output            ikcp_input (once per package)
     FEC   FecEncodeManager, FecEncode    FecDecode + TimeOutMap
      |                                        Datagram <= FecEncoder + FecDecoder
      |   erasure code: rs.c, fec.c            TimeoutMap, RsCode + GaloisField
     UDP  sendto / recvfrom
```

`A <= B` reads: B is shown to implement the abstract specification A.


## 1. The system

### Components

| component | code | state | operations |
|---|---|---|---|
| KCP | `lib/kcp/source/ikcp.c` | send and receive queues and buffers, serial numbers, remote and congestion window, pending acknowledgements, window probes, RTO, clock | `ikcp_send`, `ikcp_recv`, `ikcp_input`, `ikcp_flush`, `ikcp_update`, `ikcp_check` |
| FEC encoder | `lib/libfec/source/fec_encode.cpp`, `source/fec_manager.cpp` | packages collected for the next code word, longest length, `seq`, timer | `Input`, `Output`, `FlushUnEncodedData`, `FecEncodeUpdateTime`, and the manager that sends what they produce |
| FEC decoder | `lib/libfec/source/fec_decode.cpp` | per `seq`: packages, count, longest, ready flag; `ready_seqs_nums_`; the output unit and where `Output` stands | `Input`, `DealUnEncodeData`, `Output`, `SearchForNextReadySeq`, `ClearTimeoutDatas` |
| TimeOutMap | `lib/libfec/source/timeout_map.cpp` | a list of keys in order of update, a hash map to time and list position | `Add`, `Update`, `Remove`, `GetTimeOutElements` |
| erasure code | `lib/libfec/lib/source/rs.c`, `fec.c` | field tables, generator matrices per (k, n) | `fec_init`, `fec_new`, `rs_encode2`, `rs_decode2` |
| event loops | `samples/*.cpp` | epoll set, timer, reply address, the application's address | application's socket -> `ikcp_send`; network socket -> `FecDecode` -> `ikcp_input`; timer -> `ikcp_update`, flush, `ikcp_recv` -> application |
| FecKcp | `source/fec_kcp.cpp` | a class around the same parts; neither sample uses it | `DataInput`, `KcpSendFunc` |
| set-up, random numbers, byte order, clock, allocator, log | `source/fec_kcp_common.cpp`, `lib/libfec/source/{random_generator,common}.cpp`, macros of `ikcp.c` | none that lasts | |

### How they interact

* All calls of one end are made by one thread; nothing is shared between ends
  but the network. So a handler is one step, and the interleavings that matter
  are between the two ends, the network and the timers.
* `ikcp_flush` calls `udpout` for each datagram it has filled, which goes to
  `FecEncodeManager::Input`, and, when the code word is complete, to `sendto`
  for each package of it. The result is ignored on the way back.
* A package that is received goes to `FecDecode::Input`; as long as that or
  `Output` returns a positive length the sample calls `Output` and gives what
  it copied to `ikcp_input` with **that** length, which may be larger than the
  datagram KCP put in. KCP finds zeros behind it.
* The timer calls `ikcp_update`, and `FecEncodeUpdateTime` to learn whether
  packages that wait for the rest of their word shall go out unencoded; then it
  reads what KCP has ready and sends it to the application. The timer descriptor
  is never read, so after the first time its branch runs on every turn.
* The server sends to the address its last `recvfrom` stored, the client to the
  one it was started with. The client sends answers to the address its
  application last wrote from.
* Three clocks are read, all of them `gettimeofday`, which may be set back: KCP's
  milliseconds (a 32-bit counter that wraps), the encoder's, the decoder's.

### What is hard here

The network loses, repeats and reorders; the window a sender acts on is what
*some* datagram said, not the last; a shut window is reopened by a message that
may be lost. The FEC layer decodes late packages into groups that come and go
by a clock, reuses `seq` numbers, and its `Output` is a small state machine
spread over five members. The erasure code works in place. Times are compared by
the sign of a 32-bit difference, while the wall clock they come from may jump. The
addresses of both loops are overwritten by whatever came last. The full list, with
the lines where each hazard bites and the property that watches it, is
`PROJECT.json` under `hazards`.

### What makes each component correct

* KCP: what is read is what was written, in order, once, message by message;
  buffers are bounded; no segment is dropped by its sender before the receiver
  has it; the two ends never wait for each other for good; what is sent is
  delivered and acknowledged.
* FEC layer: out comes only what went in, whole; any K packages of a word
  suffice; what waits in the encoder leaves it; nothing comes out twice unless
  the network repeats it later than the decoder remembers; the decoder is
  drained after each package.
* TimeOutMap: list and map agree; exactly the expired keys are returned.
* Erasure code: the tables are a field; the packages of a word are an
  interpolation code; any k of n packages recover the data; it terminates.
* KCP's clock: flushes, resends and probes come neither too early nor too late,
  across the wrap of the counter and after a set-back; `ikcp_check` agrees with
  `ikcp_update`.
* Event loops: answers find the client, wherever it has moved; nothing that
  arrived stays unread; an answer has an addressee when it is read.


## 2. The modules

| module | stands for | notes |
|---|---|---|
| `ReliableStream` | what KCP promises two applications | abstract specification |
| `KcpLink` | two ends of `ikcp.c` and a network between them | composes both ends |
| `KcpLinkProofs`, `KcpBufferProofs` | theorems of `KcpLink` | section 5 |
| `KcpClock` | the clock of one KCP control block: `ikcp_update`, `ikcp_check`, timeouts, probes | `KcpLink` takes any timing, `KcpClock` says which there is |
| `KcpClockProofs` | theorems of `KcpClock` | section 5 |
| `Datagram` | what KCP needs of the layer below it | abstract specification |
| `FecEncoder` | `FecEncode` + `FecEncodeManager` | operators over the encoder's state |
| `FecDecoder` | `FecDecode` under the loop of the samples | extends `FecEncoder` for the wire format |
| `FecLink` | encoder, network, decoder, both timers | composes the two |
| `FecLinkProofs` | theorems of `FecLink` | section 5 |
| `Relay` | the two event loops, their sockets and addresses | uses KCP and FEC as what `ReliableStream` and `Datagram` promise |
| `RelayProofs` | theorems of `Relay` | section 5 |
| `TimeoutMap` | `TimeOutMap` | `FecDecoder` uses its promise, not its list |
| `TimeoutMapProofs` | theorems of `TimeoutMap` | section 5 |
| `GaloisField`, `RsCode` | `fec.c`, `rs.c` | `FecDecoder` uses its promise (`Decoded`) |
| `GaloisFieldProofs`, `RsCodeProofs` | theorems of `GaloisField` and of `RsCode` | section 5; the second extends the first |
| `MC*` | instances for TLC | values of the function-valued constants |

The layers meet in abstract specifications rather than in one large model:
`KcpLink`'s network (lose, delay, reorder, repeat, pad with zeros) is the
service that `Datagram` states, and `FecLink` implements `Datagram`; what
`FecDecoder.Decoded` takes for granted of `rs_decode2` is `RsCode!Recovered`
(`DecodeRestores` proves it for every code);
what `FecDecoder.Cleared` takes for granted of `GetTimeOutElements` is
`TimeoutMap!CollectsAllExpired` (`AllExpiredFound`).

### KcpLink

One function `Ends -> ...` per member of `IKCPCB`, under its name in the code.
`Send`, `Recv`, `Flush`, `Input` and `InputPush` are `ikcp_send`, `ikcp_recv`
(with `ikcp_peeksize`), `ikcp_flush` and `ikcp_input`; `Deliver`, `Duplicate`
and `Lose` are the network. What to know when comparing with the code:

* **Time** is not a number. A segment's `resendts`, the RTO and the probe
  interval only decide *when* a segment is resent or a probe is sent; `Flush`
  takes any subset of `snd_buf` as overdue and lets the probe timer be due or
  not. Every timing the code can produce is included.
* **Serial numbers** are naturals: no wrap at 2^32.
* **`Input`** is split: the header part of a datagram (window, una,
  acknowledgements, congestion window) is one step, each PUSH segment another,
  and the end does nothing else in between (`Idle`). All segments of a datagram
  were written by one `ikcp_flush` and so carry the same `wnd` and `una`, and
  acknowledgements precede data in it, so the order of effects is the code's.
* **Padding.** A recovered package may have zeros behind it. With 24 or more of
  them `ikcp_input` reads another header, finds a wrong `conv` or command and
  returns before it updates the congestion window: the parameter `padded`.
* **Fragments** carry the name of their message, their `frg` and their length:
  enough to tell any two of them apart, so that `InOrder` is about content.
* The **MTU packing** of `ikcp_flush` is kept, with sizes in bytes, since losses
  hit datagrams and not segments.
* `nodelay`, fast resend and stream mode are off in this program and left out.
  The branch that caps `cwnd` at `rmt_wnd` (ikcp.c:888-891) is kept though the
  test before it makes it unreachable.

### KcpClock

The part of `ikcp.c` that reads the time, for one end. A time is a number below `W`
(2^32 in the code) and wraps; `Diff` is `_itimediff`. `FirstUpdate` and `Update` are
`ikcp_update` with the flush in it as far as it looks at the clock: which segments
are overdue and what becomes of their `rto` and `resendts`, and the probe timer.
`UpdateSetBack` is an `ikcp_update` before which the wall clock was set back, once in
a behaviour. `Input` and `InputAck` are what `ikcp_input` does to the window, the
segments and the round-trip estimate. Between two calls of `ikcp_update` the time does
not move for KCP, as in the code (`kcp->current`).

* `flushed`, `waited` and `probed` are histories in *true* time: `for` is how long
  something has been waited for, `back` how far the clock was set back meanwhile.
  The properties compare the two.
* Leaps of the clock ahead are not told apart from time that passes.
* `Check` is `ikcp_check`. It may answer "now" because a segment is overdue while
  `ikcp_update` would not flush yet; that is early, not late.
* nodelay is 0 as in the program. `dead_link` only sets a `state` that nothing reads,
  so `MaxXmit` is a bound of the model, not of the code.

### Relay

One process per end; its handlers are the three branches of the loop. `HandleApp` is
the application's socket, `HandleNet` the network socket with `FecDecode`,
`ikcp_input` and what they leave, `HandleTimer` the timer branch: a flush (or none, if
`ikcp_update` finds that it is not due), then the loop around `ikcp_recv`. What lies
between the ends is taken from the layers below: `out` is a stream of messages, the
peer has the first `got` of them, a flush carries all that is not acknowledged.

* `addr_` is the server's reply address, `addr` where the client's datagrams come
  from now: a `Rebind` (NAT, roaming) changes it. A failed `recvfrom` leaves zeros.
* A flush to no address fails unnoticed and its acknowledgements are gone.
* An empty message ends the loop around `ikcp_recv`, and so does a failed send of the
  server (`fails`), which loses the message it was to send.
* The remote application only answers (`asked`): it learns the server's port from
  the first message. The client calls `sendto` with a result of `ikcp_recv` that may
  be 0 or less; what this sends is not modelled.
* `connection_info_t` is not initialized before the first `recvfrom`; it is not used
  before either.

### FecEncoder, FecDecoder, FecLink

`held` is `data_pkgs_` up to `cur_data_pkgs_num_`; `KcpOutput` is `udpout` with
all that the manager does in it: if the word is complete, all packages go to
`sendto` in order until one fails (`n` counts those that did not). `Timer` is
the timer branch of the loop. In the decoder the maps keyed by `seq` are one
function `groups`; `left` is the variable `len` of the sample's loop, so
`left > 0` means the loop is inside and the next action is `Hand`, that is
`Output` followed by `ikcp_input`.

* A coded package on the wire names its word (`word`) and carries `plen`, the
  length in its header, and `size`, the length it was padded to. Decoding gives
  the word's packages if all K packages are of one word and names nothing that
  was sent (`id = 0`) if words were mixed.
* `Output` chooses the word to go on with as the code does: the last one if it
  is (again) ready, else the lowest ready `seq` whose longest package fits.
* Packages that `Input` rejects for their size or header change no state and are
  left out; an allocation that fails likewise.
* `seq` numbers come round. Between two words with one `seq` there are 65519 others,
  and KCP, which sends at most 32 segments per 100 ms, takes minutes for them, while a
  package lives seconds and the decoder remembers a word for 10 s after its last
  package, if only it is drained now and then (`swept`). `Paced` says just that, and
  is all that is assumed of the pace.
* The encoder's clock goes on by any of `Ticks`; 0 is a clock that was set back, which
  `FecEncodeUpdateTime` refuses.

### TimeoutMap

The list is represented by its inverse: `place[key]` counts from the back, which
is what the iterator kept in the hash map stands for. The clock is
`gettimeofday`; whether it may be set back is a constant.

### GaloisField, RsCode

An element of the field is the set of bits that are one. The tables are defined
by the code's recurrences. In `RsCode` the straight-line parts (`fec_new`,
`rs_encode`, `fec_decode`) are operators, and the loops whose intermediate states
matter (`shuffle`, `invert_mat`) are one action per iteration. A package is one
field element: all operations of the code treat the bytes of a package
separately with the same coefficients. `fec_decode`'s `new_pkt` buffers, the
in-place row operations and the column swap at the end of `invert_mat` are kept.


## 3. The runs

States are distinct states found by TLC; every passing run is exhaustive.

| run | module, cfg | asks | states |
|---|---|---|---|
| `kcp_one_way` | `MCKcpLink`, `KcpOneWay.cfg` | one application sends messages of one and of two fragments (10 and 80 bytes, MSS 76): types, `InOrder`, `FullQueueHasMessage`, `CwndTracksIncr`, `DatagramFitsMtu`, and that `KcpLink` implements `ReliableStream` | 240 k |
| `kcp_shut_window` | `KcpShutWindow.cfg` | five segments, a receive queue of two: full queue, held `rcv_buf`, stale windows: `NoSegmentAbandoned`, `BuffersBounded`, `NothingDeliverableHeld` | 610 k |
| `kcp_live` | `KcpLive.cfg` | three segments, a window that shuts and must be probed open: `EverythingArrives`, `SenderDrains` under fairness | 14 k |
| `kcp_clock` | `MCKcpClock`, `KcpClock.cfg` | a counter that wraps, calls on time and late, a set-back that stops flushes and one that restarts them: `FlushedInTime`, `ResentInTime`, `ProbedInTime`, `BacksOff`, `CheckNeverLate` | 792 k |
| `fec_link` | `MCFecLink`, `FecLink.cfg` | flushes, failed sends, `seq` wrap, repeated and late packages, expiry, GroupLimit reached: all safety properties of the layer and `Datagram` | 1.7 M |
| `fec_reuse` | `FecReuse.cfg` | three words for two `seq` numbers, a clock that is refused: `NotMixed`; `LeavesEncoder`, `LoopEnds` under fairness | 752 k |
| `relay` | `MCRelay`, `Relay.cfg` | two questions and an answer, any of them empty; a client that moves, failed `recvfrom`s and sends: `AnswersHaveAddressee`; `AnswersReturn`, `NothingStuck` under fairness | 66 k |
| `timeout_map` | `MCTimeoutMap`, `TimeoutMap.cfg` | three keys, clock that only goes on | 3.4 k |
| `rs_code` | `MCRsCode`, `RsCode.cfg` | all erasure patterns of the codes (1,2), (2,3), (3,5), (4,6) over GF(16), three data values per package | 30 k |
| `fec_padding` | `FecPadding.cfg` | finding 1: `LengthOfPackage` is violated | |
| `fec_late` | `FecLate.cfg` | finding 2: `IndexInRange` is violated | |
| `clock_back` | `ClockBack.cfg` | finding 3: `NewestFirst` is violated | |

Two ends that both send are too many states for an exhaustive run; that direction of
interest, acknowledgements that ride with data, is covered by the theorems of section
5, which hold for both.

### What the properties say

*KCP.* `ReliableStreamSpec` is the strongest: each step hands out one whole next
message of the peer or changes nothing an application sees. `InOrder` is its
content without message boundaries.
`NoSegmentAbandoned` is what recovery rests on: a segment out of `snd_buf` is at
the receiver, even though acknowledgements and `una` arrive late, twice and out
of order, and segments beyond the window are dropped. `BuffersBounded` holds
although the window acted upon may be stale. It is *not* true, and not claimed,
that no segment in flight lies beyond the receiver's window: an old datagram
brings an old, larger window back; such a segment is dropped unacknowledged and
sent again. `FullQueueHasMessage` rules out the one state in which both ends
would wait for ever; it relies on `ikcp_send`'s refusal of messages of `WND_RCV`
fragments or more. `NothingDeliverableHeld` says both copies of the loop that
moves `rcv_buf` to `rcv_queue` run to the end. `CwndTracksIncr` relates the
congestion window in segments to that in bytes, kept at five places.

*KCP's clock.* `FlushedInTime`: a flush comes with the first call `INTERVAL` after the
last one. A set-back of less than `JUMP` (10 s) stops all flushes until the clock has
caught up, one of more restarts the timer; so the delay is the set-back, but at most
`JUMP` and one call. `ResentInTime` and `ProbedInTime` have no such cap: `resendts`
and `ts_probe` wait for the whole set-back, however long. Both count from the last
flush, since only a flush looks. `BacksOff` is the other side, that nothing is resent
too early: a segment sent n times pauses for n minimal timeouts, though the estimate
falls while it waits and the counter wraps. `CheckNeverLate` relates two functions
that repeat each other's arithmetic.

*Relay.* `AnswersReturn` is as strong as the code permits: when the server has a wrong
address and the client nothing to say, the answer waits for the client's application
to send something; KCP resends to the wrong address meanwhile. `NothingStuck` holds
because the timer branch runs for ever, not because of the datagram that brought the
message. `AnswersHaveAddressee` is why `local_client` is always filled before it is
used: the remote application answers only what the client sent.

*FEC.* `WentOutOnce` accounts for every datagram: held, in one word, sent bare or
dropped by a failed send. `AnyKSuffice` is about the words that are still on their way
(of an older word with the same `seq` the decoder may know nothing); it, `Drained` and
`IndexInRange` are the consistency of the decoder's five-member output machine;
`Drained` is also why `Input` never meets a group that is ready, which the code does
not test.
`NotMixed` is what `seq` reuse endangers: the decoder does not forget by the clock but
only when it is drained or knows too many words, and yet what it remembers of a `seq`
is never of an older word than the package that comes.
`AtMostOnce` holds as long as a package lives no longer in the network than the
decoder remembers a word since its last package (10 s in the samples).

*Erasure code.* `HalfInverted` is the loop invariant of the in-place inversion;
it also shows that for these codes, with `shuffle` before it, the pivot is always
on the diagonal, so that the search for another one never succeeds nor fails.
`WordOnPolynomial` compares the generator with Lagrange interpolation:
`invert_vdm`'s shortcut (fec.c:605-611) is right only because the first point is 0.

Each property has a mutant in `PROJECT.json`: a plausible slip in a modelled
definition (a dropped guard, a missing loop, an index off by one) under which
TLC finds the property violated by the same run.

### Bounds, and why they are enough

* `MaxFrags` (fragments an application sends, 3 to 5), windows of 1 to 3
  segments: enough for a window to fill, to shut and to reopen twice, for
  segments to arrive out of order inside, at and beyond the window, and for
  slow start, its end and a timeout. Real windows (32 and 128) differ only in
  size; the theorems of section 5 hold for all.
* `MaxNet = 2` datagrams in flight: with repetition and loss, two are enough for
  any one to be overtaken by any other; an old datagram may stay for as long as
  it likes. `MaxAcks` (1 or 2) bounds acknowledgements between two flushes.
* `MTU = 100`, `OVERHEAD = 24`: a datagram holds two small segments or one full
  one, or an acknowledgement more or less, so the four tests against the MTU go
  both ways.
* FEC: K = 2, R = 1 are the samples' own. Two words of two packages each let
  words interleave; `GroupLimit = 1` (50 in the code) lets the clearing in
  `Input` happen, `Timeout = 1` that in `Output`. `SeqLimit = 3` makes `seq` wrap
  from any start; `MaxPkgs = 6` in `fec_reuse` sends three words for two `seq` values.
* KcpClock: `W = 32`, the constants in the order of the code's (`INTERVAL` <= `JUMP`,
  timeouts and probes longer than an interval); the counter starts two short of the
  wrap and goes round more than once. Calls come 1 or 3 apart (more and less than
  `INTERVAL` = 2); set-backs of 1 (flushes stop) and 6 (more than `JUMP` and one
  call). One segment suffices since segments meet only in the estimate, which any
  round trip of `Ages` changes (the run takes 2, and -1, which a set-back makes and the
  code ignores). `ClockAssumption` asks that nothing is waited for as
  long as half the counter's range (24 days).
* Relay: two questions and one answer, each empty or not; two addresses;
  `MaxFaults = 2` moves or failures; `MaxNet = 2` datagrams, so that one of an old
  address is overtaken by one of the new.
* `TimeoutMap`: three keys give every order of two and one between; times to 4
  with a limit of 1.
* `RsCode`: GF(16) instead of GF(256). The code takes any GF_BITS from 2 to 16 and
  the recurrences are the same; the theorems of section 5 hold for all of them. What
  they assume of the field's polynomial, that it is primitive, TLC checks for the
  program's own (`Gf256IsPrimitive` in `MCRsCode`). (2,3) is the samples' code; the others add two
  redundant packages, swaps of `shuffle` in a chain, and k = 1.
* Deadlock checking is off where the bounds let the system stop (all packages
  sent, the last datagram lost, the decoder done). `timeout_map` never stops and
  is checked for deadlock.

### Fairness

`kcp_live` takes from the code: each event loop calls `ikcp_recv` and finishes the
datagram it parses (weak fairness), and calls `ikcp_update` for ever, with a clock
that goes on, so that again and again a flush comes when every unacknowledged
segment is overdue and the probe timer, if it was armed, has expired. (In the
code the RTO is at most 60 s and a probe waits at most 120 s, both finite.) That
flush is strongly fair since the bound on the network can disable it for a while.
Of the network: a datagram leaves it in the end, and of infinitely many chances to
deliver one that carries the same news (the next segment, an acknowledgement of
something new, an open window, a probe) it takes one. Without that nothing can be
promised. `FairSpec` has no duplication: it is a finite nuisance for liveness, and
the safety runs have it.

`fec_reuse` takes: the timer fires for ever with a clock that goes on again and again
(it may be refused in between), and a loop around `Output` is not left in the middle.
`LeavesEncoder` says that the encoder is empty again and again, which is the same as that
it empties whenever it is not; `LoopEnds` says so of the loop, and `EverythingArrives` of
what is still under way.

`relay` takes: the timer branch runs again and again and flushes again and again, as
`FlushNotMissed` says it does (strong, since the bound on the network can disable it);
a datagram leaves the network; and not all datagrams that bring news to an end are
lost, which is again what one has to ask of a network. An end need not start.

`rs_code` is one thread that runs on.


## 4. Findings

1. *Length of a prepared package* (`fec_padding`). `FecDecode::Input` returns the
   length of the **longest** package of the word, while `Output` then copies the
   first, and fec_decode.h:37-38 promises the length of the prepared package. A
   recovered package also counts as long as the longest. KCP is called with zeros
   behind its datagram; `Datagram` allows for it and `KcpLink` has it as `padded`.
2. *Output goes on behind the end of a word* (`fec_late`). `last_process_seq` and
   `last_process_index` are left as they are when a word has been handed out. If
   the decoder then forgets the word (10 s) and K of its packages come once more,
   `Output` reads at index K of a vector of K.
3. *The list of TimeOutMap is not in order of time* (`clock_back`) once the wall
   clock is set back, against the comment at timeout_map.cpp:50; the walk then
   stops before expired keys.

Noticed while reading, not modelled as findings: `ikcp.h:387` gives the default
receive window as 32, it is 128; `FecEncodeUpdateTime` answers 1 even when nothing
waits; `FecKcp::KcpSendFunc` tests a stale `ret` (fec_kcp.cpp:85);
`FecEncodeManager::Input` and `new_listen_socket` have no `return` on success; the
timer descriptor is never read, so that `epoll_wait` returns at once for ever after.


## 5. What is proved

With TLAPS, for all values of the constants that satisfy the assumptions of the
modules (`KcpAssumption`: windows positive, a header shorter than the MTU, the bounds
natural numbers; `MapAssumption`: finitely many keys; `ClockAssumption`: the constants
positive and ordered as in `ikcp.c`, half the counter's range longer than anything
waited for; `RelayAssumption`; `EncoderAssumption`, `DecoderAssumption` and
`LinkAssumption`: at least one data package, datagrams not empty; `FieldAssumption`,
`PrimitiveAssumption`: every element of the field but 0 is a power of alpha, which is
what the table `allPp` is a list of; `CodeAssumption`: k and n as `fec_new` accepts them),
and for behaviours of any length:

| theorem | module | statement |
|---|---|---|
| `Types` | `KcpLinkProofs` | `Spec => []TypeOK` |
| `StreamInvariant` | `KcpLinkProofs` | `Spec => []StreamInv` |
| `StreamInOrder` | `KcpLinkProofs` | `Spec => []InOrder` |
| `SegmentsKept` | `KcpLinkProofs` | `Spec => []NoSegmentAbandoned` |
| `ImplementsStream` | `KcpLinkProofs` | `Spec => ReliableStreamSpec` |
| `NeverStuckFull` | `KcpLinkProofs` | if the reader's buffer holds every message accepted, `Spec => []FullQueueHasMessage` |
| `MemoryBounded` | `KcpBufferProofs` | `Spec => []BuffersBounded` |
| `NothingHeld` | `KcpBufferProofs` | `Spec => []NothingDeliverableHeld` |
| `CwndIsIncr` | `KcpBufferProofs` | `Spec => []CwndTracksIncr` |
| `NoDatagramTooLong` | `KcpBufferProofs` | `Spec => []DatagramFitsMtu` |
| `ClockTypes` | `KcpClockProofs` | `Spec => []ClockTypeOK` |
| `CheckInTime` | `KcpClockProofs` | `Spec => []CheckNeverLate` |
| `FlushNotMissed` | `KcpClockProofs` | `Spec => []FlushedInTime` |
| `ResendNotMissed` | `KcpClockProofs` | `Spec => []ResentInTime` |
| `PausesGrow` | `KcpClockProofs` | `Spec => BacksOff` |
| `ProbeNotMissed` | `KcpClockProofs` | `Spec => []ProbedInTime` |
| `AnswersAddressed` | `RelayProofs` | `Spec => []AnswersHaveAddressee` |
| `LinkInvariant` | `FecLinkProofs` | `Spec => []LinkInv` |
| `FecTypes` | `FecLinkProofs` | `Spec => []FecTypeOK` |
| `DrainedWhenLeft` | `FecLinkProofs` | `Spec => []Drained` |
| `OutOnce` | `FecLinkProofs` | `Spec => []WentOutOnce` |
| `NeverMixed` | `FecLinkProofs` | `Spec => []NotMixed` |
| `IsDatagram` | `FecLinkProofs` | `Spec => DatagramSpec` |
| `AnyKAreEnough` | `FecLinkProofs` | `Spec => []AnyKSuffice` |
| `IndexStaysInRange` | `FecLinkProofs` | `Lifetime <= Timeout` gives `Spec => []IndexInRange` |
| `HandedOnce` | `FecLinkProofs` | `Lifetime <= Timeout` gives `Spec => []AtMostOnce` |
| `ListAgrees` | `TimeoutMapProofs` | `Spec => []ListMatchesMap` |
| `InOrderOfTime` | `TimeoutMapProofs` | `~Backward` gives `Spec => []NewestFirst` |
| `AllExpiredFound` | `TimeoutMapProofs` | `~Backward` gives `Spec => CollectsAllExpired` |
| `InPlace` | `RsCodeProofs` | `Spec => []PackagesInPlace` |
| `ShuffleSucceeds` | `RsCodeProofs` | `Spec => [][ShuffleSwap => pc' = "shuffle"]_vars` |
| `FieldTables` | `GaloisFieldProofs` | `TablesAreField` |
| `DecodeInvariant` | `RsCodeProofs` | `Spec => []DecodeInv` |
| `WordsArePolynomials` | `RsCodeProofs` | `Spec => []WordOnPolynomial` |
| `HalfwayInverted` | `RsCodeProofs` | `Spec => []HalfInverted` |
| `AnyPackagesAreEnough` | `RsCodeProofs` | `Spec => []OnlyTooFewFail` |
| `DecodeRestores` | `RsCodeProofs` | `Spec => []Recovered` |

For KCP that means any window sizes, also different from the ones the
runs use, any number of datagrams in flight and messages sent, any pattern of loss,
repetition and reordering, any timing.

**InOrder.** It is not inductive: nothing in it says that `rcv_queue` or a segment in
flight holds what the sender meant. `StreamInv` adds `StreamSplit` (the history of
the sender is what was numbered, then `snd_queue`), `SegmentsGenuine` (a segment in
`snd_buf`, in a datagram, in `rx` or in `rcv_buf` carries the fragment its number
stands for) and `ReceivedPrefix` (what was consumed, then `rcv_queue`, is the peer's
stream up to `rcv_nxt`). `SegmentsGenuine` survives because histories and numbers
only grow (`CarriesStable`); `ReceivedPrefix` because the loop that fills
`rcv_queue` takes the segment numbered `rcv_nxt` and no other (`MoveStream`). There
is one lemma per action and one step per conjunct it can disturb.

**NoSegmentAbandoned.** A segment leaves `snd_buf` on an acknowledgement or `una`.
So `AckInv` adds `AcksTrue`: an acknowledgement, in `acklist` or in flight, is of a
segment that its sender *got* (below `rcv_nxt` or in `rcv_buf`), and `una` in flight
is at most the present `rcv_nxt`. `Got` is stable (`MoveGot`, `RecvGot`,
`InputPushGot`), which is what makes an arbitrarily old acknowledgement harmless;
and a segment is acknowledged only if the window takes it, which is where a
receiver that acknowledges before it looks at the window would break the proof.

**ReliableStreamSpec.** From `StreamInv` step by step: `Send` is `Accept`
(`Fragments` numbers a message's fragments down to 0, which is what the abstract
message is), `Recv` is `Deliver` (what it takes from `rcv_queue` is a whole message,
since a prefix of the peer's stream that ends in a fragment 0 ends where a message
does), and every other action leaves both histories alone.

**BuffersBounded** and **NothingDeliverableHeld** share `BufferInv`. The window a
sender acts on may be any old one, so the bound needs `WindowsTrue`: every window
known or in flight was the room of some receive queue at some time, and none of those
exceeds `WND_RCV`. `MoveBounds` says of the loop that moves `rcv_buf` to `rcv_queue`
that it stops only when nothing fits or nothing follows.

**FullQueueHasMessage.** `QueueInv`: the peer's stream is a sequence of whole messages
(`WholeMessages`), and what was consumed ends where one of them does (`AtBoundary`). So
the queue begins with a message's first fragment (`HeadOfQueue`); the message has fewer
fragments than the queue holds, since `ikcp_send` refuses one of `WND_RCV` or more, and
hence its last one is there. `MessageLength` is a recursive function;
`LengthExists` and `FragmentsSum` say that it has values, and which. The hypothesis is
that the application's buffer holds the longest message accepted: with a shorter one the
message is never taken and the window stays shut.

**CwndTracksIncr.** `CwndInv` says it by multiplication, `Whole(cwnd, incr)`, and adds
`ssthresh >= 2`: above the threshold one datagram adds less than a segment to `incr`, so
that the single `cwnd++` keeps up (`GrownWhole`).

**DatagramFitsMtu.** What a datagram carries is a sum over a set and how a flush fills
datagrams a recursion over what it writes. `SumAny` and `SumPart` say that the sum has a
value and does not depend on the order of the choices, `BytesGrow` what one more part
adds, `PackedFits` that no filling exceeds the MTU when each part alone fits
(`Writable`), `FlushWritable` that each does: no fragment is longer than `MSS`
(`StreamFits`), and no two segments that are flushed have one number.

All lemmas about the operators (`Fragments`, `Packed`, `Grown`, `Moved`,
`MoveAvailable`) are stated once and cited. The induction theorems of the library take
an operator as a parameter; `Induct` states induction over a *set* of naturals instead,
which the provers can instantiate, and that is what reasons about the recursive
functions. No assumption other than `KcpAssumption` is used, but for the hypothesis of
`NeverStuckFull`.

**The KCP clock.** No proof looks at a time, only at differences. `DiffTrue` and
`DiffUnique` say that `_itimediff` is the one number between -W/2 and W/2 that equals
the true difference modulo W, `DiffMovesTo` what becomes of it when time moves on;
from there all is arithmetic without a modulus. Each property has an invariant that
adds what is *left* to what was waited for: `OnTime` (time waited + time to the next
flush stays within `INTERVAL` and the capped set-back), `Timed` (for each segment,
time waited + time to `resendts` = its timeout, but for the set-back; and it is not
overdue for longer than the last flush is past), `Probing` (the same for `ts_probe`,
and what the probe timer carries over when the window opens and shuts between two
flushes). Their common part is that the distance to a deadline never leaves half the
range, which `DueMoves` and `ProbeMoves` get from `OnTime`: that is the circle the
32-bit comparisons of the code rest on. `CheckNeverLate` is a fact about states
(`CheckSound`) and needs types only.

**AnswersHaveAddressee** is inductive with `Silence`: as long as the client has not
heard from its application, nothing was sent, so the remote application was not asked
and the server has nothing to say.

**The FEC layer.** The properties of the decoder are not inductive: nothing in them
says what a slot holds. `LinkInv` has two halves. `AirInv` is about sender and network:
what is in a package is true (`CodedTrue`), a datagram has one place in one word
(`PlaceInv`), and of two words with one `seq` one is past, that is the decoder was last
drained so late that it had to forget it (`SeqInv`, from `Paced`). `DecInv` is about the
decoder: each group is of one word in the network, still short of packages or whole
(`GroupsInv`), and the loop around `Output` is in one of three places (`OutInv`): idle,
with one unencoded package, or in the one ready group, and then the next package fits
into the length it was announced with. `SameWord` joins the halves: a group that a living
package finds is of that package's word, since otherwise one of the two would be past.
From there `WithPieces` and `DecodedWhole` are what `Input` needs, `CodedHands` what
`Output` needs; each step of the decoder is first reduced to its effect (`JoinMore`,
`JoinLast`, `HandsRaw`, `HandsOn`, `HandsEnd`), and the invariants are carried over the
effects.

The words may use a `seq` again as often as they like, and `NeverMixed` and `IsDatagram`
ask nothing of `Lifetime` and `Timeout`. `IndexStaysInRange` and `HandedOnce` need
`Lifetime <= Timeout`: `HistInv` says that what came out of a word that may still come is
remembered as done (`Remembered`), and so is the `seq` that was handed out last
(`LastInv`); when the decoder forgets a group, all packages of its word are dead
(`GoneIsDead`). Finding 2 is what becomes of it without the hypothesis.

**TimeOutMap.** `ListMatchesMap` is inductive together with the types: taking a key
out closes the places above it (`ClosedListing`), putting one in front gives it the
place after all others (`FrontListing`); both lemmas also say that the order of the
other keys stays. `NewestFirst` needs `StampsPast` besides, that no key carries a time
in the future, and that is what a clock set back destroys (finding 3): hence the
hypothesis `~Backward`, without which the run `clock_back` refutes the theorem.

**PackagesInPlace** is inductive with `ShuffleInv`: `index` is one to one, and in
`shuffle` the places before `i` have settled. `NthRank` shows that `Receive` starts it:
there is exactly one package of each rank among those that came (a one-to-one map
between finite sets of one size is onto). A swap settles the place it swaps *to* and
disturbs none that had settled (`SwapShuffle`), and it never meets a conflict
(`NoConflict`), so `shuffle`'s error return is dead code.

**The field's tables.** `Times_alpha` is injective because the polynomial's constant
term is 1 (`PpHasOne`, a consequence of `PrimitiveAssumption`); so the powers of alpha
below `GF_SIZE` are all elements but 0, each once (`AlphaBijective`), and repeat from
there (`AlphaPeriod`). With `ModnnIsMod` a product adds logarithms modulo `GF_SIZE`
(`MulPowers`), from which come the laws of multiplication (`MulLaws`, `InverseLaws`).
Distributivity is the one that does not: it holds for alpha by the definition of
`Times_alpha` and then power by power (`Distributive`). `MulIsProduct` compares with the
multiplication of polynomials.

**Encoding.** A polynomial of degree below d is taken as the function of the rows that
has its values at their points; `Poly(d)` is the set of these functions. The points are
distinct (`PointLaws`), so one with d roots is 0 (`Vanishing`). `ProductNext` is the loop
of `invert_vdm` that multiplies the factors `y - Point(i)`, with its shortcut for the
first point; `Division` and `HornerValue` are the ones that divide by a factor and take
the quotient's value. Together they say that a column of the inverse holds the
coefficients of the polynomial that is 1 at one point and 0 at the others
(`InverseColumnLaws`, `Interpolation`), and hence that a word is the values of one
polynomial of degree below k (`EncLaws`, `WordInv`). `WordsArePolynomials` adds that
Lagrange's formula is the same polynomial.

**Decoding.** `HalfInverted` is not inductive: it speaks of one word, and nothing in it
says that the next column has a pivot. `InvertInv` says the same of *every* polynomial
of degree below k. Some polynomial is 0 at every package the matrix takes but that of
the next column, and not 0 at the one that row has to make (`OneColumn`; the packages are
of distinct rows, by `ShuffleInv`); so the diagonal element of that row cannot be 0. The
search for a pivot therefore takes the diagonal (`OnDiagonal`), and the search elsewhere,
the column swap at the end and both error returns of `invert_mat` are never needed here.
`PivotTimes` and `EliminatedTimes` say what dividing a row and subtracting it does to
what the rows make of any data; `DecodeRecovers` is the last step, `fec_decode`'s own
sums.

### What stays with TLC

* Liveness (`EverythingArrives`, `SenderDrains`, `LeavesEncoder`, `LoopEnds`,
  `AnswersReturn`, `NothingStuck`, `Terminates`): fairness and ENABLED are out of the
  prover's reach.
* Nothing else of what the passing runs check: every invariant, `BacksOff`,
  `CollectsAllExpired` and the two refinements are theorems. That an assumption on the
  constants holds of the program's own values is for TLC, too: it evaluates every
  `ASSUME` at the values of the runs, and `Gf256IsPrimitive` for the field in use.


## 6. What is not modelled, and why

* **Serial numbers that wrap.** They are compared like times, and `KcpClock` shows how
  that works; in `KcpLink` they are naturals, since a wrap takes 2^32 segments.
* **A restarted peer.** `conv` is a constant, so a restarted end is taken for the
  old one: its segments are old ones to the other end, which acknowledges and drops
  them. Nothing in the code detects it, and nothing it says promises otherwise.
* **Start-up.** `init` is one step of `Relay` that succeeds or fails; the system calls
  it makes come before there is a state.
* **Flow control towards the applications.** Nothing asks `ikcp_waitsnd`, so while the
  window is shut `snd_queue` grows with every datagram; there is no bound to state.
* **Bytes**: header encoding, byte order, allocation failures, logging.
* `FecKcp`, a class around the same parts that no program creates: its `DataInput` and
  `KcpSendFunc` are the samples' loop and `FecEncodeManager::Input` again, and how it
  would be driven (it has no operation that flushes the encoder) is not in the code.
* `ikcp_setmtu`,
  `ikcp_nodelay`, `ikcp_wndsize`, fast resend, stream mode, which are never turned
  on; `fec_free`, which is never called.
* Error paths that the modelled state never reaches: the test of `index >= n` in
  `build_decode_matrix`, the rejection of malformed packages in `Input`.


## 7. Plan

Done, in this order: `KcpLink` with `ReliableStream`; the FEC layer with `Datagram`;
`TimeoutMap`; the erasure code; the proofs of type correctness, order and retention
for KCP, and those of `TimeoutMap`; `KcpClock` and its proofs; `Relay`; the reuse of
`seq` numbers (`fec_reuse`); the refinement proof of `KcpLink`, its buffers, datagrams
and congestion window; the proofs of the FEC layer; those of the erasure code, its field,
generator and decoder. All invariants the runs check are theorems now. Next:

1. **Composition** in `RelayProofs`: what of `AnswersReturn` is safety (an answer on its
   way is for a client that asked), from the promises of `ReliableStream`.
2. **Recovery by any K** stated once for `FecDecoder` and `RsCode` together:
   `AnyKAreEnough` and `DecodeRestores` meet in `Decoded`, by name and not by a theorem.
3. **Restart** of one KCP end, as a run that shows what is lost.
