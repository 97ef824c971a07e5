# TRTP file transfer in TLA+

The repository holds two programs. `sender` reads a file and sends it over UDP
in packets of 512 bytes numbered modulo 256; `receiver` puts them back in order
and writes them to its standard output. Selective repeat: the receiver buffers
what arrives out of order and acknowledges with the number it expects next; a
network node that is congested may cut the payload of a packet and set its TR
bit, and the receiver then halves its window and answers with a NACK. These
modules model the two loops, the arithmetic they share and the network between
them, and say what makes a transfer correct.

## Inventory

| component | source (`src/src/`) | state | operations | modelled by |
|---|---|---|---|---|
| sender loop | `read-write/read_write_sender.c` | `window` (list, size, head, tail), `eof_reached`, `lastPkt`, `lastRst`, `global_pkt` | `fill_window`, `send_final_pkt`, `resent_pkt`, `update_window`, `ack_window` | `Sender` |
| receiver loop | `read-write/read_write_receiver.c` | `window`, `eof_reached`, `eof_seqnum`, `resent_ack` | `receive_data`, `linkedList_add_increasing`, `send_troncated_nack`, `decrease_window`, `flush_file`, `send_ack` | `Receiver` |
| window arithmetic | both | none, reads `window` | `can_ack_window`, `seqnum_in_window`, `is_in_sender_window`, `is_in_window`, `is_seqnum_greater`, window sizes | `Window`, `WindowSlide`, `WindowProofs` |
| packet codec | `packet_implem.c` | one buffer per program, never cleared | the setters, `pkt_encode`, `pkt_decode` | `Codec`; `Packet`, the verdicts only |
| connection set-up | `read-write/wait_for_client.c` | none | `wait_for_client` | `RConnect`, `RTimeout` of `Receiver` |
| network | external; `tests/test.sh` runs the programs through `link_sim` | datagrams in flight | loss, cut, corruption, delay | `Link` |
| linked list | `linkedList/linkedList.c` | nodes, `head`, `tail`, `size` | add and remove at both ends, the walks of the two loops | `LinkedList`, `PacketList`; sequences in the loops |
| forward error correction | `fec.c`, `fill_window`, `deal_with_fec` | `fec->pkts`, the group of the last packets | the group in `fill_window`, `ack_window` and `update_window`, `fec_generation` | `Sender`, `Codec` |
| logs and statistics | `log.c`, counters | counters | | not modelled |
| command lines, sockets | `sender.c`, `receiver.c`, `create_socket.c`, `real_address.c` | none | | not modelled |

The two loops meet only through datagrams. Inside a program everything is
sequential, and a turn of a loop calls the handlers in a fixed order; what
makes the program hard is what happens between two turns of the two loops:

- the receiver acknowledges cumulatively, and its acknowledgements are lost,
  delayed and overtaken, while the sender judges them with numbers that wrap;
- the receiver's window is carried by every response, so that a delayed one
  shrinks the sender's window: packets already sent are dropped from the
  sender's list, read again from the file, and the end of the file with them;
- the final packet is an empty data packet that may overtake data and whose
  acknowledgement is sent once before the receiver exits;
- `write`, `read`, `pread` and `poll` may fail halfway through a handler;
- with the option `-c` the sender keeps pointers to the last packets sent, to
  compute their parity, while responses delete packets of its list;
- lists are emptied with their pointers left as they were, and buffers are reused
  with what earlier packets left in them.

What makes each part correct: the tests on numbers accept the right numbers at
every position of the window; the sender forgets no chunk that is not written;
the receiver's list stays sorted, bounded, and is flushed in order; the output
is at all times the beginning of the file and is complete when the receiver
ends by itself; both programs end; no deleted packet is read; a list answers as a
sequence would; a packet that is accepted is one that was sent. `PROJECT.json` lists the hazards, each at its
line, and the properties that watch over them.

## Modules

- **Window** The functions on sequence numbers. Each is the C function with the
  fields of `window_pkt_t` it reads as parameters. The literals 256, 31
  (`MAX_WINDOW_SIZE`) and 4 (in `decrease_window`) are `SeqSpace`, `MaxWindow`
  and `MinShrink`.
- **WindowSlide** The receive window on its own. Its states are all the
  positions and sizes a window takes, so that the invariants state, for every
  window, which numbers the tests of `Window` accept.
- **Packet** What a packet carries. The payload is the index of the chunk of
  the file, or `Empty`; a checksum is whether it matches.
- **Link** The network. External to the repository: it can do what UDP does and
  what `link_sim` in `tests/test.sh` does. `Faults` names the kinds of fault
  a run allows and `MaxFaults` how many; losses through a full channel and, with
  `Depth` > 1, reordering are not counted. Socket errors and local failures
  (`pread`, `stdout`, `timeout`) draw on the same count.
- **LinkedList** `linkedList.c` and the code of the two loops that follows pointers
  itself, on a memory of nodes: `malloc` may return an address that was freed, and
  a pointer that was never set (`next` of a node added at the end, `head` and `tail`
  of a new list) holds anything. An access to a node that does not exist sets
  `stray`. The code around an operation is part of it: `flush_file` removes the head
  and then compares its freed address with the tail.
- **PacketList** What the lists promise: a sequence of numbers and the answer of
  each operation. `LinkedList` refines it.
- **Codec** The setters, `pkt_encode`, `pkt_decode` and `fec_generation`, on
  the fields of the header, the bytes of the payload and the buffer a program both
  writes and reads packets in. `Packet` is checked against it.
- **Sender** One action per step of the loop: `SPoll` (poll), `SFill`,
  `SFillUnread` and `SEndOfFile` (a turn of the loop in `fill_window`), `SParity`
  (its parity packet, when `fec_enable`), `SFinal`
  (`send_final_pkt`), `SResend` (`resent_pkt` and the test that gives up), `SRead`
  and `SReadFails` (read, `update_window`, `ack_window` and the end). `HeadAfterAck`
  is `seqnumHead` after `ack_window`: it follows every removal but the one that
  empties the list, and so stays at the last packet's number, or at the old one.
- **Receiver** `RConnect`, `RTimeout` (`wait_for_client`), `RReceive` (one turn
  of the inner loop: `receive_data`, then `flush_file`, then the end), `RAck`.
  `RNack`, `RIgnore`, `RDrop` and `RStore` are the branches of
  `receive_data`, `RIgnore` also taking the parity packets it ignores; each ends in
  `Flush`, as the code always does. Once
  `eof_reached && seqnumHead == eof_seqnum` the code reads nothing and only
  flushes; invariant `EofInList` shows that the test is never true.
- **Transfer** Composes them. Each step is of one program or of the network.
  `Timely` says whether timers are longer than the round trip.
- **FileTransfer** What a transfer promises its users, in three variables.
- **TransferProperties** The properties, and the refinement mapping to
  `FileTransfer`.
- **Lemmas** What the proofs share: remainders and distances, elements of sequences
  after `Append`, `Tail`, `SubSeq`, `InsertAt` and `RemoveAt`, the least element of a
  set of naturals.
- **WindowProofs** Theorems about `Window` and `WindowSlide`.
- **LinkedListProofs**, **CodecProofs** Theorems about `LinkedList` and `Codec`.
- **TransferProofs** Theorems about `Transfer` under every fault.
- **FinalProofs** The theorem about the numbers of final packets.
- **ReceiverProofs** Theorems about the receiver's list, while no number wraps.
- **InOrderProofs** Theorems about a transfer of any length over a network that loses
  and corrupts, but keeps the order.

A definition named in a comment as a mutant is a variant of the definition next
to it with a plausible bug. No specification uses it: it shows that
the property it is listed with in `PROJECT.json` would notice.

### Abstractions

- A UDP socket is taken to be writable at all times (`POLLOUT`).
- There are no clocks. A timer may run out at any moment (`Timely = FALSE`) or
  only when nothing is in flight (`Timely = TRUE`), which is a `TIMEOUT` longer
  than the round trip. Time stamps and the round-trip statistics, which nothing
  reads back, are left out.
- The option `-c` is the constant `fec_enable`; the 4 of `fec->pkts` is `GroupSize`.
  `fec` holds, for each packet of the group, its place in the sender's list, 0 once
  it was deleted. A parity packet's payload is left to `Codec`.
- A chunk is an index. Two chunks of a real file may be equal; treating them as
  different is the strict reading.
- The receiver's `seqnumTail` is left out: only the disabled `deal_with_fec`
  reads it.
- When `read` fails on a pending error the sender decodes what its buffer holds, with
  length (size_t) -1. `StaleReadIsEmpty` of `Codec` shows that only a packet
  without payload can be accepted then: a response that was just handled, which
  changes nothing the second time, or an empty packet the sender has just made, which
  `SReadFails` handles as type `DATA` with any window.
- The receiver's socket has no errors of its own: the first one would come once the
  sender has exited, when nothing is transferred any more.
- `resent_ack` starts FALSE, though 1 in the code: the receiver reads the datagram
  `wait_for_client` has seen before it may acknowledge.
- Where the code reads a deleted packet, follows the pointer of an emptied list or
  writes behind `fec->pkts`, the sender goes to a state `"ub"` of its own, with no
  guess of what follows.
- `global_pkt` is an integer. In the code it is unsigned of 64 bits, and `update_window`
  (line 395) subtracts every packet it drops, also those a failed write left uncounted:
  below 0 it is a number near 2^64, whose offset `pread` refuses, so that
  `SFillUnread` sends an empty packet. `transfer_local` follows no state whose count is below
  -1 (the constraint `FewUncounted`), as it has no lower limit once the receiver has left
  and refuses datagrams. The proofs do not use this bound.
- `Codec`: a checksum is the data it was computed from, so that two different data
  never share one; a byte is a bit; time stamps are left out. `LinkedList`: numbers
  are compared as they are, the window's order being the subject of `Window`; the
  receiver's `seqnumTail` is left out there too.

## Runs

Each run is a module and a `.cfg`. The properties are in `WindowSlide`, `LinkedList`,
`Codec` and `TransferProperties`.

| run | bounds | what it shows |
|---|---|---|
| `window_slide` | the real 256, 31, 4 | the tests on numbers decide the right sets for all 7936 windows, and sizes stay in range |
| `linked_list` | 3 addresses, 3 numbers | no operation touches a freed node, nothing is lost or counted wrong, and the list refines `PacketList` |
| `packet_codec` | payloads of 2 bytes at most | encode then decode gives the packet back over any rest in the buffer; one damaged field or byte, a cut or a failed read never yields another packet; `Packet` agrees; the buffer is large enough |
| `transfer_reorder` | window 3, 3 chunks, channels of 2 read in any order, early timers, one loss, truncation or error of the sender's socket | safety and the refinement of `FileTransfer`, with stale acknowledgements, shrinking senders, final packets that overtake, and packets whose write failed |
| `transfer_faults` | window 5, threshold 4, 8 chunks, two losses, truncations or corruptions, header included | windows really grow over the threshold and are halved; no chunk is forgotten, and no final packet gets the number of a chunk although windows shrink with one in the list; the receiver's list may outgrow its halved window, never the largest one and one packet more |
| `transfer_local` | window 3, 3 chunks, parity of groups of 2, one loss or failure of `pread`, `write`, `read`, the output, the start, or refused datagrams | the output stays a beginning of the file, also when it is cut short |
| `transfer_ends` | numbers modulo 8, 9 chunks, window 3, parity of groups of 2, two losses or corruptions, fair | across the wrap the file is delivered, in order, both programs end, and no parity is computed from a deleted packet |

The bounds are the smallest at which the cases happen: a window of three lets two
packets arrive out of order behind a missing one and can be halved to one; the
threshold of `decrease_window` is kept at its real value in `transfer_faults`; in
the runs with a wrap the file is longer than the sequence space, and the ratio
between sequence space and window is tighter than the real 256 to 31.
Reordering and wrap are not combined: a message delayed for more than a
whole sequence space defeats any protocol with numbers of eight bits. Three addresses
give a list with a first, a middle and a last node and an address to reuse when one is
freed. A payload of two bytes is one that may be whole or short. A group of two is
complete inside a window of three with a packet to spare, so that acknowledgements
come in the middle of a group, after it and for a part of it. Every run
with an ending transfer sets `CHECK_DEADLOCK FALSE`, as both programs stop.

Some runs show a disagreement between what the repository says and what the
code does:

| run | violated | what happens |
|---|---|---|
| `claim_intact` | `Integrity` | one truncation: the packet 0 is sorted in front of the numbers before the wrap (`is_seqnum_greater` compares without unwrapping when the window ends at 255); packets left behind it are duplicates of what is resent, and are written when their numbers come round again. The same behaviour occurs with window 5 and threshold 4 |
| `claim_all_acked` | `AllAckedMeansDelivered` | when `ack_window` empties the list it leaves `seqnumHead` at the number of the last packet, so an acknowledgement of all the packets before that one, arriving late, releases the final packet |
| `claim_gives_up` | `SenderEnds` | truncation, and the receiver's last acknowledgement lost: `lastPkt` was reset, the list is full, the sender resends for ever |
| `claim_empty_file` | `Delivered` | the final packet of an empty file has number 1, the receiver waits for 0 |
| `claim_parity` | `ParityCovers` | the fourth byte of a parity is read in the third payload, so that the parity restores nothing; today no receiver uses it |

Other behaviour of the code that contradicts no text, or too little to need a run:

- `update_window` drops packets that stay in `fec->pkts`. With truncations and `-c` a
  response with a larger window then lets `fill_window` complete the group, and
  `fec_generation` reads deleted packets: `NoUB` fails with two truncations in
  `transfer_ends` (`"cut"` added to `Faults`) and, for the real group of four, with
  three in a window of 7 at the threshold of 4.
- After a failed write of a parity packet `fec->i` stays 4 and the next packet is
  stored behind the array; after a failed `pread` the parity may read through `NULL`.
  `transfer_local` takes both steps, to `"ub"`, where its property says nothing any
  more of the sender.
- When the write of the final packet on an emptied list fails, `resent_pkt` follows
  dangling pointers: `transfer_reorder` takes this step, to `"ub"` too.
- A failed `pread` is sent as an empty packet, which the receiver takes for the end of
  the file: `Complete`, and with it `NothingForgotten`, do not hold with `"pread"` in
  `Faults`, and `transfer_local`, which has it, checks `Integrity` alone.
- `lastRst > MAX_RESENT_LAST_PKT` lets the final packet be resent five times, and
  `MAX_RESENT_FIRST_PKT` is read nowhere: without a receiver the sender never ends.

### Fairness

`FairSpec` is used by the runs of liveness. Both programs are loops that a
scheduler runs (weak fairness of the sender's steps, of connecting, acknowledging,
receiving). `poll` reports a response that keeps being there, and a timer that may
run out does, even though in between the loop does other things: strong
fairness, as the loop passes these points again and again. What is sent
to a program that has exited leaves the network. Faults are never fair, and there
are at most `MaxFaults` of them: with infinitely many losses nothing ends.

## Proofs

`WindowProofs` proves for every sequence space, largest window and threshold
that satisfy `WindowAssumption` what `window_slide` checks for 256, 31 and 4. The
assumption is that the window plus the two numbers more that `is_in_window` lets in
is less than the sequence space; the real constants satisfy it.

- `WindowTypes`: head and size stay in range. It is inductive by itself;
  halving keeps a size above the threshold at one or more.
- `WindowAcceptsExactly`, `WindowNackRange`, `WindowRefusesOldAcks`,
  `WindowReleasesUnlessAsked`, `WindowOrders`: the C code compares numbers by
  cases, the properties measure distances modulo `SeqSpace`. Lemmas `ModBelow`,
  `ModAbove` and `ModNegative` remove the modulo by case, `AheadUnwrap` relates
  the two ways to measure (the distance of `x` from the head is
  `Unwrap(head, x) - head`) and `Forward` does it for the end of the window;
  each theorem is then linear arithmetic by cases, under the type invariant.

`TransferProofs` proves, for every sequence space, window, threshold, file length,
channel capacity, depth of reordering, limit of resends and set and number of faults:

| theorem | assumed besides the constants' types | what it says |
|---|---|---|
| `TransferTypes` | | `TypeOK` |
| `TransferSenderBound` | | unacknowledged packets fit in the window last told |
| `TransferNoUB` | no write fails (`socket`, `refused` not in `Faults`), no `-c` | the sender reads no deleted packet: `resent_pkt` never walks an empty list |
| `TransferIntegrity` | `FileLen < SeqSpace` | the output is the beginning of the file |

The assumptions are needed: `claim_intact` breaks `Integrity` with a file longer
than the sequence space, a failed write of the final packet on an empty list leads
to `"ub"`, and so do truncations with `-c`. The other three theorems hold with and
without it. None of the properties is inductive. The invariant `Inv` adds:

- for `Integrity`, that wherever a packet with a payload is (the sender's list,
  a message whose header is intact, the receiver's list) its number is that of its
  chunk, and that the number the receiver expects is the length of its output. Then
  the packets `flush_file` takes, whose numbers follow each other from the head,
  carry the chunks that come next, and cannot reach the wrap (`FlushedChunks`). A
  corrupted header is covered because `pkt_decode` refuses it, and a failed `pread`
  because its packet has no payload;
- for `NoUB`, that the list is not empty while a final packet was sent, nor after
  it was just filled or walked (`SenderControl`): `ack_window` empties it only with
  the end of the program or before the end of the file is known;
- for `FinalProofs`, that `eof_reached` implies that all was read: `update_window` moves
  `global_pkt` back only when it resets the flag;
- for the group of packets (`GroupInv`), that it is no longer than `GroupSize`, that its
  places are in the list, that it is empty without `-c`, and that it is not while its
  parity is due;
- for the types, that the list is not empty when a response is read, since
  `update_window` then reads the number of its last packet, and that it fits
  in the window.

`InitInv` and one lemma per action (`FillInv`, `FinalInv`, `ResendInv`,
`HandleResponseInv`, `FlushInv`, `NackInv`, `StoreInv`, ...) prove it inductive; steps
of one program leave the invariant of the other alone (`Invariance`).

### The numbers of final packets

`FinalProofs` proves `TransferFinalAfterData`: for a file shorter than the sequence
space, when `pread` does not fail, `Spec /\ []NoTurn => []FinalAfterData`, under all
other faults and any reordering. The property is about packets, not about the flag
`lastPkt`: a final packet that a shrunk window leaves in the list while it clears
`eof_reached` and `lastPkt` is one of them, and so is the second one that follows it.

`send_final_pkt` takes the number after `seqnumTail`, which `update_window` sets to the
number of the last packet it keeps, while it decrements `global_pkt` once for each
packet it drops, final packets too, which never incremented it. That both stay in step
is `CountedInv`: the next chunk to read is never beyond the one that follows a chunk of
the list with all the packets after it counted. So if `global_pkt` is at the end of the
file after a shrink, the last packet kept is the last chunk or a final packet
(`LastPacket`), and with `TailInv` the next final packet comes behind the file. `PlacesInv`
carries this to the two other places of a packet, the data channel and the receiver's
list.

`NoTurn` (`global_pkt` not below 0, `seqnumTail` not at the last number) is needed
because every final packet that is sent after a shrink takes one number more, and every
one dropped moves `global_pkt` back once too far: with enough of both the number starts
again from 0, or `pread` is asked for an offset before the file. It is an assumption on
behaviours, not on the constants; every state of `transfer_faults` satisfies it. Without
the assumption on `pread` an empty packet takes the number of a chunk
and cuts the output short.

### The receiver's list

`ReceiverProofs` adds `BufferInv` to `Inv`: the distances of the listed numbers from
`seqnumHead` increase strictly, are at least 1 (nothing that could be flushed stays)
and at most `MaxWindow + 1` (what `is_in_window` lets in), and a final packet seen is
in the list. A packet that is let in keeps the order if `is_seqnum_greater` compares its
number right with those listed (`Comparable`), flushing moves every distance down by the
number of packets flushed, and halving takes a beginning. The steps are
proved for whatever makes numbers comparable, and used twice:

| theorem | assumed | what it says |
|---|---|---|
| `ReceiverSorted`, `ReceiverBufferBound`, `ReceiverEofInList` | `NoWrap`: `FileLen + MaxWindow + 1 < SeqSpace` | order, bound and end of file, under all faults and reorderings |
| `InOrderBuffer` | `InOrder`, below | the same across the wrap |

`NoWrap` is needed: `claim_intact` is the list out of order at the wrap. The first
statement of `BufferBound`, one more than the current window, was false, as the proof
of the halving step and then TLC showed: packets kept beyond a halved window come on
top of those of the window it grows to. The bound that holds is one packet more than
the largest window.

### Transfers of any length

`InOrderProofs` is about the sequence numbers wrapping any number of times. `InOrder`
assumes `2 * MaxWindow + 1 < SeqSpace` (63 and 256 in the code), a file that is
not empty, and of the network that it keeps order (`Depth = 1`) and does not cut
(`"cut"`), nor damage a header so that it looks cut (`"header"`), and that `pread` and
the sender's socket do not fail. Losses and corruptions of any number, early timers,
duplicates, a failing output, a receiver that starts late or never, and the
option `-c` are all there.

| assumption | without it |
|---|---|
| `FileLen > 0` | `claim_empty_file`: the two sides never agree on the first number |
| no `"cut"`, no `"header"` | `claim_intact`: a halved window brings the list out of order at the wrap |
| no `"pread"` | the file is cut short: `Complete` fails |
| no `"socket"`, `"refused"` | `resent_pkt` walks an emptied list: `NoUB` fails |
| `Depth = 1` | `claim_all_acked`; and a datagram late by a turn of the numbers is taken for another |
| `2 * MaxWindow + 1 < SeqSpace` | a duplicate from the last window is taken for a packet of the next one |

| theorem | what it says |
|---|---|
| `InOrderIntegrity` | the output is the beginning of the file |
| `InOrderComplete` | and the whole file at the receiver's end, if the output does not fail |
| `InOrderNothingForgotten` | the sender still has what is not written |
| `InOrderAcked` | "All packets ack": the file is written, and the receiver has ended (`AllAckedMeansDelivered`, which a reordering network breaks) |
| `InOrderBuffer` | `RcvSorted`, `BufferBound`, `EofInList` |
| `InOrderNoUB` | no deleted packet is read, parity groups included |
| `InOrderKeepsPromise` | the transfer implements `FileTransfer`, if the output does not fail: `Init` maps to its `Init`, each step to one of its steps or a stutter |

The invariant `InOrderInv` gives the packets their unwrapped numbers, the index of
the chunk and `FileLen` for the final packet. The sender's list is `First .. Top - 1`, the
receiver waits for `Expected`, and

- `First <= Expected <= Top`, the output is `0 .. Expected - 1`, and the receiver's
  list holds packets in `Expected + 1 .. Top - 1` (`SentInv`, `ExpectedInv`, `OutInv`,
  `StoredInv`);
- a data packet in flight is below `Top` and at most `MaxWindow` behind `Expected`
  (`NearInv`), which needs that no datagram before it in the channel is a window ahead
  of it (`CloseInv`): so a number in flight stands for one packet, and an old one is
  never in the window;
- an acknowledgement in flight is for `First .. Expected`, not before the one in front
  of it, and its window is between the sender's and the receiver's (`AnswerInv`,
  `GrowingInv`): so it releases what it acknowledges, the sender's window never shrinks,
  and the final packet is not dropped.

TLC has checked `InOrderInv` as an invariant of small instances with a wrap and losses
before it was proved.

### The linked list

`LinkedListProofs` proves `TypeOK`, `NoStray`, `Shape` and the refinement of
`PacketList`, for any finite set of addresses and of numbers. `ListInv` says that there is a
sequence `p` of `size` different addresses that are all that is allocated, from `head`
along `next` to `tail`, which is not looked behind (`Chain`). `NoStray` is no
invariant by itself: without the chain a walk may end anywhere. Each operation is
proved twice from a `Chain(p)`: what it leaves is the chain with a node more or less,
and the numbers along it change as in `PacketList`. The walks of the C code
are recursive functions; that the walk arrives at the i-th node after i - 1 steps
is proved from the least counterexample (`LeastNatural`), a set of naturals, so that
no induction principle with an operator parameter is cited.

### The codec

`CodecProofs` proves the six properties of `Codec` for every payload size that the 16
bits of the length field allow, every window, every number and every set of cuts. The invariant
`CodecInv` says the buffer holds a header and cells, and that what was just decoded
is related to what was sent (`Outcome`): the same packet when nothing was damaged, and
an error or the same packet, TR bit excepted, otherwise. `Decodes` turns the sequence of
tests of `pkt_decode` into the condition under which none of them fails (`Accepted`);
`EncodedIs` and `DecodedPkt` are the two directions; that a completed cut is no forgery follows
from the second checksum standing where the length says, or from the TR bit.
`CodecAssumption` bounds `MaxPayload` by 2^16 - 2, as the length 2^16 - 1 is what a
failed `pread` becomes, which the setter must refuse; 512 in the code.

### Model-checked only

Liveness (`Delivered`, `SenderEnds`), which is out of the prover's reach under fairness;
`Complete`, `NothingForgotten`, `AckedMeansWritten` and the refinement of `FileTransfer`
where the network reorders, cuts or fails otherwise than `InOrder` says; `NoUB` with
`-c` and reordering.

## Plan

1. Done: window arithmetic, the two loops with the parity option, the network, the
   abstract promise, the linked list and its refinement, the codec, the theorems
   above.
2. Next, proofs: `Complete`, `NothingForgotten`, `AckedMeansWritten` and the refinement of
   `FileTransfer` over a network that reorders, for files whose numbers do not wrap
   (`NoWrap`). Late responses then shrink the sender's window, so that the
   invariant needs what `update_window` drops and reads again: the list is a beginning of
   what was sent, and an acknowledgement is never beyond what the receiver expects.
3. The same with truncations, which add halved windows and NACKs.

## Not modelled, and why

The socket calls and command lines run once in a straight line and have no state;
logs and statistics are output only. `deal_with_fec` stands behind an `if (1)`,
`resent_nack`, `fill_pkt` and `MAX_RESENT_FIRST_PKT` are used nowhere: they cannot
change a transfer. `linkedList_remove_middle` is called by nothing either, but is an
operation of the list and in `LinkedList`. The test programs are not part of the
system.
