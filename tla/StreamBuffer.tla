---------------------------- MODULE StreamBuffer ----------------------------
(***************************************************************************)
(* The data of one disk stream: the disk thread reads the sample into a    *)
(* ring buffer, and the voice reads it as if it were one line of memory,   *)
(* without knowing where the ring begins.  For this the buffer has wrap    *)
(* space behind its end: a refill that reaches the end goes on into the    *)
(* wrap space, and what it has put there is copied to the beginning.       *)
(*                                                                         *)
(* A sample is a sequence of bytes; its bytes are named by their numbers,  *)
(* from the place where the stream takes over from the RAM cache to the    *)
(* end of the last loop cycle.  A word is the sample value of one channel, *)
(* a frame one word of each channel.  DiskThread has the life of streams;  *)
(* here a stream has been launched for a voice that waits for it.          *)
(***************************************************************************)
EXTENDS Integers, FiniteSetsExt

CONSTANTS
  BufferSize,    \* CONFIG_STREAM_BUFFER_SIZE
  MaxFrames,     \* MaxSamplesPerCycle << CONFIG_MAX_PITCH: the frames that a voice moves
                 \* on in a cycle, at most
  MaxRefill,     \* CONFIG_STREAM_MAX_REFILL_SIZE, in words
  Samples        \* the samples: bytes of a word, channels, and length in frames

Silence == -1    \* zeroes that the voice has written
Stale   == -2    \* what was in the buffer before
NoSilenceYet == -1   \* NO_SILENCE_STREAM_SAMPLES_YET

Interpolated == 6                               \* words, for the interpolator
WrapWords == 2 * MaxFrames + Interpolated       \* BufferWrapElements
wrap_elements == 3 * WrapWords

(* The buffer is made larger, to the next power of two.                    *)
size == LET sz == 3 * BufferSize + wrap_elements
        IN  CHOOSE s \in {2^p : p \in 1..30} : sz <= s /\ (s = 2 \/ s \div 2 < sz)

ASSUME SamplesAssumption ==
  /\ \A s \in Samples : s.bytes \in {2, 3} /\ s.channels \in {1, 2} /\ s.length \in Nat \ {0}
  /\ {BufferSize, MaxFrames} \subseteq Nat \ {0}
(* A refill can hold a frame, and the buffer (whose size is an int) is     *)
(* large enough for FullIsEnough; the configuration has to see to that,    *)
(* the code does not check it.                                             *)
ASSUME SizeAssumption == /\ MaxRefill \in Nat /\ MaxRefill >= 2
                         /\ size \in Nat /\ size > 2 * wrap_elements + 6

VARIABLES
  sample,    \* one of Samples, which never changes
  buf,       \* the bytes of the buffer, with the wrap space
  write_ptr, read_ptr,
  state,     \* of the stream, and of the voice's reference to it
  produced,  \* bytes of the sample that the disk thread has read
  refill,    \* bytes in the buffer for which write_ptr has yet to be moved
  pc,        \* of the voice
  seen,      \* sampleWordsLeftToRead
  frames,    \* how far the voice moves on in this cycle
  left,      \* RealSampleWordsLeftToRead
  consumed,  \* history: bytes of the sample that read_ptr has passed
  hasty      \* history: has the voice acted on the end of the stream without all that
             \* has been read?  The state is set before the data is published, and the
             \* voice reads the amount before it reads the state.
stream == <<buf, write_ptr, state>>
voice  == <<pc, seen, frames, left>>
bufferVars == <<sample, stream, read_ptr, produced, refill, voice, consumed,
                hasty>>

Bytes     == sample.bytes
FrameSize == sample.bytes * sample.channels
SampleEnd == sample.length * FrameSize                  \* in bytes
MaxWords  == MaxFrames * sample.channels + Interpolated  \* maxSampleWordsPerCycle

BufferTypeOK ==
  /\ buf \in [0..size + wrap_elements - 1 -> {Silence, Stale} \cup 0..SampleEnd - 1]
  /\ {write_ptr, read_ptr} \subseteq 0..size - 1
  /\ state \in {"active", "end", "unused"}
  /\ produced \in 0..SampleEnd /\ refill \in 0..size
  /\ pc \in {"waits", "idle", "looked", "synthesizes", "ended", "lost"}
  /\ seen \in 0..size /\ frames \in 0..MaxFrames /\ left \in NoSilenceYet..size /\ consumed \in Nat
  /\ hasty \in BOOLEAN

BufferInit ==
  /\ sample \in Samples
  /\ buf = [i \in 0..size + wrap_elements - 1 |-> Stale]
  /\ write_ptr = 0 /\ read_ptr = 0 /\ state = "active"
  /\ produced = 0 /\ refill = 0 /\ consumed = 0
  /\ pc = "waits" /\ seen = 0 /\ frames = 0 /\ left = NoSilenceYet /\ hasty = FALSE

-----------------------------------------------------------------------------
(* RingBuffer *)

(* size is a power of two, so that & size_mask is % size.                  *)
ReadSpace == (write_ptr - read_ptr + size) % size
WriteSpace == size - 1 - ReadSpace

(* Mutant: the wrap space is never filled.                                 *)
WriteSpaceToEnd_NoWrap == IF read_ptr > write_ptr THEN read_ptr - write_ptr - 1
                          ELSE size - write_ptr - 1
(* Mutant: what is in the wrap space is copied over what is still unread.  *)
WriteSpaceToEnd_Overrun == IF read_ptr > write_ptr THEN read_ptr - write_ptr - 1
                           ELSE size - write_ptr + wrap_elements

(* write_space_to_end_with_wrap()                                          *)
WriteSpaceToEnd ==
  IF read_ptr > write_ptr THEN read_ptr - write_ptr - 1
  ELSE IF read_ptr <= wrap_elements THEN size - write_ptr - 1
  ELSE size - write_ptr + wrap_elements

(* Mutant: a refill may end anywhere in the wrap space.                    *)
Adjusted_Never(cnt, capped) == capped

(* adjust_write_space_to_avoid_boundary()                                  *)
Adjusted(cnt, capped) == IF write_ptr + capped \in size..size + wrap_elements - 1 THEN cnt ELSE capped

(* The buffer with the given bytes behind write_ptr, where the wrap space   *)
(* continues the ring.                                                     *)
Written(bytes) ==
  [i \in DOMAIN buf |-> IF i - write_ptr \in DOMAIN bytes THEN bytes[i - write_ptr] ELSE buf[i]]

(* Mutant: nothing is copied from the wrap space.                          *)
Wrapped_NotCopied(n, b) == b
(* increment_write_ptr_with_wrap(): what is in the wrap space is copied to *)
(* the beginning (and after a hasty voice what is behind it).              *)
Wrapped(n, b) == [i \in DOMAIN b |-> IF i >= write_ptr + n - size THEN b[i]
                                     ELSE IF size + i \in DOMAIN b THEN b[size + i] ELSE Stale]
Advanced(n) == IF write_ptr + n >= size THEN write_ptr + n - size ELSE write_ptr + n

-----------------------------------------------------------------------------
(* The disk thread *)

(* How many frames RefillStreams() orders to read.                         *)
RefillFrames ==
  LET words == WriteSpaceToEnd \div Bytes
      capped == Min({words, MaxRefill})
      amount == Adjusted(words * Bytes, capped * Bytes) \div Bytes
  IN  IF WriteSpace = 0 THEN 0 ELSE amount \div sample.channels

(* ReadAhead() up to the end of Read(): the data is in the buffer and the  *)
(* state of the stream is set.                                             *)
RefillBuffer ==
  /\ state = "active" /\ refill = 0 /\ RefillFrames > 0
  /\ LET n == Min({RefillFrames * FrameSize, SampleEnd - produced})
     IN  /\ buf' = Written([i \in 0..n - 1 |-> produced + i])
         /\ produced' = produced + n /\ refill' = n
         /\ state' = IF produced + n = SampleEnd THEN "end" ELSE "active"
  /\ UNCHANGED <<sample, write_ptr, read_ptr, voice, consumed, hasty>>

(* ReadAhead() makes the data available.                                   *)
Publish ==
  /\ refill > 0
  /\ buf' = Wrapped(refill, buf) /\ write_ptr' = Advanced(refill) /\ refill' = 0
  /\ UNCHANGED <<sample, read_ptr, state, produced, voice, consumed, hasty>>

-----------------------------------------------------------------------------
(* The voice, in the audio thread *)

(* IncrementReadPos(): the voice moves on; a stream that it has emptied    *)
(* after its end is reset, also if there is more to come from the disk     *)
(* thread, and the voice is then lost: it goes on with a stream that is    *)
(* not its own (astray of module DiskThread).                              *)
IncrementReadPos(n) ==
  IF state = "end" /\ n >= ReadSpace
  THEN /\ write_ptr' = 0 /\ read_ptr' = 0 /\ state' = "unused"
       /\ consumed' = consumed + ReadSpace /\ hasty' = (hasty \/ refill > 0)
  ELSE /\ read_ptr' = (read_ptr + Min({n, ReadSpace})) % size
       /\ consumed' = consumed + Min({n, ReadSpace})
       /\ UNCHANGED <<write_ptr, state, hasty>>

(* The voice changes from the RAM cache to the stream, n frames behind its *)
(* beginning.                                                              *)
PickUpBuffer(n) ==
  /\ pc = "waits"
  /\ IncrementReadPos(n * FrameSize)
  /\ pc' = IF state' = "unused" THEN "lost" ELSE "idle"
  /\ UNCHANGED <<sample, buf, produced, refill, seen, frames, left>>

(* A cycle begins with GetReadSpace().                                     *)
Look ==
  /\ pc = "idle"
  /\ seen' = ReadSpace \div Bytes /\ pc' = "looked"
  /\ UNCHANGED <<sample, stream, read_ptr, produced, refill, frames, left, consumed, hasty>>

(* Mutant: what is left includes the silence that has been added.          *)
RealLeft_EachCycle == seen
(* How many words of the sample are left, once its end is known.           *)
RealLeft == IF left = NoSilenceYet THEN seen ELSE left

(* At the end of the stream silence is appended, so that the voice can     *)
(* read all that a cycle may need; it then plays n frames.                 *)
Play(n) ==
  /\ pc = "looked"
  /\ LET silence == IF state = "end" /\ seen < MaxWords THEN (MaxWords - seen) * Bytes ELSE 0
     IN  /\ buf' = Wrapped(silence, Written([i \in 0..silence - 1 |-> Silence]))
         /\ write_ptr' = Advanced(silence)
  /\ left' = IF state = "end" THEN RealLeft ELSE left
  /\ hasty' = (hasty \/ (state = "end" /\ consumed + seen * Bytes < SampleEnd))
  /\ frames' = n /\ pc' = "synthesizes"
  /\ UNCHANGED <<sample, read_ptr, state, produced, refill, seen, consumed>>

(* Mutant: every cycle is taken to have played all that it may.            *)
Remaining_WholeCycle == left - MaxFrames * sample.channels
Remaining == left - frames * sample.channels

(* The cycle is rendered; the voice ends with the last word of the sample. *)
MoveOn ==
  /\ pc = "synthesizes"
  /\ IncrementReadPos(frames * FrameSize)
  /\ left' = IF left >= 0 THEN Max({Remaining, 0}) ELSE left
  /\ pc' = IF left >= 0 /\ Remaining <= 0 THEN "ended" ELSE IF state' = "unused" THEN "lost" ELSE "idle"
  /\ UNCHANGED <<sample, buf, produced, refill, seen, frames>>

Ended == pc \in {"ended", "lost"} /\ UNCHANGED bufferVars

BufferNext == \/ RefillBuffer \/ Publish \/ Look \/ MoveOn \/ Ended
              \/ \E n \in 0..MaxFrames : PickUpBuffer(n) \/ Play(n)
BufferSpec == BufferInit /\ [][BufferNext]_bufferVars

(* Threads run, and a voice moves on now and then.                         *)
FairBufferSpec == /\ BufferSpec /\ WF_bufferVars(RefillBuffer) /\ WF_bufferVars(Publish)
                  /\ WF_bufferVars(Look) /\ WF_bufferVars(MoveOn)
                  /\ WF_bufferVars(\E n \in 0..MaxFrames : PickUpBuffer(n))
                  /\ SF_bufferVars(\E n \in 1..MaxFrames : Play(n))
-----------------------------------------------------------------------------
(* Properties *)

Needed == (frames * sample.channels + Interpolated) * Bytes

(* What the voice takes for the sample is the sample: from the read        *)
(* pointer on, the bytes that were available at the beginning of the cycle *)
(* are the next ones of the sample and stay so during the cycle, also if   *)
(* they go beyond the end of the ring (VoiceBase::Render()).               *)
PlaysTheSample ==
  pc = "synthesizes" => \A i \in 0..Min({Needed, seen * Bytes}) - 1 :
      consumed + i < SampleEnd => buf[read_ptr + i] = consumed + i

(* When the disk thread finds no room for another frame, there is enough   *)
(* for a cycle, although it stops early in front of the wrap space.        *)
FullIsEnough == state = "active" /\ refill = 0 /\ RefillFrames = 0 => ReadSpace >= MaxWords * Bytes

(* The buffer hands over the sample, in time if the disk thread is, unless *)
(* the voice was hasty.                                                    *)
BufferSound == BufferTypeOK /\ (hasty \/ PlaysTheSample) /\ FullIsEnough

(* The voice ends in the cycle in which the last frame is played, neither  *)
(* before nor later (RealSampleWordsLeftToRead); a hasty voice may end      *)
(* earlier, as it has taken the sample to be shorter.                      *)
PlaysToEnd == /\ pc \in {"ended", "lost"} => consumed >= SampleEnd
              /\ pc = "idle" => consumed < SampleEnd \/ (state # "end" /\ consumed = SampleEnd)
EndsAtEnd == hasty \/ PlaysToEnd

(* What the code says where it ends a voice: "if we really reached the end *)
(* of the sample data" (VoiceBase.h:184).  A hasty voice has not.          *)
EndsReally == pc = "ended" => consumed >= SampleEnd

(* Every sample comes to its end: refills never get stuck at the end of    *)
(* the ring, and not even a hasty voice goes on for ever.                  *)
SampleEnds == <>(pc \in {"ended", "lost"})

(* A statement not kept: behind the end of the sample the voice finds      *)
(* silence ("add silence sample at the end", VoiceBase.h:162).  The        *)
(* silence goes where write_ptr is; if the sample has ended in the wrap    *)
(* space, that is the beginning of the ring, and the rest of the wrap      *)
(* space, which the voice reads, is as it was.                             *)
SilenceAfterEnd ==
  pc = "synthesizes" => \A i \in 0..Needed - 1 :
      state = "end" /\ consumed + i >= SampleEnd => buf[read_ptr + i] = Silence
=============================================================================
