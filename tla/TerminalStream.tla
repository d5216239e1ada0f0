--------------------------- MODULE TerminalStream ---------------------------
(***************************************************************************)
(* The output of one terminal session, from append_output to the screen of  *)
(* one viewport.  Producers (the reader thread; for SSH also whoever writes  *)
(* a notice) append under the lock of the buffer and emit outside it.  The   *)
(* viewport attaches: its stream handle queues the chunks that arrive while  *)
(* the snapshot is on its way, and offsets decide what is written.           *)
(* A byte is the offset it has in the output.                                *)
(***************************************************************************)
EXTENDS Absent, Integers, Sequences

CONSTANTS
  Producer,
  MaxBytes,     \* bound: the length of the output
  MaxChunk,     \* bound: the length of a chunk
  RingChunks,   \* MAX_RING_CHUNKS
  TailBytes,    \* MAX_TAIL_BYTES
  MaxFailures   \* bound: how many attaches fail

ASSUME StreamAssumption ==
  /\ MaxBytes \in Nat /\ MaxChunk \in Nat \ {0} /\ MaxFailures \in Nat
  /\ RingChunks \in Nat \ {0} /\ TailBytes \in Nat \ {0}
  /\ None \notin [start : Nat, end : Nat]

VARIABLES
  chunks,     \* TerminalOutputBuffer.chunks
  next,       \* TerminalOutputBuffer.next_offset
  emitting,   \* [Producer -> the chunk it has appended and not emitted, or None]
  wire,       \* terminal:stream events on their way to the webview
  listening,  \* the webview's listener: "no", "asked" or "yes"
  cached,     \* the snapshot the viewport was mounted with, or None
  mounted,
  handle,     \* the stream handle: "none", "attaching" or "attached"
  answer,     \* the answer to terminal_stream_attach on its way, or None
  queued,     \* queuedChunks, and bufferedChunks while the snapshot loads
  screen,     \* the bytes written to the terminal
  last,       \* lastOutputOffset
  rendered,   \* renderedOutput
  failures,   \* attaches that failed
  overtaken,  \* history: a chunk was emitted before one that precedes it
  missed      \* history: nobody listened to a chunk that no snapshot has

backend == <<chunks, next, emitting>>
view == <<screen, last, rendered>>
history == <<overtaken, missed>>
vars == <<backend, wire, listening, cached, mounted, handle, answer, queued, view,
          failures, history>>

Init ==
  /\ chunks = <<>> /\ next = 0
  /\ emitting = [p \in Producer |-> None]
  /\ wire = <<>> /\ listening \in {"no", "yes"}
  /\ cached = None /\ mounted = FALSE
  /\ handle = "none" /\ answer = None /\ queued = <<>>
  /\ screen = <<>> /\ last = 0 /\ rendered = FALSE
  /\ failures = 0 /\ overtaken = FALSE /\ missed = FALSE

MaxOf(m, n) == IF m > n THEN m ELSE n
Bytes(start, end) == [i \in 1 .. end - start |-> start + i - 1]

-----------------------------------------------------------------------------
(* The backend. *)

(* TerminalOutputBuffer::append; the oldest chunks leave a full ring. *)
AppendOutput(p, n) ==
  /\ emitting[p] = None /\ next + n <= MaxBytes
  /\ LET chunk == [start |-> next, end |-> next + n]
         all == Append(chunks, chunk)
     IN /\ chunks' = SubSeq(all, MaxOf(1, Len(all) - RingChunks + 1), Len(all))
        /\ emitting' = [emitting EXCEPT ![p] = chunk]
  /\ next' = next + n
  /\ UNCHANGED <<wire, listening, cached, mounted, handle, answer, queued, view, failures, history>>

(* read_output_chunks_tail: as many of the last bytes as the ring has and the *)
(* limit lets through; anything before them makes it truncated.              *)
TailStart == IF chunks = <<>> THEN next ELSE MaxOf(chunks[1].start, next - TailBytes)
OutputTail == [start |-> TailStart, end |-> next, truncated |-> TailStart > 0]

Overtakes(p) ==
  \E q \in Producer : emitting[q] # None /\ emitting[q].start < emitting[p].start
Missed(p) ==
  /\ listening = "asked"
  /\ \/ answer # None /\ emitting[p].end > answer.end
     \/ handle = "attached" /\ emitting[p].end > last

(* broadcast_output: an event nobody listens for is gone. *)
Emit(p) ==
  /\ emitting[p] # None
  /\ wire' = IF listening = "yes" THEN Append(wire, emitting[p]) ELSE wire
  /\ emitting' = [emitting EXCEPT ![p] = None]
  /\ overtaken' = (overtaken \/ Overtakes(p))
  /\ missed' = (missed \/ Missed(p))
  /\ UNCHANGED <<chunks, next, listening, cached, mounted, handle, answer, queued, view,
                 failures>>

(* stream_attach *)
TakeSnapshot ==
  /\ handle = "attaching" /\ answer = None
  /\ answer' = OutputTail
  /\ UNCHANGED <<backend, wire, listening, cached, mounted, handle, queued, view, failures, history>>

-----------------------------------------------------------------------------
(* The viewport. *)

(* Mutant: every chunk is taken for new. *)
WrittenAlways(v, chunk) ==
  [screen |-> v.screen \o Bytes(chunk.start, chunk.end), last |-> chunk.end, rendered |-> TRUE]

(* writeTerminalChunk: skipped, a redraw after a hole, or what is new of it. *)
Written(v, chunk) ==
  IF chunk.end <= v.last THEN v
  ELSE IF chunk.start > v.last
       THEN [screen |-> Bytes(chunk.start, chunk.end), last |-> chunk.end, rendered |-> TRUE]
       ELSE [screen |-> v.screen \o Bytes(v.last, chunk.end), last |-> chunk.end,
             rendered |-> TRUE]

(* applySnapshot, without the replay that follows it. *)
Applied(v, snapshot) ==
  LET whole == Bytes(snapshot.start, snapshot.end)
  IN IF ~v.rendered
     THEN [screen |-> v.screen \o whole, last |-> snapshot.end, rendered |-> whole # <<>>]
     ELSE IF snapshot.start > v.last \/ snapshot.truncated
          THEN [v EXCEPT !.screen = whole, !.last = snapshot.end]
          ELSE IF snapshot.end > v.last
               THEN [v EXCEPT !.screen = @ \o Bytes(v.last, snapshot.end),
                              !.last = snapshot.end]
               ELSE v

(* replayBufferedChunks: the chunks of q one after the other. *)
Replayed(v, q) ==
  LET after[n \in 0 .. Len(q)] == IF n = 0 THEN v ELSE Written(after[n - 1], q[n])
  IN after[Len(q)]

View == [screen |-> screen, last |-> last, rendered |-> rendered]
Show(v) == screen' = v.screen /\ last' = v.last /\ rendered' = v.rendered

(* The answer to terminal_create, kept for the viewport to come. *)
Cache ==
  /\ ~mounted /\ cached = None
  /\ cached' = OutputTail
  /\ UNCHANGED <<backend, wire, listening, mounted, handle, answer, queued, view, failures, history>>

(* attach: the handle is registered before the command is sent. *)
LoadSnapshot ==
  /\ handle' = "attaching"
  /\ listening' = IF listening = "no" THEN "asked" ELSE listening

Mount ==
  /\ ~mounted
  /\ mounted' = TRUE
  /\ Show(IF cached = None THEN View ELSE Applied(View, cached))
  /\ LoadSnapshot
  /\ UNCHANGED <<backend, wire, cached, answer, queued, failures, history>>

(* The handle is disposed with its queue; a timer attaches again. *)
AttachFails ==
  /\ handle = "attaching" /\ failures < MaxFailures
  /\ failures' = failures + 1
  /\ handle' = "none" /\ answer' = None /\ queued' = <<>>
  /\ UNCHANGED <<backend, wire, listening, cached, mounted, view, history>>

Retry ==
  /\ mounted /\ handle = "none"
  /\ LoadSnapshot
  /\ UNCHANGED <<backend, wire, cached, mounted, answer, queued, view, failures, history>>

(* Mutant: the queue is thrown away, the snapshot being fresher. *)
AttachedFresh ==
  /\ handle = "attaching" /\ answer # None
  /\ Show(Applied(View, answer))
  /\ handle' = "attached" /\ answer' = None /\ queued' = <<>>
  /\ cached' = None
  /\ UNCHANGED <<backend, wire, listening, mounted, failures, history>>

(* subscribeOutput, applySnapshot and replayBufferedChunks, in one callback. *)
Attached ==
  /\ handle = "attaching" /\ answer # None
  /\ Show(Replayed(Applied(View, answer), queued))
  /\ handle' = "attached" /\ answer' = None /\ queued' = <<>>
  /\ cached' = None
  /\ UNCHANGED <<backend, wire, listening, mounted, failures, history>>

Listen ==
  /\ listening = "asked"
  /\ listening' = "yes"
  /\ UNCHANGED <<backend, wire, cached, mounted, handle, answer, queued, view, failures, history>>

(* Mutant: a chunk that no one has subscribed to is dropped. *)
DeliverToSubscriber ==
  /\ wire # <<>>
  /\ wire' = Tail(wire)
  /\ IF handle = "attached" THEN Show(Written(View, Head(wire))) ELSE UNCHANGED view
  /\ UNCHANGED <<backend, listening, cached, mounted, handle, answer, queued, failures,
                 history>>

(* accept: to the subscriber, or queued until there is one. *)
Deliver ==
  /\ wire # <<>>
  /\ wire' = Tail(wire)
  /\ queued' = IF handle = "attaching" THEN Append(queued, Head(wire)) ELSE queued
  /\ IF handle = "attached" THEN Show(Written(View, Head(wire))) ELSE UNCHANGED view
  /\ UNCHANGED <<backend, listening, cached, mounted, handle, answer, failures, history>>

-----------------------------------------------------------------------------
Next ==
  \/ \E p \in Producer : Emit(p) \/ (\E n \in 1 .. MaxChunk : AppendOutput(p, n))
  \/ TakeSnapshot \/ Cache \/ Mount \/ AttachFails \/ Retry \/ Attached \/ Listen \/ Deliver

Spec == Init /\ [][Next]_vars

(* What was appended is emitted, events and answers arrive, the timer fires; *)
(* the shell owes no output and nobody has to open the viewport.             *)
FairSpec ==
  /\ Spec
  /\ \A p \in Producer : WF_vars(Emit(p))
  /\ WF_vars(TakeSnapshot) /\ WF_vars(Retry) /\ WF_vars(Attached) /\ WF_vars(Listen)
  /\ WF_vars(Deliver)

-----------------------------------------------------------------------------
(* XTermViewport.tsx:351: no "duplicated/garbled bytes".  Whatever mixture of *)
(* cached snapshot, failed attach, queued and late chunks the viewport has    *)
(* seen, its screen is one run of the output that ends at its offset.        *)
ScreenIsARun == screen = Bytes(last - Len(screen), last)

(* The screen reaches back at least as far as a fresh attach would: nothing   *)
(* on it is given up for a hole, unless a chunk overtook another or was       *)
(* emitted while the listener was being registered.                          *)
ScreenReachesBack ==
  handle = "attached" /\ ~overtaken /\ ~missed => last - Len(screen) <= TailStart

(* Everything that was output is on the screen of a mounted viewport in the   *)
(* end, however the attach and the events interleave.                        *)
ScreenCatchesUp ==
  \A n \in 1 .. MaxBytes : (mounted /\ next = n) ~> (last >= n \/ missed)
=============================================================================
