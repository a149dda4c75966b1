--------------------------- MODULE NativeTransport ---------------------------
(***************************************************************************)
(* The stdin of the native host: the bytes of the extension's messages, the *)
(* pump that cuts them into frames, the command chain with the replies that *)
(* pass it, and the stage that assembles a project sent in parts.           *)
(*                                                                          *)
(* A byte is a number below Base and a length takes HeaderBytes = 2 of them.*)
(* A message is [kind, body], with what its body says in further fields.    *)
(***************************************************************************)
EXTENDS Integers, SequencesExt

CONSTANTS
  Base,      \* bytes are 0 .. Base - 1
  MaxFrame,  \* NATIVE_FRAME_MAX_BYTES
  Inputs,    \* sequences of messages that the extension may send
  None

\* What the constants must be: a header holds the length of each message.
TransportAssumption ==
  /\ Base \in Nat \ {0} /\ MaxFrame \in 0 .. Base * Base - 1
  /\ \A ms \in Inputs :
       /\ ms \in Seq(ToSet(ms))
       /\ \A m \in ToSet(ms) : m.body \in Seq(0 .. Base - 1) /\ Len(m.body) < Base * Base

VARIABLES
  input,      \* the messages sent
  arrived,    \* bytes of them that have reached the host
  buffer,     \* bytes not yet cut into frames
  discard,    \* discardPayloadBytes
  frames,     \* frames cut so far
  chain,      \* commands not yet begun, oldest first
  running,    \* the command in progress, or None
  replied,    \* host- replies seen
  stage,      \* None or the project stage [total, count, digest, parts, expired]
  set,        \* contents handed to the controller with runtime.project.set
  answered    \* commands finished

vars == <<input, arrived, buffer, discard, frames, chain, running, replied, stage, set, answered>>

-----------------------------------------------------------------------------
(* Frames.                                                                 *)

Encode(m) == <<Len(m.body) % Base, Len(m.body) \div Base>> \o m.body
Stream(ms) == FlattenSeq([i \in DOMAIN ms |-> Encode(ms[i])])
Length(bytes) == bytes[1] + Base * bytes[2]

\* Mutant of Left: a discard ends with the chunk it began in.
LeftForgetful(d, n) == 0

\* What is left to discard after n bytes have come.
Left(d, n) == IF n < d THEN d - n ELSE 0

\* feedNativeInputPump() from byte p of what is buffered, d bytes to discard.
Fed(bytes) ==
  LET all == buffer \o bytes
      from[p \in 0 .. Len(all)] ==
        [d \in 0 .. Base * Base |->
          LET n == Len(all) - p
              length == Length(SubSeq(all, p + 1, p + 2))
          IN  CASE d > 0 /\ n > 0 -> from[p + (IF n < d THEN n ELSE d)][Left(d, n)]
                [] n = 0 \/ (d = 0 /\ n = 1) ->
                     [frames |-> <<>>, buffer |-> SubSeq(all, p + 1, Len(all)), discard |-> d]
                [] d = 0 /\ n >= 2 /\ length > MaxFrame -> from[p + 2][length]
                [] d = 0 /\ n >= 2 /\ length <= MaxFrame /\ n < 2 + length ->
                     [frames |-> <<>>, buffer |-> SubSeq(all, p + 1, Len(all)), discard |-> 0]
                [] OTHER -> LET rest == from[p + 2 + length][0]
                            IN  [rest EXCEPT !.frames = <<SubSeq(all, p + 1, p + 2 + length)>> \o @]]
  IN  from[0][discard]

\* A frame is read as the message it encodes; any other one is dropped.
Decoded(frame) ==
  LET at == SelectInSeq(input, LAMBDA m : Encode(m) = frame)
  IN  IF at = 0 THEN None ELSE input[at]

\* Mutant of IsReply: replies take their turn in the chain.
IsReplyNever(frame) == FALSE

IsReply(frame) == Decoded(frame) # None /\ Decoded(frame).kind = "reply"

-----------------------------------------------------------------------------
Init ==
  /\ input \in Inputs
  /\ arrived = 0 /\ buffer = <<>> /\ discard = 0 /\ frames = <<>>
  /\ chain = <<>> /\ running = None /\ replied = 0
  /\ stage = None /\ set = <<>> /\ answered = 0

\* A chunk of stdin: its frames are dispatched, replies past the chain.
Chunk(n) ==
  LET bytes == SubSeq(Stream(input), arrived + 1, arrived + n)
      fed == Fed(bytes)
  IN  /\ arrived + n <= Len(Stream(input))
      /\ arrived' = arrived + n
      /\ buffer' = fed.buffer /\ discard' = fed.discard
      /\ frames' = frames \o fed.frames
      /\ chain' = chain \o SelectSeq(fed.frames, LAMBDA f : ~IsReply(f))
      /\ replied' = replied + Len(SelectSeq(fed.frames, IsReply))
      /\ UNCHANGED <<input, running, stage, set, answered>>

pump == <<input, arrived, buffer, discard, frames, replied>>

\* The next link of the chain: the frame is decoded; what cannot be decoded
\* gets no answer.
Begin ==
  /\ running = None /\ chain # <<>>
  /\ chain' = Tail(chain)
  /\ running' = Decoded(Head(chain))
  /\ answered' = IF running' = None THEN answered + 1 ELSE answered
  /\ UNCHANGED <<pump, stage, set>>

Done == running' = None /\ answered' = answered + 1 /\ UNCHANGED <<pump, chain>>

StageBegin ==
  /\ running # None /\ running.kind = "begin"
  /\ stage' = IF running.valid
              THEN [total |-> running.total, count |-> running.count,
                    digest |-> running.digest, parts |-> <<>>, expired |-> FALSE]
              ELSE None
  /\ UNCHANGED set /\ Done

\* The five seconds of the stage are over.
Expire ==
  /\ stage # None /\ ~stage.expired
  /\ stage' = [stage EXCEPT !.expired = TRUE]
  /\ UNCHANGED <<pump, chain, running, set, answered>>

\* In time, within the count, and not received before.
Accepts(s, index) ==
  ~s.expired /\ index \in 0 .. s.count - 1 /\ \A p \in ToSet(s.parts) : p.index # index

\* A part that is not accepted ends the stage.
StagePart ==
  /\ running # None /\ running.kind = "part"
  /\ stage' = IF stage # None /\ Accepts(stage, running.index)
              THEN [stage EXCEPT !.parts = Append(@, [index |-> running.index, data |-> running.data])]
              ELSE None
  /\ UNCHANGED set /\ Done

\* The parts in the order of their indexes; of two with one index the later.
Assembled(s) ==
  FlattenSeq([i \in 1 .. s.count |->
    LET at == SelectLastInSeq(s.parts, LAMBDA p : p.index = i - 1)
    IN  IF at = 0 THEN <<>> ELSE s.parts[at].data])

\* The digest stands for the content it was made of.
Commits(s) ==
  /\ ~s.expired
  /\ Len(s.parts) = s.count
  /\ Len(Assembled(s)) = s.total
  /\ Assembled(s) = s.digest

StageCommit ==
  /\ running # None /\ running.kind = "commit"
  /\ set' = IF stage # None /\ Commits(stage) THEN Append(set, Assembled(stage)) ELSE set
  /\ stage' = None
  /\ Done

\* Any other command; one that asks the extension for the PAC waits for its
\* reply.  (NativeHost has its timer; what is claimed here needs no timer.)
Command ==
  /\ running # None /\ running.kind \in {"command", "asks"}
  /\ running.kind = "asks" => replied > 0
  /\ UNCHANGED <<stage, set>> /\ Done

Arrives == \E n \in 1 .. Len(Stream(input)) - arrived : Chunk(n)
Serves == Begin \/ StageBegin \/ StagePart \/ StageCommit \/ Command
Next == Arrives \/ Serves \/ Expire

Spec == Init /\ [][Next]_vars /\ WF_vars(Arrives) /\ WF_vars(Serves)

-----------------------------------------------------------------------------
\* The frames whose last byte has arrived, without the oversized ones.
Expected ==
  LET Upto(i) == Len(Stream(SubSeq(input, 1, i)))
      whole == {i \in DOMAIN input : Upto(i) <= arrived}
  IN  FlattenSeq([i \in 1 .. Cardinality(whole) |->
        IF Len(input[i].body) > MaxFrame THEN <<>> ELSE <<Encode(input[i])>>])

\* However stdin is cut into chunks, each frame that fits is cut once, at its
\* own bytes, as soon as it is whole, and the frame after an oversized one too.
FramesExact == frames = Expected

\* A project that is set is, byte for byte, the one some begin announced.
SetAsAnnounced ==
  \A i \in DOMAIN set : \E m \in ToSet(input) : m.kind = "begin" /\ m.digest = set[i]

\* A command that asks the extension is answered, though the commands after it
\* were sent before the reply: all that is sent gets done.
Served ==
  /\ arrived = Len(Stream(input))
  /\ answered = Len(SelectSeq(frames, LAMBDA f : ~IsReply(f)))
AllServed == <>Served
==============================================================================
