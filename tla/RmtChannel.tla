------------------------------ MODULE RmtChannel ------------------------------
(***************************************************************************)
(* How the LED strip's colours and the turret's infrared shots get on the  *)
(* wire: update() of main/LedStrip.cpp with main/led_strip_encoder.c, and  *)
(* send() of main/IRMTransceiver.cpp with main/IRMNECEncoder.c.            *)
(*                                                                         *)
(* The RMT driver (not of this repository) calls an encoder again and      *)
(* again, each time with room for some symbols; the encoder keeps the part *)
(* of the frame that it is at.  It reads the caller's data then, and not   *)
(* when rmt_transmit is called: the driver copies none of it.              *)
(***************************************************************************)
EXTENDS Integers, Sequences

Channels == {"strip", "ir"}

(* Where the parts of a frame end, in symbols: eight LEDs of 24 bits and a *)
(* reset code; a leading code, address, command and an ending code.        *)
LedParts == <<192, 193>>
NecParts == <<1, 17, 33, 34>>

Ends == [strip |-> LedParts, ir |-> NecParts]

Memory == 48                \* mem_block_symbols
Half   == Memory \div 2     \* what the driver refills at a time

VARIABLES
    chan,       \* the two channels, each with its encoder
    lit,        \* m_led_strip_pixels: is any of it not black?
    shown       \* what the strip has been sent last

rmtVars == <<chan, lit, shown>>

(* at: "idle", "encode", "full" (the driver waits for room), "last"; part, *)
(* pos: of the encoder and of the one it has called; room: symbols that    *)
(* fit; waiting: transmissions behind this one.  History: out, the symbols *)
(* of this frame so far; inOrder, they are the frame's; held, the caller   *)
(* waits; stale, data was read after the caller had left; read, what of    *)
(* the pixels was read.                                                    *)
Idle == [at |-> "idle", part |-> 1, pos |-> 0, room |-> 0, waiting |-> 0, out |-> 0,
         inOrder |-> TRUE, held |-> FALSE, stale |-> FALSE, read |-> {}]

RmtStarts(ch, lt, sh) == ch = [c \in Channels |-> Idle] /\ lt = FALSE /\ sh = {FALSE}

RmtInit  == RmtStarts(chan, lit, shown)
RmtReset == RmtStarts(chan', lit', shown')

-----------------------------------------------------------------------------
Start(c, k) == IF k = 1 THEN 0 ELSE Ends[c][k - 1]

(* The driver resets the encoder for a new frame, and has all of the       *)
(* channel's memory for it.                                                *)
FirstCall(held) == [Idle EXCEPT !.at = "encode", !.room = Memory, !.held = held]

(* rmt_transmit: an idle channel encodes at once, a busy one when its turn *)
(* comes.                                                                  *)
RmtTransmit(c) ==
    chan' = [chan EXCEPT ![c] = IF @.at = "idle" THEN FirstCall(TRUE)
                                ELSE [@ EXCEPT !.waiting = chan[c].waiting + 1]]

Carries(c, k) == IF c = "strip" THEN k = 1 ELSE k \in {2, 3}

(* What a call of the encoder for one part has done to it.                 *)
(* (A fault: a part that fills the memory to the last symbol is not left   *)
(* before the encoder yields.)                                             *)
AfterPartKept(e, left, next) ==
    [e EXCEPT !.part = IF e.room = left THEN @ ELSE next, !.pos = 0]

AfterPart(e, left, next) == [e EXCEPT !.part = next, !.pos = 0]

(* One case of the switch in rmt_encode_led_strip or rmt_encode_ir_nec: as *)
(* many symbols as there are and as fit; a part that is over is left, one  *)
(* that fills the memory yields, the others fall through.                  *)
EncodePart(c) ==
    LET e    == chan[c]
        left == Ends[c][e.part] - Start(c, e.part) - e.pos
        k    == IF left < e.room THEN left ELSE e.room
        done == e.room >= left
        last == done /\ e.part = Len(Ends[c])
        f    == IF done THEN AfterPart(e, left, IF last THEN 1 ELSE e.part + 1)
                ELSE [e EXCEPT !.pos = @ + k]
    IN  /\ e.at = "encode"
        /\ chan' = [chan EXCEPT ![c] =
              [f EXCEPT !.at = IF last THEN "last" ELSE IF e.room <= left THEN "full" ELSE "encode",
                        !.room = @ - k,
                        !.out = @ + k,
                        !.inOrder = @ /\ Start(c, e.part) + e.pos = e.out,
                        !.stale = @ \/ (Carries(c, e.part) /\ ~e.held),
                        !.read = IF c = "strip" /\ Carries(c, e.part) THEN @ \cup {lit} ELSE @]]

(* Half of the memory has been sent.  Who waits for the end of the         *)
(* transmission (update) is still there, who does not (send) is gone.      *)
Refill(c) ==
    /\ chan[c].at = "full"
    /\ chan' = [chan EXCEPT ![c] = [@ EXCEPT !.at = "encode", !.room = Half,
                                             !.held = chan[c].held /\ c = "strip"]]

(* The frame is out; the next one's turn. *)
Sent(c) ==
    /\ chan[c].at = "last"
    /\ chan' = [chan EXCEPT ![c] =
          IF @.waiting = 0 THEN [@ EXCEPT !.at = "idle", !.held = FALSE]
          ELSE [FirstCall(c = "strip") EXCEPT !.waiting = chan[c].waiting - 1, !.stale = chan[c].stale,
                                              !.inOrder = chan[c].inOrder]]
    /\ shown' = IF c = "strip" THEN chan[c].read ELSE shown

RmtStep ==
    /\ UNCHANGED lit
    /\ \E c \in Channels : \/ (EncodePart(c) \/ Refill(c)) /\ UNCHANGED shown
                           \/ Sent(c)

(* update() returns when all transmissions have ended. *)
AllDone(c) == chan[c].at = "idle"

-----------------------------------------------------------------------------
(* Every frame goes out whole and in order, wherever the driver's memory   *)
(* cuts it, and what it carries is read before its owner - send() has it   *)
(* on its stack - is gone.                                                 *)
FramesAreWhole ==
    \A c \in Channels :
        /\ chan[c].inOrder /\ ~chan[c].stale
        /\ chan[c].at = "last" =>
             chan[c].out = Ends[c][Len(Ends[c])] /\ chan[c].part = 1 /\ chan[c].pos = 0
=============================================================================
