------------------------------- MODULE SegWire -------------------------------
(***************************************************************************)
(* How a number gets to the display's chip: _displayNum and clear() of     *)
(* main/SegDisplay.cpp on top of main/rmt_uart.c.  The display's task and, *)
(* before deep sleep, the power monitor put digits into one buffer,        *)
(* convert it byte by byte to one array of symbols through one index, and  *)
(* hand that array to the RMT driver, which does not copy it.              *)
(*                                                                         *)
(* Of the six bytes of a number two differ from one to the next; the       *)
(* frame is the command byte and these two.  The second frame of each      *)
(* write, two constant bytes, is one byte here.  A byte is converted at    *)
(* once; the symbols of one byte are not mixed with those of another.      *)
(***************************************************************************)
EXTENDS Integers, Sequences

CONSTANTS Number,       \* what is shown: pairs of digits
          MaxItems      \* bytes that the array has room for: 10 of 6 + 6

Writers == {"task", "monitor"}
Digits0 == <<"off", "off">>
Digit == {"off", "0", "1", "2", "3", "4", "5", "6", "7", "8", "9"}

(* The array has room for a number's frame. *)
ASSUME WireAssumption == MaxItems \in Nat /\ MaxItems >= 3 /\ Number \subseteq Digit \X Digit

VARIABLES
    buff,       \* m_buff[1], m_buff[2]
    items,      \* the bytes whose symbols are in rtc->items
    index,      \* rtc->item_index, in bytes
    pen,        \* what each writer is doing; alone (history): the other was not
                \* at work since it began
    airing,     \* the RMT channel is sending
    pending,    \* lengths of the transactions that wait for it
    digits,     \* what the chip shows; Torn: a frame it cannot have understood
    mixed       \* history: the last frame for the chip, or one since the last
                \* number, was written while the other writer was at work

wireVars == <<buff, items, index, pen, airing, pending, digits, mixed>>

Torn  == <<"?", "?">>
NoPen == [at |-> "no", num |-> Digits0, pos |-> 0, alone |-> TRUE]

WireStarts(bf, it, ix, pn, ai, pd, dg, mx) ==
    /\ bf = Digits0
    /\ it = [i \in 1 .. MaxItems |-> "off"] /\ ix = 0
    /\ pn = [w \in Writers |-> NoPen]
    /\ ai = FALSE /\ pd = <<>>
    /\ dg = Digits0
    /\ mx = FALSE

WireInit  == WireStarts(buff, items, index, pen, airing, pending, digits, mixed)
WireReset == WireStarts(buff', items', index', pen', airing', pending', digits', mixed')

AtWork(w) == pen[w].at # "no"

(* What a writer does next. *)
Go(w, at) == pen' = [pen EXCEPT ![w] = [@ EXCEPT !.at = at, !.pos = 0]]

(* _displayNum(num), or clear(). *)
BeginWrite(w, num) ==
    /\ ~AtWork(w)
    /\ LET others == { v \in Writers : AtWork(v) }
       IN  pen' = [v \in Writers |->
                     IF v = w THEN [at |-> "ones", num |-> num, pos |-> 0, alone |-> others = {}]
                     ELSE [pen[v] EXCEPT !.alone = v \notin others]]
    /\ UNCHANGED <<buff, items, index, airing, pending, digits, mixed>>

(* _displayNum stores the ones first, clear() the tens: no matter. *)
StoreDigit(w) ==
    \/ /\ pen[w].at = "ones"
       /\ buff' = [buff EXCEPT ![2] = pen[w].num[2]]
       /\ Go(w, "tens")
       /\ UNCHANGED <<items, index, airing, pending, digits, mixed>>
    \/ /\ pen[w].at = "tens"
       /\ buff' = [buff EXCEPT ![1] = pen[w].num[1]]
       /\ Go(w, "number")
       /\ UNCHANGED <<items, index, airing, pending, digits, mixed>>

Source(w) == IF pen[w].at = "number" THEN <<"num", buff[1], buff[2]>> ELSE <<"ctl">>

(* convert_data_to_items and convert_byte_to_items: the index is set back, *)
(* then every byte goes where the index is and moves it.                   *)
(* (A fault: the index is not set back.) *)
ConvertOn(w) ==
    /\ pen[w].at \in {"number", "control"} /\ pen[w].pos < Len(Source(w))
    /\ index < MaxItems
    /\ items' = [items EXCEPT ![index + 1] = Source(w)[pen[w].pos + 1]]
    /\ index' = index + 1
    /\ pen' = [pen EXCEPT ![w].pos = @ + 1]
    /\ UNCHANGED <<buff, airing, pending, digits, mixed>>

NextPlace(w) == IF pen[w].pos = 0 THEN 0 ELSE index

Convert(w) ==
    /\ pen[w].at \in {"number", "control"} /\ pen[w].pos < Len(Source(w))
    /\ NextPlace(w) < MaxItems
    /\ items' = [items EXCEPT ![NextPlace(w) + 1] = Source(w)[pen[w].pos + 1]]
    /\ index' = NextPlace(w) + 1
    /\ pen' = [pen EXCEPT ![w].pos = @ + 1]
    /\ UNCHANGED <<buff, airing, pending, digits, mixed>>

AfterFrame(w) == Go(w, IF pen[w].at = "number" THEN "pause" ELSE "end")

(* "DATA TOO LONG": the array is full, nothing is sent, nobody is told.    *)
TooLong(w) ==
    /\ pen[w].at \in {"number", "control"} /\ pen[w].pos < Len(Source(w))
    /\ NextPlace(w) >= MaxItems
    /\ AfterFrame(w)
    /\ UNCHANGED <<buff, items, index, airing, pending, digits, mixed>>

(* The chip gets a frame. *)
Shown(frame) ==
    CASE frame = <<"ctl">> -> digits
      [] Len(frame) = 3 /\ frame[1] = "num" /\ frame[2] # "ctl" /\ frame[3] # "ctl"
           /\ frame[2] # "num" /\ frame[3] # "num" -> <<frame[2], frame[3]>>
      [] OTHER -> Torn

(* rmt_transmit: an idle channel encodes the array at once, a busy one     *)
(* when it gets to it, from what the array holds then.                     *)
Transmit(w) ==
    /\ pen[w].at \in {"number", "control"} /\ pen[w].pos = Len(Source(w))
    /\ IF airing
       THEN pending' = Append(pending, index) /\ UNCHANGED <<airing, digits, mixed>>
       ELSE /\ airing' = TRUE /\ digits' = Shown(SubSeq(items, 1, index))
            /\ mixed' = (~pen[w].alone \/ (mixed /\ pen[w].at = "control"))
            /\ UNCHANGED pending
    /\ AfterFrame(w)
    /\ UNCHANGED <<buff, items, index>>

AirEnds ==
    /\ airing
    /\ IF pending = <<>> THEN airing' = FALSE /\ UNCHANGED <<pending, digits, mixed>>
       ELSE /\ digits' = Shown(SubSeq(items, 1, Head(pending)))
            /\ mixed' = TRUE
            /\ pending' = Tail(pending) /\ UNCHANGED airing
    /\ UNCHANGED <<buff, items, index, pen>>

(* 10 ms are enough for a frame, and for one that waited before it. *)
Paused(w) ==
    /\ ~airing
    /\ \/ pen[w].at = "pause" /\ Go(w, "control")
       \/ pen[w].at = "end" /\ pen' = [pen EXCEPT ![w] = NoPen]
    /\ UNCHANGED <<buff, items, index, airing, pending, digits, mixed>>

Writing(w) == StoreDigit(w) \/ Convert(w) \/ TooLong(w) \/ Transmit(w) \/ Paused(w)

-----------------------------------------------------------------------------
(* The chip shows a number that was asked for, or nothing, unless the two  *)
(* writers have met; and one who writes a number without meeting the other *)
(* gets that number shown, whatever the two have left behind before.       *)
WholeNumbers ==
    /\ digits \in Number \cup {Digits0} \/ mixed
    /\ \A w \in Writers :
         pen[w].alone /\ pen[w].at \in {"pause", "control", "end"} => digits = pen[w].num
=============================================================================
