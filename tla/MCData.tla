------------------------------- MODULE MCData -------------------------------
(***************************************************************************)
(* Model checking of the components that need little room, each on its     *)
(* own: the subject is chosen at the start and the state of the others     *)
(* never changes.                                                          *)
(***************************************************************************)
EXTENDS Integers, Config

CONSTANTS BaseSizes, Radix, Groups32, Groups64, Items, MaxItems, MaxBlocks
CONSTANTS InHead, In16, Wide, MaxSize, Lengths, PushLengths, MaxFrames, MaxPings, MaxPush

VARIABLES base, ba, items, last
VARIABLES lib, phase, closed, wire, left, rx, got, sent, part, frames, pings, pushes, faulty
VARIABLE subject

B == INSTANCE ByteArray
W == INSTANCE WSSession

bytearray == <<base, ba, items, last>>
websocket == <<lib, phase, closed, wire, left, rx, got, sent, part, frames, pings, pushes, faulty>>

all == <<bytearray, websocket, cfgVars, subject>>

Init == /\ subject \in {"bytearray", "websocket", "config"}
        /\ B!Init /\ W!Init /\ CfgInit
        /\ subject # "bytearray" => \A b \in BaseSizes : base <= b
        /\ subject # "websocket" => ~lib

Next == \/ subject = "bytearray" /\ B!Next /\ UNCHANGED <<websocket, cfgVars, subject>>
        \/ subject = "websocket" /\ W!Next /\ UNCHANGED <<bytearray, cfgVars, subject>>
        \/ subject = "config" /\ CfgNext /\ UNCHANGED <<bytearray, websocket, subject>>

Spec == Init /\ [][Next]_all

\* What was written into a ByteArray comes back (bytearray.cpp).
ReadsBack == B!ReadsBack

\* Messages of a WebSocket connection arrive whole and in order
\* (ws_session.cpp).
DeliveredExact == W!DeliveredExact

-----------------------------------------------------------------------------
(* Values of the constants *)

CONSTANTS t1, t2, nv

\* Numbers of one byte and of several, strings shorter and longer than a
\* block, and each of the readers that do not match their writers
SomeItems ==
  {[kind |-> "Uint64", val |-> 1], [kind |-> "Uint64", val |-> 9], [kind |-> "Int64", val |-> -3],
   [kind |-> "Uint32", val |-> 5], [kind |-> "Int32", val |-> -1],
   [kind |-> "Fuint16", val |-> 3], [kind |-> "Fuint64", val |-> 21],
   [kind |-> "StringF16", val |-> <<1, 2>>], [kind |-> "StringVint", val |-> <<>>],
   [kind |-> "StringF64", val |-> <<3>>], [kind |-> "Raw", val |-> <<1, 2, 3>>]}

\* a: {b: {c: 1}}, where 3 and 4 stand for the texts of the maps; and
\* a: {b: 2} with b: {c: 2} beside it
SomeDocs ==
  {<<[key |-> "a", up |-> 0, val |-> 4], [key |-> "b", up |-> 1, val |-> 3],
     [key |-> "c", up |-> 2, val |-> 1]>>,
   <<[key |-> "a", up |-> 0, val |-> 4], [key |-> "b", up |-> 1, val |-> 2],
     [key |-> "b", up |-> 0, val |-> 3], [key |-> "c", up |-> 3, val |-> 2]>>}

SomeTexts == {<<"a", "b">>}
SomeNames == SomeTexts \union {<<"a", "b", "c">>}
=============================================================================
