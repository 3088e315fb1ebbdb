------------------------------- MODULE MCPins --------------------------------
(* Channel A of the uPP has the nibbles of PINMUX18 that no rate pin has.    *)
EXTENDS Pins

ChannelA == {<<18, 0>>, <<18, 1>>, <<18, 6>>, <<18, 7>>}
=============================================================================
