-------------------------------- MODULE Common --------------------------------
(* What the pairing modules and the routing modules both speak of.          *)

CONSTANTS
    None,     \* Option::None, an empty byte string or an empty blob
    Nodes     \* nodes; a node also stands for its PairingInfo and its node id
=============================================================================
