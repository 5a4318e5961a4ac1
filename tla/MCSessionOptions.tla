------------------------- MODULE MCSessionOptions -------------------------
(* Instances of SessionOptions for TLC.                                     *)
EXTENDS SessionOptions

\* An int of three bits, a Fixnum of four: both sides of each limit.
Samples == {-9, -4, -5, 0, 1, 2, 3, 4, 8}

\* Configuration files with nothing in them, and with options of each kind.
Files == {{}, {"user", "compression", "ssh1"}, {"identity", "port", "hostkeys"},
          {"timeout", "stricthostkeycheck", "log_verbosity"}}
=============================================================================
