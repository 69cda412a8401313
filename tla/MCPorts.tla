------------------------------- MODULE MCPorts -------------------------------
(***************************************************************************)
(* An instance of Ports for TLC: a UART in the two modes that uart_config  *)
(* has factories for, an I2C device, a recording, and a replay that loops  *)
(* and one that does not.                                                  *)
(***************************************************************************)
EXTENDS Ports

Config(t, w, wr, l) == [type |-> t, wait |-> w, writable |-> wr, loop |-> l]
MCConfigs ==
    { Config("uart", "timed", FALSE, FALSE), Config("uart", "none", FALSE, FALSE),
      Config("i2c", "timed", FALSE, FALSE), Config("file", "timed", TRUE, FALSE),
      Config("file", "timed", FALSE, FALSE), Config("file", "timed", FALSE, TRUE) }
=============================================================================
