---------------------------- MODULE ChipControl -----------------------------
(***************************************************************************)
(* The commands that act on the chip itself: control_adapter takes a line  *)
(* of words from any control thread, finds its command and executes it on  *)
(* gnss_controller, which sends UBX-CFG-RST and UBX-UPD-SOS requests, or   *)
(* drives the RESET_N pin low for 150 ms.  The commands hold cmd_mutex_,   *)
(* hardware_reset() does not: its pulse may overlap with another one and   *)
(* with any command.                                                       *)
(***************************************************************************)
EXTENDS Integers, Sequences

CONSTANTS
  Callers,    \* control threads
  Lines,      \* the lines of words they pass to execute_command()
  Failures,   \* how a GPIO may fail: "open", its file cannot be opened; "lost", the
              \*   driver refuses what is written once the stream is closed
  MaxFailures \* bound on the failures

\* Time in units of 50 ms: the pulse of GNSS_RESET_N_PULSE_DURATION_MS, and what
\* the chip needs (ZED-F9P integration manual, section 3.9.2).
Pulse    == 3
MinPulse == 2

MAX_COMMAND_ARGS == 6

\* A call in progress: what is left of its sleep, whether another call overlaps
\* with it, whether a pulse long enough has ended since it began, and whether all
\* it has written has reached the pin.
Holding(left, overlapped, pulsed, carried) ==
  [left |-> left, overlapped |-> overlapped, pulsed |-> pulsed, carried |-> carried]

Idle == Holding(-1, FALSE, FALSE, TRUE)

VARIABLES
  pin,        \* reset_n_pin_ is configured
  call,       \* Callers -> Idle, or a hardware_reset() that holds the line low
  failures,
  line,       \* the level of RESET_N: "high", "low" (external)
  lowFor,     \* for how long it has been low, up to MinPulse (external)
  aiding,     \* the aiding data in the chip's battery-backed RAM (external)
  gnss,       \* its GNSS part runs (external)
  stored,      \* its flash holds a backup (external)
  \* History, for the properties:
  owed,       \* a hardware_reset() has not raised the line, since it was raised last
  promised,   \* what the commands that have reached the chip say they leave:
              \*   the aiding data, whether GNSS runs, whether there is a backup
  undelivered \* the kinds of call ("alone", "overlapped") that have returned true
              \*   with no pulse that is long enough

chipVars == <<aiding, gnss, stored>>
vars == <<pin, call, failures, line, lowFor, chipVars, owed, promised, undelivered>>

\* Sectors of the battery-backed RAM: ephemeris is the first bit of navBbrMask.
Sectors == {"ephemeris", "others"}

Init ==
  /\ pin = FALSE /\ call = [c \in Callers |-> Idle] /\ failures = 0
  /\ line = "high" /\ lowFor = 0
  /\ aiding = Sectors /\ gnss = TRUE /\ stored = FALSE
  /\ owed = FALSE /\ undelivered = {}
  /\ promised = <<Sectors, TRUE, FALSE>>

-----------------------------------------------------------------------------
(* The requests.                                                           *)

\* An operator named Bug... is a slip the code does not make; the checks put it
\* in the place of a definition below it, to see which property notices.

NAV_BBR == [hot |-> 0, warm |-> 1, cold |-> 65535]
CTRL    == [stop |-> 8, start |-> 9, reset |-> 2]
CMD     == [save |-> 0, clear |-> 1]

\* ubx_cfg_rst_builder::build(): the mask little-endian, the mode, a reserved byte.
build(mask, mode) == <<mask % 256, mask \div 256, mode, 0>>

CfgRst ==
  [hot_stop   |-> build(NAV_BBR.hot, CTRL.stop),
   warm_stop  |-> build(NAV_BBR.warm, CTRL.stop),
   cold_stop  |-> build(NAV_BBR.cold, CTRL.stop),
   hot_start  |-> build(NAV_BBR.hot, CTRL.start),
   warm_start |-> build(NAV_BBR.warm, CTRL.start),
   cold_start |-> build(NAV_BBR.cold, CTRL.start),
   hot_reset  |-> build(NAV_BBR.hot, CTRL.reset),
   warm_reset |-> build(NAV_BBR.warm, CTRL.reset),
   cold_reset |-> build(NAV_BBR.cold, CTRL.reset)]

UpdSos == [backup |-> <<CMD.save, 0, 0, 0>>, clear_backup |-> <<CMD.clear, 0, 0, 0>>]

\* What a mask leaves of the aiding data.
Kept(payload) ==
  LET mask == payload[1] + 256 * payload[2]
  IN  {s \in Sectors : IF s = "ephemeris" THEN mask % 2 = 0 ELSE mask < 2}

\* i_gnss_controller.h: what each command leaves.
Keeps ==
  [hot |-> Sectors, warm |-> {"others"}, cold |-> {}]
Says ==
  [hot_stop   |-> <<Keeps.hot, FALSE>>, hot_start  |-> <<Keeps.hot, TRUE>>,
   hot_reset  |-> <<Keeps.hot, TRUE>>,  warm_stop  |-> <<Keeps.warm, FALSE>>,
   warm_start |-> <<Keeps.warm, TRUE>>, warm_reset |-> <<Keeps.warm, TRUE>>,
   cold_stop  |-> <<Keeps.cold, FALSE>>, cold_start |-> <<Keeps.cold, TRUE>>,
   cold_reset |-> <<Keeps.cold, TRUE>>]

\* The request is written; the chip takes it unless it is in reset, or not all
\* of it arrives.
Send(c, name) ==
  /\ call[c] = Idle
  /\ \/ UNCHANGED <<chipVars, promised>>
     \/ LET payload == CfgRst[name] IN
        /\ line = "high"
        /\ aiding' = aiding \cap Kept(payload)
        /\ gnss' = (payload[3] # CTRL.stop)
        /\ promised' = <<promised[1] \cap Says[name][1], Says[name][2], promised[3]>>
        /\ UNCHANGED stored
  /\ UNCHANGED <<pin, call, failures, line, lowFor, owed, undelivered>>

\* As above, with send_sync(): it waits for the chip's UPD-SOS answer, which counts
\* whatever it says; so the chip may also have failed to write its flash.
SendSos(c, name) ==
  /\ call[c] = Idle
  /\ \/ UNCHANGED <<stored, promised>>
     \/ /\ line = "high"
        /\ stored' = (UpdSos[name][1] = CMD.save)
        /\ promised' = [promised EXCEPT ![3] = (name = "backup")]
  /\ UNCHANGED <<pin, call, failures, line, lowFor, aiding, gnss, owed, undelivered>>

-----------------------------------------------------------------------------
(* The pin.                                                                *)

\* gpio_pin_impl::write_value(): what it returns, and whether the line follows.
\* The stream is good as long as the byte is in its buffer.
WriteValue ==
  {<<TRUE, TRUE>>}
  \cup (IF "open" \in Failures /\ failures < MaxFailures THEN {<<FALSE, FALSE>>} ELSE {})
  \cup (IF "lost" \in Failures /\ failures < MaxFailures THEN {<<TRUE, FALSE>>} ELSE {})

Drive(w, level) ==
  /\ failures' = IF w[2] THEN failures ELSE failures + 1
  /\ line' = IF w[2] THEN level ELSE line

\* The line rises.  The chip starts cold if it was low for long enough, and perhaps
\* if it was not.
Rise ==
  IF line = "low" /\ line' = "high"
  THEN \/ /\ aiding' = {} /\ gnss' = TRUE
          /\ promised' = <<{}, TRUE, promised[3]>>
          /\ UNCHANGED stored
       \/ lowFor < MinPulse /\ UNCHANGED <<chipVars, promised>>
  ELSE UNCHANGED <<chipVars, promised>>

Others(c) == {d \in Callers \ {c} : call[d] # Idle}

set_reset_pin ==
  /\ \A c \in Callers : call[c] = Idle
  /\ ~pin /\ pin' = TRUE
  /\ UNCHANGED <<call, failures, line, lowFor, chipVars, owed, promised, undelivered>>

\* hardware_reset(): without a pin, or when it cannot be driven low, false ...
hardware_reset_command(c) ==
  /\ call[c] = Idle
  /\ \/ ~pin /\ UNCHANGED vars
     \/ /\ pin
        /\ \E w \in WriteValue :
             /\ Drive(w, "low")
             /\ lowFor' = IF line = "high" THEN 0 ELSE lowFor
             /\ call' =
                  IF ~w[1] THEN call
                  ELSE [d \in Callers |->
                          IF d = c THEN Holding(Pulse, Others(c) # {}, FALSE, w[2])
                          ELSE IF call[d] = Idle THEN Idle
                          ELSE [call[d] EXCEPT !.overlapped = TRUE]]
        /\ UNCHANGED <<pin, chipVars, owed, promised, undelivered>>

\* Bug: hardware_reset() does not sleep out its pulse.
BugPulseOver(c) == call[c].left < Pulse

PulseOver(c) == call[c].left = 0

\* ... and after the sleep the line is raised; true if write_value() says so.
Release(c) ==
  /\ call[c] # Idle /\ PulseOver(c)
  /\ \E w \in WriteValue :
       LET long    == line = "low" /\ w[2] /\ lowFor = MinPulse
           carried == call[c].carried /\ w[2]
       IN  /\ Drive(w, "high")
           /\ owed' = ~w[2]
           /\ undelivered' =
                IF w[1] /\ carried /\ ~(call[c].pulsed \/ long)
                THEN undelivered \cup {IF call[c].overlapped THEN "overlapped" ELSE "alone"}
                ELSE undelivered
           /\ call' = [d \in Callers |->
                         IF d = c THEN Idle
                         ELSE IF call[d] # Idle /\ long THEN [call[d] EXCEPT !.pulsed = TRUE]
                         ELSE call[d]]
  /\ Rise
  /\ lowFor' = IF line' = "high" THEN 0 ELSE lowFor
  /\ UNCHANGED pin

\* Time passes; a thread may sleep for longer than it asked to.
Tick ==
  /\ call' = [c \in Callers |-> IF call[c] # Idle /\ call[c].left > 0
                                THEN [call[c] EXCEPT !.left = @ - 1] ELSE call[c]]
  /\ lowFor' = IF line = "low" /\ lowFor < MinPulse THEN lowFor + 1 ELSE lowFor
  /\ <<call, lowFor>>' # <<call, lowFor>>
  /\ UNCHANGED <<pin, failures, line, chipVars, owed, promised, undelivered>>

-----------------------------------------------------------------------------
(* Commands by their names: the classes of adapter/commands.               *)

backup_command(c)       == SendSos(c, "backup")
clear_backup_command(c) == SendSos(c, "clear_backup")
hot_stop_command(c)   == Send(c, "hot_stop")
warm_stop_command(c)  == Send(c, "warm_stop")
cold_stop_command(c)  == Send(c, "cold_stop")
hot_start_command(c)  == Send(c, "hot_start")
warm_start_command(c) == Send(c, "warm_start")
cold_start_command(c) == Send(c, "cold_start")
hot_reset_command(c)  == Send(c, "hot_reset")
warm_reset_command(c) == Send(c, "warm_reset")
cold_reset_command(c) == Send(c, "cold_reset")

\* tokenize(): the first word, and at most six more; a blank line has no name.
Tokenize(words) ==
  IF words = <<>> THEN [name |-> "", args |-> <<>>]
  ELSE [name |-> Head(words),
        args |-> SubSeq(words, 2, IF Len(words) - 1 > MAX_COMMAND_ARGS
                                  THEN MAX_COMMAND_ARGS + 1 ELSE Len(words))]

\* command_table_, the commands of this module: a name it does not have does
\* nothing and gives false.
Execute(c, name) ==
  \/ name = "hardware_reset" /\ hardware_reset_command(c)
  \/ name = "backup" /\ backup_command(c)
  \/ name = "clear_backup" /\ clear_backup_command(c)
  \/ name = "hot_stop" /\ hot_stop_command(c)
  \/ name = "warm_stop" /\ warm_stop_command(c)
  \/ name = "cold_stop" /\ cold_stop_command(c)
  \/ name = "hot_start" /\ hot_start_command(c)
  \/ name = "warm_start" /\ warm_start_command(c)
  \/ name = "cold_start" /\ cold_start_command(c)
  \/ name = "hot_reset" /\ hot_reset_command(c)
  \/ name = "warm_reset" /\ warm_reset_command(c)
  \/ name = "cold_reset" /\ cold_reset_command(c)

execute_command(c) == \E words \in Lines : Execute(c, Tokenize(words).name)
Next ==
  \/ set_reset_pin \/ Tick
  \/ \E c \in Callers : execute_command(c) \/ Release(c)

Spec == Init /\ [][Next]_vars

-----------------------------------------------------------------------------
(* Properties.                                                             *)

\* The chip is as the commands left it, whichever calls overlap: RESET_N stays low only while
\* a hardware_reset() sleeps or after one that could not raise it; one that returned true, met
\* no other and lost no write has given the chip a pulse it heeds; and the chip has the aiding
\* data, the state and the backup that i_gnss_controller.h says of the commands it took.
ChipIsAsCommanded ==
  /\ line = "low" => owed \/ \E c \in Callers : call[c] # Idle
  /\ "alone" \notin undelivered
  /\ <<aiding, gnss, stored>> = promised

\* hardware_reset_command.h: the command returns true only if the GPIO pulse was delivered,
\* and gnss_controller.h: cmd_mutex_ serialises all control commands.
PulseIsDelivered == undelivered = {}
=============================================================================
