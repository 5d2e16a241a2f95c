---------------------------- MODULE MCCartridge ----------------------------
(***************************************************************************)
(* Small instances of a cartridge's chips.  The save chip (GbaSave) and the *)
(* chips on the GPIO pins (CartGpio) share no state and are reached at      *)
(* different addresses, so a behaviour drives one of them and leaves the     *)
(* other as it was at power-on.                                             *)
(*                                                                         *)
(* Flash: two banks of three sectors with a cell each, every command byte   *)
(* at its address, some of them misplaced, and operands that look like       *)
(* commands.  EEPROM: two blocks of two bits, with one address bit more      *)
(* than the chip decodes, as on the 8 KB part.  Clock: bytes of two bits,   *)
(* registers of one and two bytes, two times.  Gyroscope: samples of three   *)
(* bits, two positions.  Solar sensor: a counter of four values, two         *)
(* brightnesses and thresholds.                                             *)
(***************************************************************************)
EXTENDS GbaSave, CartGpio

MCKinds   == {"flash", "eeprom", "sram"}
MCOffsets == {0, A1, A2}
MCBytes   == {0, 1, 16, 48, 85, 128, 144, 160, 170, 176, 240, 255}
MCCommandWrites == {<<A1, K1>>, <<A2, K2>>, <<A1, 160>>, <<A1, 176>>, <<A1, 128>>,
                    <<A1, 144>>, <<A1, 16>>, <<A1, 240>>, <<0, 48>>, <<A2, 48>>,
                    <<0, 1>>, <<A1, 0>>}
MCProgramWrites == {<<0, 1>>, <<0, 240>>, <<A1, K1>>}

MCRegBytes   == <<1, 2, 2>>
MCGuestPins  == {0, 1, 2}
MCDirections == {{0, 2}, {0, 1, 3}}

\* What no chip on the cartridge looks at has one value.
Unused == (cart = "sun" \/ light = 0) /\ (cart = "gyro" \/ tilt = 0)

\* Bound: beside the solar sensor the clock stands still and is asked for one bit.
Brief == cart = "sun" => edges <= Bits + 1 /\ elapsed = 0

VARIABLE driving    \* the part the guest drives

MCInit ==
  /\ Init /\ GpioInit
  /\ \/ driving = "save" /\ cart = "clock" /\ tilt = 0 /\ light = 0
     \/ driving = "pins" /\ kind = "sram" /\ Unused

MCNext ==
  /\ \/ driving = "save" /\ Next /\ UNCHANGED gpioVars
     \/ driving = "pins" /\ GpioNext /\ UNCHANGED vars
  /\ UNCHANGED driving
  /\ Brief'

MCSpec == MCInit /\ [][MCNext]_<<vars, gpioVars, driving>>
=============================================================================
