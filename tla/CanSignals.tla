------------------------------ MODULE CanSignals ------------------------------
(***************************************************************************)
(* What the dashboard's worker makes of one CAN frame: the bits of each    *)
(* signal (static/src/utils/canDecode.js) and the names under which its    *)
(* value is published (static/src/workers/worker.js): its own, its         *)
(* aliases, the speed computed from a pair of components and the cell of   *)
(* the battery it stands for.                                              *)
(*                                                                         *)
(* A name is a pair <<family, index>>: "vcell_12" is <<"vcell", 12>>, a    *)
(* name with no number has the index -1.  Data are sequences of bytes, bit *)
(* p of the code being bit p % 8 of byte p \div 8.  A descriptor of the    *)
(* CAN map has the fields n, sb, len, bo, signed, f and o of the code.     *)
(* Factors and offsets are integers here, and a speed stands for its       *)
(* square.                                                                 *)
(***************************************************************************)
EXTENDS Integers, Sequences, SequencesExt

Plain(family) == <<family, -1>>

Bit(data, p) == (data[(p \div 8) + 1] \div 2^(p % 8)) % 2
Has(data, p) == p \div 8 < Len(data)

(* The k-th bit after start of a signal numbered as Motorola does.         *)
MotorolaBit(start, k) ==
  LET path[i \in 0..k] ==
        IF i = 0 THEN start
        ELSE IF path[i - 1] % 8 = 0 THEN path[i - 1] + 15 ELSE path[i - 1] - 1
  IN path[k]

(* The bits taken, most significant first: Motorola ends at the end of the *)
(* data, Intel takes what is beyond it for zeros.                          *)
BitsOf(data, sig) ==
  IF sig.bo = "Motorola"
  THEN LET path == [i \in 1..sig.len |-> MotorolaBit(sig.sb, i - 1)]
       IN [i \in {j \in 1..sig.len : \A k \in 1..j : Has(data, path[k])} |-> Bit(data, path[i])]
  ELSE [i \in 1..sig.len |->
          LET p == sig.sb + sig.len - i IN IF Has(data, p) THEN Bit(data, p) ELSE 0]

ExtractBits(data, sig) == FoldLeft(LAMBDA value, bit : 2 * value + bit, 0, BitsOf(data, sig))

(* Mutant: the bit of the sign is not the last one.                        *)
SignedFromHalf(raw, sig) == IF sig.signed /\ raw > 2^(sig.len - 1) THEN raw - 2^sig.len ELSE raw
Signed(raw, sig) ==
  IF sig.signed /\ sig.len > 1 /\ raw >= 2^(sig.len - 1) THEN raw - 2^sig.len ELSE raw

DecodeSignal(data, sig) == Signed(ExtractBits(data, sig), sig) * sig.f + sig.o

-----------------------------------------------------------------------------
(* The other names of a signal.                                            *)

SignalAliases ==
  [APPS_PERC |-> "APS_PERC",
   VoltOverallParam_MinCellVoltage |-> "CELL_VOLTAGE_MIN",
   VoltOverallParam_MaxCellVoltage |-> "CELL_VOLTAGE_MAX",
   CellOverallPar_MinCellTemp |-> "CELL_TEMP_MIN",
   CellOverallPar_MaxCellTemp |-> "CELL_TEMP_MAX",
   SAFETY_OK |-> "SAFETY_NOT_OK",
   ACCEL_X |-> "Accel_Linear_X", ACCEL_Y |-> "Accel_Linear_Y",
   ACCEL_Z |-> "Accel_Linear_Z", GYRO_Z |-> "Velo_Angular_Z",
   VELOCITY_N |-> "Speed_Linear_X", VELOCITY_E |-> "Speed_Linear_Y",
   VELOCITY_X |-> "Speed_Linear_X", VELOCITY_Y |-> "Speed_Linear_Y",
   GPS1_VEL_N |-> "Speed_Linear_X", GPS1_VEL_E |-> "Speed_Linear_Y"]

InverterNames ==
  [act_Speed_A1 |-> "RPM_0A", act_Speed_B1 |-> "RPM_0B",
   act_Speed_A14 |-> "RPM_13A", act_Speed_B14 |-> "RPM_13B",
   act_Torque_A1 |-> "TORQUE_0A", act_Torque_B1 |-> "TORQUE_0B",
   act_Torque_A14 |-> "TORQUE_13A", act_Torque_B14 |-> "TORQUE_13B"]

Renamed(table, name, value) ==
  IF name[1] \in DOMAIN table THEN << [name |-> Plain(table[name[1]]), value |-> value] >> ELSE << >>

(* The pairs of components of a speed; the second one triggers it.         *)
SpeedPairs ==
  [Speed_Linear_Y |-> "Speed_Linear_X", VELOCITY_E |-> "VELOCITY_N",
   VELOCITY_Y |-> "VELOCITY_X", GPS1_VEL_E |-> "GPS1_VEL_N"]

(* Mutant: one component is taken for both.                                *)
SpeedOfOne(name, values) ==
  IF name[1] \in DOMAIN SpeedPairs
  THEN << [name |-> Plain("INS_SPEED"), value |-> 2 * values[name] * values[name]] >>
  ELSE << >>

InsSpeed(name, values) ==
  IF name[1] \in DOMAIN SpeedPairs /\ Plain(SpeedPairs[name[1]]) \in DOMAIN values
  THEN LET x == values[Plain(SpeedPairs[name[1]])]
           y == values[name]
       IN << [name |-> Plain("INS_SPEED"), value |-> x * x + y * y] >>
  ELSE << >>

-----------------------------------------------------------------------------
(* The cells of the battery: 12 messages of 8 signals, or one message with *)
(* the group, from 1, of the 7 signals, from 1, that it carries.           *)

VoltageStart == 431292672  \* 0x19B50100
TemperatureStart == 431294464  \* 0x19B50800
NumMessages == 12
GroupedVoltage == 431292427  \* 0x19B5000B
GroupedTemperature == 431292430  \* 0x19B5000E
NumCells == 96
NoCell == -1

(* Mutant: the signals of every message are numbered alike.                *)
SameInEveryMessage(message, index) == index
ExpandedCell(message, index) == IF index >= 8 THEN index ELSE message * 8 + index

GroupedCell(values, index) ==
  LET group == Plain("IndividualCell_Group") IN
  IF group \notin DOMAIN values \/ index <= 0 THEN NoCell
  ELSE (IF values[group] > 0 THEN values[group] - 1 ELSE 0) * 7 + index - 1

(* The cell of a signal, in a message of the range from start or grouped.  *)
CellIndex(start, grouped, id, index, values) ==
  CASE index < 0 -> NoCell
    [] id \in start..(start + NumMessages - 1) -> ExpandedCell(id - start, index)
    [] id = grouped -> GroupedCell(values, index)
    [] OTHER -> NoCell

BmsCell(id, name, value, values) ==
  LET kind == CASE name[1] = "IndividualCellVoltage_Data" ->
                     <<"vcell", CellIndex(VoltageStart, GroupedVoltage, id, name[2], values)>>
                [] name[1] = "IndividualCellTemp_Data" ->
                     <<"tcell", CellIndex(TemperatureStart, GroupedTemperature, id, name[2], values)>>
                [] OTHER -> <<"none", NoCell>>
  IN IF kind[2] \in 0..(NumCells - 1) THEN << [name |-> kind, value |-> value] >> ELSE << >>

-----------------------------------------------------------------------------
(* handleFrame: all signals are decoded before the first is published.     *)

FrameValues(data, sigs) ==
  [n \in {s.n : s \in ToSet(sigs)} |->
     DecodeSignal(data, sigs[SelectLastInSeq(sigs, LAMBDA s : s.n = n)])]

(* emitSignalWithAliases: what one signal of a frame publishes.            *)
SignalEmissions(id, name, value, values) ==
  << [name |-> name, value |-> value] >>
  \o Renamed(SignalAliases, name, value) \o InsSpeed(name, values)
  \o Renamed(InverterNames, name, value) \o BmsCell(id, name, value, values)

(* The values left, by name, once all of a frame is published: the last    *)
(* one of each name stays.                                                 *)
Published(id, data, sigs) ==
  LET values == FrameValues(data, sigs)
      emitted == FlattenSeq([i \in DOMAIN sigs |->
        SignalEmissions(id, sigs[i].n, DecodeSignal(data, sigs[i]), values)])
  IN [n \in {e.name : e \in ToSet(emitted)} |->
        emitted[SelectLastInSeq(emitted, LAMBDA e : e.name = n)].value]
=============================================================================
