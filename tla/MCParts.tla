-------------------------------- MODULE MCParts -------------------------------
(***************************************************************************)
(* The parts that do not meet in the properties of this project, side by   *)
(* side in one instance for TLC: in each behaviour one of them moves, the  *)
(* one in focus, and the others stay as they start.                        *)
(***************************************************************************)
EXTENDS MCTerminalBridge, AnsiFilter, ApGuard, DisplayPower, EventLog, Gestures,
        Limits, Startup, ConfigTransfer

VARIABLE focus

partsVars == <<focus, vars, filterVars, apVars, displayVars, logVars, gestureVars,
               limitVars, startVars, transferVars>>

MCDigits == <<"0", "1">>
MCSums == {"sum0", "SUM0", "sum1"}
MCWords == {0, 1}
MCHexText == [word \in MCWords |-> IF word = 0 THEN "sum0" ELSE "sum1"]
MCHexWord == [sum \in MCSums |-> IF sum = "sum1" THEN 1 ELSE 0]
MCHash == [s \in Settings |-> (Len(s.ssid) + s.channel + s.brightness) % 2]
MCNames == UNION {[1 .. n -> {"a", "unsafe"}] : n \in 1 .. 2}
MCOtherDevice == [ssid |-> <<"a">>, channel |-> 1, brightness |-> 0]

Parts == {"bridge", "filter", "ap", "display", "log", "gestures", "limits", "start",
          "transfer"}

PartsInit ==
  /\ focus \in Parts
  /\ Init
  /\ FilterInit
  /\ IF focus = "display" THEN DisplayInit ELSE DisplayInit /\ ~wakeDown
  /\ IF focus = "transfer" THEN TransferInit ELSE TransferInit /\ device = OtherDevice
  /\ IF focus = "gestures" THEN GestureInit ELSE GestureInit /\ down = {}
  /\ ApInit
  /\ LogInit
  /\ LimitInit
  /\ StartInit

BridgeMoves ==
  /\ focus = "bridge" /\ Next
  /\ UNCHANGED <<focus, filterVars, apVars, displayVars, logVars, gestureVars, limitVars,
                 startVars, transferVars>>

FilterMoves ==
  /\ focus = "filter" /\ FilterNext
  /\ UNCHANGED <<focus, vars, apVars, displayVars, logVars, gestureVars, limitVars,
                 startVars, transferVars>>

ApMoves ==
  /\ focus = "ap" /\ ApNext
  /\ UNCHANGED <<focus, vars, filterVars, displayVars, logVars, gestureVars, limitVars,
                 startVars, transferVars>>

DisplayMoves ==
  /\ focus = "display" /\ DisplayNext
  /\ UNCHANGED <<focus, vars, filterVars, apVars, logVars, gestureVars, limitVars,
                 startVars, transferVars>>

LogMoves ==
  /\ focus = "log" /\ LogNext
  /\ UNCHANGED <<focus, vars, filterVars, apVars, displayVars, gestureVars, limitVars,
                 startVars, transferVars>>

GesturesMove ==
  /\ focus = "gestures" /\ GestureNext
  /\ UNCHANGED <<focus, vars, filterVars, apVars, displayVars, logVars, limitVars,
                 startVars, transferVars>>

LimitsMove ==
  /\ focus = "limits" /\ LimitNext
  /\ UNCHANGED <<focus, vars, filterVars, apVars, displayVars, logVars, gestureVars,
                 startVars, transferVars>>

StartMoves ==
  /\ focus = "start" /\ StartNext
  /\ UNCHANGED <<focus, vars, filterVars, apVars, displayVars, logVars, gestureVars,
                 limitVars, transferVars>>

TransferMoves ==
  /\ focus = "transfer" /\ TransferNext
  /\ UNCHANGED <<focus, vars, filterVars, apVars, displayVars, logVars, gestureVars,
                 limitVars, startVars>>

(* The bytes and the events of the model end, and so does the start.       *)
PartEnds == focus \in {"filter", "log", "start"} /\ UNCHANGED partsVars

PartsNext ==
  \/ BridgeMoves \/ FilterMoves \/ ApMoves \/ DisplayMoves \/ LogMoves
  \/ GesturesMove \/ LimitsMove \/ StartMoves \/ TransferMoves \/ PartEnds

PartsSpec == PartsInit /\ [][PartsNext]_partsVars

(* The type invariants of the parts.                                       *)
PartsTypeOK ==
  /\ TypeOK /\ FilterTypeOK /\ ApTypeOK /\ DisplayTypeOK /\ LogTypeOK
  /\ GestureTypeOK /\ LimitTypeOK /\ StartTypeOK /\ TransferTypeOK
=============================================================================
