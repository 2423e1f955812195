SPECIFICATION Spec
CONSTANTS
  DataSlots = 1
  LogSlots = 1
  CmdSlots = 1
  CdcTx = 1
  PayloadBytes = 2
  Kinds = {"SERIAL_BYTES", "RX_TEXT", "REBOOT_NOTIFY", "other"}
  MaxData = 2
  MaxHost = 2
INVARIANTS BridgeInv CommandsInOrder
PROPERTIES DataIsHandled CommandsAreExecuted
CHECK_DEADLOCK FALSE
