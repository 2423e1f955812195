SPECIFICATION Spec
CONSTANTS
  Producers = {bridge_task, lvgl_task}
  Msgs = {serial_bytes, send_text}
  Bare = {}
  Oversize = {}
  SlotCount = 2
  IndexModulus = 4
  NoMsg = NoMsg
INVARIANT DeliveredWhole
