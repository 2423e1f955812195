SPECIFICATION Spec
CONSTANTS
  MenuPages = {"sensors", "power", "audio", "lora", "display", "keyboard", "core1"}
  SerialCommands = {
    "baro", "mag", "imu", "gnss_info", "gnss_probe", "gnss_rfdiag", "gnss_rftft",
    "dump_b", "scan_a", "scan_b", "status", "adc", "led", "motor", "amp_test", "amp",
    "bee", "mic", "mic_raw", "mic_loop", "mic_rec", "mic_dump", "lora", "lora_rx",
    "lora_tx", "lora_dump", "sram", "flash", "psram", "psram_full", "psram_full_75",
    "psram_sweep", "flash_bench", "flash_reset", "flash_boost_pads",
    "flash_pad_ablation", "flash_deep_scan_cached", "flash_deep_ablation_cached",
    "flash_rand_scan_cached", "psram_jlink", "psram_diag", "psram_probe", "qmi_diag",
    "psram_verify", "psram_wthru", "psram_at", "mem_diag", "psram_full_tft",
    "psram_debug", "psram_dma", "psram_rd_diag", "psram_dma_diag", "psram_fps", "key",
    "key_tft", "tft", "tft_fast", "rotate", "gnss_tft", "charge_on", "charge_scan",
    "charge_off", "bq27441", "core1"}
INVARIANTS  MenuUsable MemoryIsSafe
PROPERTY ItemEnds
CHECK_DEADLOCK FALSE
