SPECIFICATION BoardSpec
CONSTANTS
  Ports = {"GPIO_0", "GPIO_1"}
  APB_CLK_FREQ <- Buses
  Clocks <- SomeClocks
  Bauds = {115200}
  LineConfigs <- Lines
  ByteArgs = {7}
  Loopbacks <- LoopbacksOn
  MaxConfigCalls = 3
  MaxIoCalls = 5
PROPERTIES NoStaleInterrupt DrivesAsAsked SettingsAsAsked BaudNearest
CHECK_DEADLOCK FALSE
