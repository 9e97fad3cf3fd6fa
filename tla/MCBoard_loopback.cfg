SPECIFICATION BoardSpec
CONSTANTS
  Ports = {"GPIO_0", "GPIO_1"}
  APB_CLK_FREQ <- Buses
  Clocks <- SomeClocks
  Bauds = {115200}
  LineConfigs <- Lines
  ByteArgs = {7}
  Loopbacks <- AllLoopbacks
  MaxConfigCalls = 3
  MaxIoCalls = 0
PROPERTY SettingsAsAsked
CHECK_DEADLOCK FALSE
