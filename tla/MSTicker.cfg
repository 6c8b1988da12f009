SPECIFICATION TickerSpec
CONSTANTS
  source = source
  receiver = receiver
  decoder1 = decoder1
  decoder2 = decoder2
  join = join
  back = back
  output = output
  Filters <- MCFilters
  Sources = {source, receiver}
  OutputPins <- MCOutputPins
  Graphs <- MCGraphs
  Receiver = receiver
  Decoders = {decoder1, decoder2}
  Handles = {source, receiver, join}
  MaxTicks = 2
INVARIANT
  TickerInv
PROPERTIES
  RunsOncePerTick
  UpstreamFirst
  CallsReturn
