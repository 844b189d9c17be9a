SPECIFICATION Spec
CONSTANTS
  Benches <- AllBenches
  Latencies <- MCLatencies
  Never = 200
  MaxOrder = 2
  Asserts = TRUE
  Convergence = {TRUE}
INVARIANT SharesSound
PROPERTIES FreshMasks SecretsMeasured Ends
CHECK_DEADLOCK FALSE
