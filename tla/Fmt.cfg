CONSTANTS
  MaxInt = 25
  Digits10 = 1
  BufferSize = 3
  Bits = 8
  Unprintable = {128, 173}
  SigBits = 8
  BiasBits = 15
  BigitBits = 4
  Subsegment = 2
  ExpUpper = 3
  MaxRep = 1000000000
  MaxCommon = 2000000001
  MaxSeconds = 1000000000
  MaxField = 10000
  MaxText = 9
SPECIFICATION Spec
INVARIANT AcceptedFormats
INVARIANT CompiledSame
INVARIANT FieldsWellWritten
INVARIANT FloatsExact
INVARIANT TimesExact
INVARIANT BuffersKeepText
CHECK_DEADLOCK FALSE
