SPECIFICATION LiveSpec
CONSTANTS
  audio = audio
  wave = wave
  message = message
  s1 = s1
  s2 = s2
  s3 = s3
  Readers = {audio, wave}
  Probers = {message}
  Sets = {s1, s2, s3}
  NoSet = NoSet
  SpinMax = 2
INVARIANTS NoUseAfterFree IInv
PROPERTIES RetireEnds ImplementsAbs
