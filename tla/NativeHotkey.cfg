CONSTANTS
  End = End
  LeftShift = LeftShift
  RightShift = RightShift
  A = A
  Shift = Shift
  Escape = Escape
  Fn = {}
  Modifiers <- MCModifiers
  Typing <- MCTyping
  Standalone <- MCStandalone
  NativeOnly <- MCNativeOnly
  Generic <- MCGeneric
  Side <- MCSide
  Configured <- MCConfigured
  Gatings <- MCGatings
  MaxDown = 4
SPECIFICATION ListenerSpec
INVARIANTS
  NothingStuck
  PressesPair
  SmallerChordDropped
  AppKeepsNoKey
