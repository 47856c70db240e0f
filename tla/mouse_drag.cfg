CONSTANTS
  w1 = w1
  w2 = w2
  left = left
  right = right
  Windows = {w1, w2}
  NoWindow = NoWindow
  MaxWindows = 2
  Word = 16
  Border = 1
  TitleHeight = 2
  Width = 6
  Height = 4
  Stride = 7
  TitleHash <- TwoHashes
  AccentMin = 2
  AccentInset = 1
  Capacity = 2
  Points <- FewPoints
  Buttons = {left, right}
  Left = left
  Owner <- TwoOwners
  Descs <- TwoFrames
SPECIFICATION Spec
INVARIANTS VisibleIsHitWhenIdle ActiveIsFront SceneIsBound RoutedToOwner DraggedUnderPointer DragFollowsPress
