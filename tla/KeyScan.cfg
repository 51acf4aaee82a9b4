SPECIFICATION FairScanSpec
CONSTANTS
  a = a  b = b
  Key = {a, b}
  Col <- ColOf
  Stretch = 6
  Bounce = 3
  Hold = 2
INVARIANTS ScanInv
PROPERTIES OneReport QuietWhenReleased
